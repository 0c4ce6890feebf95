------------------------ MODULE EntityListenersProofs ------------------------
(***************************************************************************)
(* What holds of the listeners for any entities, threads, types of events  *)
(* and rules, and any size of the reference counts.                        *)
(*                                                                         *)
(* A list is looked at through one function only, Held: the count of an    *)
(* entity, 0 if it is not listed.  add_entity and remove_entity change it  *)
(* for one entity, as long as nothing is listed twice.                     *)
(***************************************************************************)
EXTENDS EntityListeners, FiniteSetTheorems, SequenceTheorems, TLAPS

Entry == [entity : Entities, count : 0 .. Counts - 1]
IsListing(list) ==
  /\ list \in Seq(Entry)
  /\ \A p, q \in DOMAIN list : list[p].entity = list[q].entity => p = q

(* All but e are counted as before. *)
OthersHeld(new, list, e) == \A d \in Entities \ {e} : Held(new, d) = Held(list, d)

LEMMA CountsNat == Counts \in Nat /\ Counts > 1
  BY CountsAssumption, SMT

LEMMA PositionFacts ==
  ASSUME NEW list, NEW e, Listed(list, e)
  PROVE  Position(list, e) \in DOMAIN list /\ list[Position(list, e)].entity = e
  BY DEF Listed, Position

LEMMA HeldAt ==
  ASSUME NEW list, IsListing(list), NEW p \in DOMAIN list
  PROVE  /\ Listed(list, list[p].entity)
         /\ Position(list, list[p].entity) = p
         /\ Held(list, list[p].entity) = list[p].count
  <1> DEFINE e == list[p].entity
  <1>1. Listed(list, e)
    BY DEF Listed
  <1>2. Position(list, e) \in DOMAIN list /\ list[Position(list, e)].entity = list[p].entity
    BY <1>1, PositionFacts
  <1>3. Position(list, e) = p
    BY <1>2 DEF IsListing
  <1> QED
    BY <1>1, <1>3 DEF Held

LEMMA HeldNot ==
  ASSUME NEW list, NEW e, ~Listed(list, e)
  PROVE  Held(list, e) = 0
  BY DEF Held

LEMMA HeldType ==
  ASSUME NEW list, IsListing(list), NEW e
  PROVE  Held(list, e) \in 0 .. Counts - 1
  <1>1. CASE Listed(list, e)
    <2>1. Position(list, e) \in DOMAIN list
      BY <1>1, PositionFacts
    <2>2. list[Position(list, e)] \in Entry
      BY <2>1, ElementOfSeq, LenProperties DEF IsListing
    <2> QED
      BY <1>1, <2>2 DEF Held, Entry
  <1>2. CASE ~Listed(list, e)
    BY <1>2, HeldNot, CountsNat, SMT
  <1> QED
    BY <1>1, <1>2

(* An entry is replaced. *)
Replaced(new, list, p, entry) == new = [list EXCEPT ![p] = entry]

LEMMA Recounted ==
  ASSUME NEW list, IsListing(list), NEW e \in Entities, Listed(list, e),
         NEW entry \in Entry, entry.entity = e,
         NEW p, p = Position(list, e), NEW new, Replaced(new, list, p, entry)
  PROVE  IsListing(new) /\ Len(new) = Len(list) /\ Held(new, e) = entry.count /\ OthersHeld(new, list, e)
  <1> DEFINE c == entry.count
  <1>1. p \in DOMAIN list /\ list[p].entity = e
    BY PositionFacts
  <1>2. list \in Seq(Entry) /\ DOMAIN list = 1 .. Len(list) /\ Len(list) \in Nat
    BY LenProperties DEF IsListing
  <1>3. entry \in Entry /\ entry.entity = e /\ entry.count = c
    OBVIOUS
  <1>4. /\ new \in Seq(Entry) /\ Len(new) = Len(list)
        /\ \A j \in 1 .. Len(list) : new[j] = IF j = p THEN entry ELSE list[j]
    BY <1>1, <1>2, <1>3, ExceptSeq DEF Replaced
  <1> HIDE DEF c
  <1>5. DOMAIN new = DOMAIN list
    BY <1>2, <1>4, LenProperties
  <1>6. \A j \in DOMAIN list : new[j].entity = list[j].entity
    BY <1>1, <1>2, <1>3, <1>4
  <1>7. IsListing(new)
    BY <1>4, <1>5, <1>6 DEF IsListing
  <1>8. Held(new, e) = c
    <2>1. p \in DOMAIN new /\ new[p] = entry
      BY <1>1, <1>2, <1>4, <1>5
    <2>2. Held(new, new[p].entity) = new[p].count
      BY <2>1, <1>7, HeldAt
    <2> QED
      BY <2>1, <2>2, <1>3
  <1>9. ASSUME NEW d \in Entities \ {e}
        PROVE  Held(new, d) = Held(list, d)
    <2>1. CASE Listed(list, d)
      <3>1. PICK q \in DOMAIN list : list[q].entity = d
        BY <2>1 DEF Listed
      <3>2. q # p
        BY <3>1, <1>1
      <3>3. new[q] = list[q]
        BY <3>2, <1>2, <1>4
      <3>4. Held(list, d) = list[q].count /\ Held(new, d) = new[q].count
        BY <3>1, <3>3, <1>5, <1>7, HeldAt
      <3> QED
        BY <3>3, <3>4
    <2>2. CASE ~Listed(list, d)
      <3>1. ~Listed(new, d)
        BY <2>2, <1>5, <1>6 DEF Listed
      <3> QED
        BY <2>2, <3>1, HeldNot
    <2> QED
      BY <2>1, <2>2
  <1> QED
    BY <1>4, <1>7, <1>8, <1>9 DEF OthersHeld, c

(* An entity that is not listed is appended. *)
LEMMA Appended ==
  ASSUME NEW list, IsListing(list), NEW e \in Entities, ~Listed(list, e),
         NEW entry \in Entry, entry.entity = e,
         NEW new, new = Append(list, entry)
  PROVE  IsListing(new) /\ Held(new, e) = entry.count /\ OthersHeld(new, list, e)
  <1> DEFINE c == entry.count
             n == Len(list)
  <1>1. list \in Seq(Entry) /\ DOMAIN list = 1 .. n /\ n \in Nat
    BY LenProperties DEF IsListing
  <1>2. entry \in Entry /\ entry.entity = e /\ entry.count = c
    OBVIOUS
  <1> HIDE DEF c
  <1>3. /\ new \in Seq(Entry) /\ Len(new) = n + 1 /\ new[n + 1] = entry
        /\ \A j \in 1 .. n : new[j] = list[j]
    BY <1>1, <1>2, AppendProperties
  <1>4. DOMAIN new = 1 .. n + 1
    BY <1>3, LenProperties
  <1> HIDE DEF n
  <1>5. \A j \in 1 .. n : list[j].entity # e
    BY <1>1 DEF Listed
  <1>6. ASSUME NEW p \in DOMAIN new, NEW q \in DOMAIN new, new[p].entity = new[q].entity
        PROVE  p = q
    <2>1. (p \in 1 .. n \/ p = n + 1) /\ (q \in 1 .. n \/ q = n + 1)
      BY <1>1, <1>4, SMT
    <2>2. CASE p \in 1 .. n /\ q \in 1 .. n
      BY <2>2, <1>1, <1>3, <1>6 DEF IsListing
    <2>3. CASE p = n + 1 /\ q = n + 1
      BY <2>3
    <2>4. CASE p = n + 1 /\ q \in 1 .. n
      BY <2>4, <1>2, <1>3, <1>5, <1>6
    <2>5. CASE q = n + 1 /\ p \in 1 .. n
      BY <2>5, <1>2, <1>3, <1>5, <1>6
    <2> QED
      BY <2>1, <2>2, <2>3, <2>4, <2>5
  <1>7. IsListing(new)
    BY <1>3, <1>6 DEF IsListing
  <1>8. Held(new, e) = c
    <2>1. n + 1 \in DOMAIN new
      BY <1>1, <1>4, SMT
    <2>2. new[n + 1].entity = e /\ new[n + 1].count = c
      BY <1>2, <1>3
    <2>3. Held(new, new[n + 1].entity) = new[n + 1].count
      BY <2>1, <1>7, HeldAt
    <2> QED
      BY <2>2, <2>3
  <1>9. ASSUME NEW d \in Entities \ {e}
        PROVE  Held(new, d) = Held(list, d)
    <2>1. CASE Listed(list, d)
      <3>1. PICK q \in DOMAIN list : list[q].entity = d
        BY <2>1 DEF Listed
      <3>2. new[q] = list[q] /\ q \in DOMAIN new
        BY <1>1, <1>3, <1>4, SMT
      <3>3. Held(list, d) = list[q].count /\ Held(new, d) = new[q].count
        BY <3>1, <3>2, <1>7, HeldAt
      <3> QED
        BY <3>2, <3>3
    <2>2. CASE ~Listed(list, d)
      <3>1. \A j \in 1 .. n : new[j].entity # d
        BY <2>2, <1>1, <1>3 DEF Listed
      <3>2. new[n + 1].entity # d
        BY <1>2, <1>3
      <3>3. \A j \in DOMAIN new : j \in 1 .. n \/ j = n + 1
        BY <1>1, <1>4, SMT
      <3>4. ~Listed(new, d)
        BY <3>1, <3>2, <3>3 DEF Listed
      <3> QED
        BY <2>2, <3>4, HeldNot
    <2> QED
      BY <2>1, <2>2
  <1> QED
    BY <1>7, <1>8, <1>9 DEF OthersHeld, c

(* RemoveAt, place by place. *)
LEMMA RemoveAtFacts ==
  ASSUME NEW S, NEW list \in Seq(S), NEW p \in 1 .. Len(list)
  PROVE  /\ RemoveAt(list, p) \in Seq(S)
         /\ Len(RemoveAt(list, p)) = Len(list) - 1
         /\ \A j \in 1 .. Len(list) - 1 : RemoveAt(list, p)[j] = IF j < p THEN list[j] ELSE list[j + 1]
  <1> DEFINE n == Len(list)
             a == SubSeq(list, 1, p - 1)
             b == SubSeq(list, p + 1, n)
  <1>1. n \in Nat /\ \A i \in 1 .. n : list[i] \in S
    BY LenProperties, ElementOfSeq
  <1>2. p \in Int /\ p >= 1 /\ p <= n
    BY <1>1, SMT
  <1>3. (\A i \in 1 .. p - 1 : list[i] \in S) /\ (\A i \in p + 1 .. n : list[i] \in S)
    <2> HIDE DEF n
    <2> QED
      BY <1>1, <1>2, SMT
  <1> HIDE DEF n
  <1>4. /\ a \in Seq(S)
        /\ Len(a) = IF 1 <= p - 1 THEN p - 1 - 1 + 1 ELSE 0
        /\ \A i \in 1 .. p - 1 - 1 + 1 : a[i] = list[1 + i - 1]
    <2>1. 1 \in Int /\ p - 1 \in Int
      BY <1>2, SMT
    <2> QED
      BY <2>1, <1>3, SubSeqProperties
  <1>5. /\ b \in Seq(S)
        /\ Len(b) = IF p + 1 <= n THEN n - (p + 1) + 1 ELSE 0
        /\ \A i \in 1 .. n - (p + 1) + 1 : b[i] = list[p + 1 + i - 1]
    <2>1. p + 1 \in Int /\ n \in Int
      BY <1>1, <1>2, SMT
    <2> QED
      BY <2>1, <1>3, SubSeqProperties
  <1>6. Len(a) = p - 1 /\ Len(b) = n - p
    BY <1>1, <1>2, <1>4, <1>5, SMT
  <1>7. RemoveAt(list, p) = a \o b
    BY DEF RemoveAt, n
  <1> HIDE DEF a, b
  <1>8. /\ a \o b \in Seq(S)
        /\ Len(a \o b) = Len(a) + Len(b)
        /\ \A i \in 1 .. Len(a) + Len(b) : (a \o b)[i] = IF i <= Len(a) THEN a[i] ELSE b[i - Len(a)]
    BY <1>4, <1>5, ConcatProperties, ZenonT(30), SMTT(30)
  <1>9. ASSUME NEW j \in 1 .. n - 1
        PROVE  (a \o b)[j] = IF j < p THEN list[j] ELSE list[j + 1]
    <2>1. (a \o b)[j] = IF j <= p - 1 THEN a[j] ELSE b[j - (p - 1)]
      <3>1. j \in 1 .. Len(a) + Len(b)
        BY <1>1, <1>2, <1>6, SMT
      <3> QED
        BY <3>1, <1>6, <1>8
    <2>2. CASE j < p
      <3>1. j \in 1 .. p - 1 - 1 + 1 /\ j <= p - 1 /\ 1 + j - 1 = j
        BY <2>2, <1>1, <1>2, SMT
      <3> QED
        BY <2>1, <2>2, <3>1, <1>4
    <2>3. CASE ~(j < p)
      <3>1. j - (p - 1) \in 1 .. n - (p + 1) + 1 /\ ~(j <= p - 1) /\ p + 1 + (j - (p - 1)) - 1 = j + 1
        BY <2>3, <1>1, <1>2, SMT
      <3> QED
        BY <2>1, <2>3, <3>1, <1>5
    <2> QED
      BY <2>2, <2>3
  <1> QED
    BY <1>1, <1>2, <1>6, <1>7, <1>8, <1>9, SMTT(60) DEF n

(* An entity is taken out. *)
LEMMA TakenOut ==
  ASSUME NEW list, IsListing(list), NEW e \in Entities, Listed(list, e),
         NEW new, new = RemoveAt(list, Position(list, e))
  PROVE  IsListing(new) /\ Len(new) = Len(list) - 1 /\ Held(new, e) = 0 /\ OthersHeld(new, list, e)
  <1> DEFINE p == Position(list, e)
             n == Len(list)
  <1>1. list \in Seq(Entry) /\ DOMAIN list = 1 .. n /\ n \in Nat
    BY LenProperties DEF IsListing
  <1>2. p \in 1 .. n /\ list[p].entity = e
    BY <1>1, PositionFacts, SMTT(30), ZenonT(60)
  <1> HIDE DEF p
  <1>3. /\ new \in Seq(Entry) /\ Len(new) = n - 1
        /\ \A j \in 1 .. n - 1 : new[j] = IF j < p THEN list[j] ELSE list[j + 1]
    BY <1>1, <1>2, RemoveAtFacts, ZenonT(60) DEF p
  <1>4. DOMAIN new = 1 .. n - 1
    BY <1>3, LenProperties
  <1> HIDE DEF n
  <1> DEFINE old(j) == IF j < p THEN j ELSE j + 1
  <1>5. \A j \in 1 .. n - 1 : old(j) \in 1 .. n /\ old(j) # p /\ new[j] = list[old(j)]
    BY <1>1, <1>2, <1>3, SMT
  <1>6. \A i, j \in 1 .. n - 1 : old(i) = old(j) => i = j
    BY <1>1, <1>2, SMT
  <1>7. \A q \in 1 .. n : q # p => \E j \in 1 .. n - 1 : old(j) = q
    <2> TAKE q \in 1 .. n
    <2> HAVE q # p
    <2>1. CASE q < p
      BY ONLY <2>1, <1>1, <1>2, SMTT(60)
    <2>2. CASE q > p
      <3>1. q - 1 \in 1 .. n - 1 /\ old(q - 1) = q
        BY <2>2, <1>1, <1>2, SMT
      <3> QED
        BY <3>1
    <2> QED
      BY <2>1, <2>2, <1>1, <1>2, SMT
  <1> HIDE DEF old
  <1>8. IsListing(new)
    BY <1>1, <1>3, <1>4, <1>5, <1>6 DEF IsListing
  <1>9. Held(new, e) = 0
    <2>1. ASSUME NEW j \in 1 .. n - 1, new[j].entity = e
          PROVE  FALSE
      <3>1. old(j) \in DOMAIN list /\ old(j) # p /\ list[old(j)].entity = list[p].entity
        BY <2>1, <1>1, <1>2, <1>5
      <3>2. p \in DOMAIN list
        BY <1>1, <1>2
      <3> QED
        BY <3>1, <3>2 DEF IsListing
    <2>2. ~Listed(new, e)
      BY <2>1, <1>4 DEF Listed
    <2> QED
      BY <2>2, HeldNot
  <1>10. ASSUME NEW d \in Entities \ {e}
         PROVE  Held(new, d) = Held(list, d)
    <2>1. CASE Listed(list, d)
      <3>1. PICK q \in 1 .. n : list[q].entity = d
        BY <2>1, <1>1 DEF Listed
      <3>2. q # p
        BY <3>1, <1>2
      <3>3. PICK j \in 1 .. n - 1 : old(j) = q
        BY <3>2, <1>7
      <3>4. new[j] = list[q] /\ j \in DOMAIN new /\ q \in DOMAIN list
        BY <3>3, <1>1, <1>4, <1>5
      <3>5. Held(list, d) = list[q].count /\ Held(new, d) = new[j].count
        BY <3>1, <3>4, <1>8, HeldAt
      <3> QED
        BY <3>4, <3>5
    <2>2. CASE ~Listed(list, d)
      <3>1. ~Listed(new, d)
        BY <2>2, <1>1, <1>4, <1>5 DEF Listed
      <3> QED
        BY <2>2, <3>1, HeldNot
    <2> QED
      BY <2>1, <2>2
  <1> QED
    BY <1>3, <1>8, <1>9, <1>10 DEF OthersHeld, n

(* add_entity. *)
LEMMA AddedFacts ==
  ASSUME NEW list, IsListing(list), NEW e \in Entities, NEW references \in Nat
  PROVE  /\ IsListing(Added(list, e, references))
         /\ Held(Added(list, e, references), e) = (Held(list, e) + references) % Counts
         /\ OthersHeld(Added(list, e, references), list, e)
  <1> DEFINE c == (Held(list, e) + references) % Counts
  <1>1. Held(list, e) \in 0 .. Counts - 1
    BY HeldType
  <1>2. c \in 0 .. Counts - 1
    BY <1>1, CountsNat, SMT
  <1>3. CASE references = 0
    <2>1. c = Held(list, e)
      BY <1>1, <1>3, CountsNat, SMT
    <2> QED
      BY <1>3, <2>1 DEF Added, OthersHeld
  <1>4. CASE references # 0 /\ Listed(list, e)
    <2>1. Added(list, e, references) = [list EXCEPT ![Position(list, e)] = [entity |-> e, count |-> c]]
      BY <1>4 DEF Added
    <2> DEFINE entry == [entity |-> e, count |-> c]
               new == Added(list, e, references)
    <2>0. PICK p \in DOMAIN list : p = Position(list, e)
      BY <1>4, PositionFacts
    <2>2. Replaced(new, list, p, entry) /\ entry \in Entry /\ entry.entity = e /\ entry.count = c
      BY <2>0, <2>1, <1>2 DEF Entry, Replaced
    <2> HIDE DEF entry, new, c
    <2>3. IsListing(new) /\ Held(new, e) = entry.count /\ OthersHeld(new, list, e)
      BY <2>0, <2>2, <1>4, Recounted
    <2> QED
      BY <2>2, <2>3 DEF c, new
  <1>5. CASE references # 0 /\ ~Listed(list, e)
    <2>1. Added(list, e, references) = Append(list, [entity |-> e, count |-> c])
      BY <1>5 DEF Added
    <2> DEFINE entry == [entity |-> e, count |-> c]
               new == Added(list, e, references)
    <2>2. new = Append(list, entry) /\ entry \in Entry /\ entry.entity = e /\ entry.count = c
      BY <2>1, <1>2 DEF Entry
    <2> HIDE DEF entry, new, c
    <2>3. IsListing(new) /\ Held(new, e) = entry.count /\ OthersHeld(new, list, e)
      BY <2>2, <1>5, Appended, ZenonT(60)
    <2> QED
      BY <2>2, <2>3 DEF c, new
  <1> QED
    BY <1>3, <1>4, <1>5

(* remove_entity. *)
LEMMA RemovedFacts ==
  ASSUME NEW list, IsListing(list), NEW e \in Entities, NEW references \in Nat
  PROVE  /\ IsListing(Removed(list, e, references))
         /\ Held(Removed(list, e, references), e) =
              IF Held(list, e) > references THEN Held(list, e) - references ELSE 0
         /\ OthersHeld(Removed(list, e, references), list, e)
         /\ \/ Len(Removed(list, e, references)) = Len(list)
            \/ Listed(list, e) /\ Len(Removed(list, e, references)) = Len(list) - 1
  <1>1. Held(list, e) \in 0 .. Counts - 1
    BY HeldType
  <1>2. CASE ~Listed(list, e)
    <2>1. Removed(list, e, references) = list
      BY <1>2 DEF Removed
    <2>2. Held(list, e) = 0
      BY <1>2, HeldNot
    <2> QED
      BY <2>1, <2>2, SMT DEF OthersHeld
  <1>3. CASE references = 0
    <2>1. Removed(list, e, references) = list
      BY <1>3 DEF Removed
    <2>2. Held(list, e) = IF Held(list, e) > references THEN Held(list, e) - references ELSE 0
      BY <1>1, <1>3, CountsNat, SMT
    <2> QED
      BY <2>1, <2>2 DEF OthersHeld
  <1>4. CASE Listed(list, e) /\ references # 0
    <2>1. list[Position(list, e)].count = Held(list, e)
      BY <1>4 DEF Held
    <2>2. CASE Held(list, e) > references
      <3> DEFINE c == Held(list, e) - references
      <3>1. Removed(list, e, references) = [list EXCEPT ![Position(list, e)] = [entity |-> e, count |-> c]]
        BY <1>4, <2>1, <2>2 DEF Removed
      <3>2. c \in 0 .. Counts - 1
        BY <1>1, <2>2, CountsNat, SMT
      <3> DEFINE entry == [entity |-> e, count |-> c]
                 new == Removed(list, e, references)
      <3>0. PICK p \in DOMAIN list : p = Position(list, e)
        BY <1>4, PositionFacts
      <3>3. Replaced(new, list, p, entry) /\ entry \in Entry /\ entry.entity = e /\ entry.count = c
        BY <3>0, <3>1, <3>2 DEF Entry, Replaced
      <3> HIDE DEF entry, new, c
      <3>4. IsListing(new) /\ Len(new) = Len(list) /\ Held(new, e) = entry.count /\ OthersHeld(new, list, e)
        BY <3>0, <3>3, <1>4, Recounted
      <3> QED
        BY <3>3, <3>4, <2>2 DEF c, new
    <2>3. CASE ~(Held(list, e) > references)
      <3>1. Removed(list, e, references) = RemoveAt(list, Position(list, e))
        BY <1>4, <2>1, <2>3 DEF Removed
      <3> QED
        BY <3>1, <1>4, <2>3, TakenOut
    <2> QED
      BY <2>2, <2>3
  <1> QED
    BY <1>2, <1>3, <1>4
-----------------------------------------------------------------------------
(* Types, component by component. *)

ThreadType == [at : Nat, yielding : BOOLEAN, woke : Types \cup {Nothing}]
ThreadOK(t, r) ==
  /\ r \in ThreadType
  /\ r.at \in 0 .. Len(Code[t])
  /\ r.yielding => r.at # 0 /\ Code[t][r.at].op = "yield"

ListsOK == listeners \in [Types -> Seq(Entry)] /\ \A type \in Types : IsListing(listeners[type])
StatesOK ==
  /\ state \in [Entities -> UNION {States[e] : e \in Entities}]
  /\ \A e \in Entities : state[e] \in States[e]
  /\ alive \subseteq Entities
ThreadsOK == threads \in [Threads -> ThreadType] /\ \A t \in Threads : ThreadOK(t, threads[t])
WornOK == worn \subseteq Types \X Entities
DeliveryOK == ~Between =>
  /\ delivery \in [type : Types, at : Nat, end : Nat, beyond : Seq(Entities)]
  /\ delivery.at \in 1 .. delivery.end
  /\ delivery.end = Len(listeners[delivery.type]) + Len(delivery.beyond)

Parts == ListsOK /\ StatesOK /\ ThreadsOK /\ WornOK /\ DeliveryOK

LEMMA TypeIsParts == TypeOK <=> Parts
  <1>1. (\A type \in Types : IsListing(listeners[type]))
          <=> \A type \in Types : /\ listeners[type] \in Seq(Entry)
                                  /\ \A p, q \in DOMAIN listeners[type] :
                                       listeners[type][p].entity = listeners[type][q].entity => p = q
    BY DEF IsListing
  <1>2. ListsOK <=> /\ listeners \in [Types -> Seq([entity : Entities, count : 0 .. Counts - 1])]
                    /\ \A type \in Types : \A p, q \in DOMAIN listeners[type] :
                         listeners[type][p].entity = listeners[type][q].entity => p = q
    BY <1>1 DEF ListsOK, Entry
  <1>3. ThreadsOK <=> /\ threads \in [Threads -> [at : Nat, yielding : BOOLEAN, woke : Types \cup {Nothing}]]
                      /\ \A t \in Threads : threads[t].at \in 0 .. Len(Code[t])
                           /\ (threads[t].yielding => threads[t].at # 0 /\ Current(t).op = "yield")
    BY DEF ThreadsOK, ThreadOK, ThreadType, Current
  <1> QED
    BY <1>2, <1>3 DEF TypeOK, Parts, StatesOK, WornOK, DeliveryOK

LEMMA TypeIsPartsNext == TypeOK' <=> Parts'
  <1>1. (\A type \in Types : IsListing(listeners'[type]))
          <=> \A type \in Types : /\ listeners'[type] \in Seq(Entry)
                                  /\ \A p, q \in DOMAIN listeners'[type] :
                                       listeners'[type][p].entity = listeners'[type][q].entity => p = q
    BY DEF IsListing
  <1>2. ListsOK' <=> /\ listeners' \in [Types -> Seq([entity : Entities, count : 0 .. Counts - 1])]
                     /\ \A type \in Types : \A p, q \in DOMAIN listeners'[type] :
                          listeners'[type][p].entity = listeners'[type][q].entity => p = q
    BY <1>1 DEF ListsOK, Entry
  <1>3. ThreadsOK' <=> /\ threads' \in [Threads -> [at : Nat, yielding : BOOLEAN, woke : Types \cup {Nothing}]]
                       /\ \A t \in Threads : threads'[t].at \in 0 .. Len(Code[t])
                            /\ (threads'[t].yielding => threads'[t].at # 0 /\ Code[t][threads'[t].at].op = "yield")
    BY DEF ThreadsOK, ThreadOK, ThreadType
  <1> QED
    BY <1>2, <1>3 DEF TypeOK, Parts, StatesOK, WornOK, DeliveryOK, Current

LEMMA CodeFacts ==
  ASSUME NEW t \in Threads
  PROVE  /\ Code[t] \in Seq([op : STRING, types : Seq(Types)])
         /\ Len(Code[t]) \in Nat /\ Len(Code[t]) > 0
         /\ DOMAIN Code[t] = 1 .. Len(Code[t])
         /\ \A i \in 1 .. Len(Code[t]) : Code[t][i].types \in Seq(Types)
  <1>1. Code[t] \in Seq([op : STRING, types : Seq(Types)]) /\ Code[t] # <<>>
    BY CodeAssumption
  <1>2. Len(Code[t]) \in Nat /\ Len(Code[t]) > 0 /\ DOMAIN Code[t] = 1 .. Len(Code[t])
    BY <1>1, LenProperties, EmptySeq, SMT
  <1>3. \A i \in 1 .. Len(Code[t]) : Code[t][i] \in [op : STRING, types : Seq(Types)]
    BY <1>1, ElementOfSeq
  <1> QED
    BY <1>1, <1>2, <1>3

(* The first instruction is no capture. *)
LEMMA FirstIsNoCapture ==
  ASSUME NEW t \in Threads
  PROVE  ~IsCapture(t, 1)
  <1>1. 1 \in DOMAIN Code[t] /\ ~(1 > 1)
    BY CodeFacts, SMT
  <1> QED
    BY <1>1, CodeAssumption DEF IsCapture

LEMMA AroundFacts ==
  ASSUME NEW t \in Threads, NEW i \in Nat, i > 0
  PROVE  /\ Around(t, i) \in 1 .. Len(Code[t])
         /\ i <= Len(Code[t]) => Around(t, i) = i
         /\ i > Len(Code[t]) => Around(t, i) = 1
  BY CodeFacts, SMT DEF Around

(* The captures right behind an instruction. *)
Captures(t, i) == {j \in i + 1 .. Len(Code[t]) : \A k \in i + 1 .. j : Code[t][k].op = "capture"}
Takes(t, j, type) == Code[t][j].types \in {<<>>, <<type>>}

LEMMA BehindIs ==
  ASSUME NEW t \in Threads, NEW type
  PROVE  Behind(t, type) = Around(t, IF \E j \in Captures(t, threads[t].at) : Takes(t, j, type)
                                     THEN threads[t].at + 1 + Cardinality(Captures(t, threads[t].at))
                                     ELSE threads[t].at + 1)
  BY DEF Behind, Captures, Takes

LEMMA CapturesFinite ==
  ASSUME NEW t \in Threads, NEW i \in Nat
  PROVE  IsFiniteSet(Captures(t, i)) /\ Cardinality(Captures(t, i)) \in Nat
  <1>1. IsFiniteSet(i + 1 .. Len(Code[t]))
    BY CodeFacts, FS_Interval, SMTT(60)
  <1>2. Captures(t, i) \in SUBSET (i + 1 .. Len(Code[t]))
    BY DEF Captures
  <1> QED
    BY <1>1, <1>2, FS_Subset, FS_CardinalityType

(* Behind all of them there is no capture. *)
LEMMA NoCaptureBehind ==
  ASSUME NEW t \in Threads, NEW i \in Nat
  PROVE  ~IsCapture(t, Around(t, i + 1 + Cardinality(Captures(t, i))))
  <1> DEFINE C == Captures(t, i)
             c == Cardinality(C)
             n == i + 1 + c
             L == Len(Code[t])
  <1>1. IsFiniteSet(C) /\ c \in Nat
    BY CapturesFinite
  <1>2. L \in Nat
    BY CodeFacts
  <1>3. C = {j \in i + 1 .. L : \A k \in i + 1 .. j : Code[t][k].op = "capture"}
    BY DEF Captures
  <1> HIDE DEF C, c
  <1>4. n \in Nat /\ n > 0
    BY <1>1, SMT
  <1>5. CASE n > L
    <2>1. Around(t, n) = 1
      BY <1>4, <1>5, AroundFacts
    <2> QED
      BY <2>1, FirstIsNoCapture DEF c, C
  <1>6. CASE n <= L
    <2>1. Around(t, n) = n
      BY <1>4, <1>6, AroundFacts
    <2>2. SUFFICES ASSUME Code[t][n].op = "capture" PROVE FALSE
      BY <2>1 DEF IsCapture, c, C
    <2>3. CASE n \in C
      <3>1. i + 1 .. n \subseteq C
        <4> SUFFICES ASSUME NEW j \in i + 1 .. n PROVE j \in C
          OBVIOUS
        <4>1. j \in i + 1 .. L
          BY <1>2, <1>4, <1>6, SMT
        <4>2. \A k \in i + 1 .. j : k \in i + 1 .. n
          BY <1>4, SMT
        <4>3. \A k \in i + 1 .. j : Code[t][k].op = "capture"
          BY <4>2, <2>3, <1>3
        <4> QED
          BY <4>1, <4>3, <1>3
      <3>2. Cardinality(i + 1 .. n) = c + 1
        <4>1. i + 1 \in Int /\ n \in Int /\ ~(i + 1 > n) /\ n - (i + 1) + 1 = c + 1
          BY <1>1, <1>4, SMT
        <4> HIDE DEF n
        <4> QED
          BY <4>1, FS_Interval
      <3>3. Cardinality(i + 1 .. n) <= c
        BY <3>1, <1>1, FS_Subset DEF c
      <3> QED
        BY <3>2, <3>3, <1>1, SMT
    <2>4. CASE n \notin C
      <3>1. PICK k \in i + 1 .. n : Code[t][k].op # "capture"
        <4>1. n \in i + 1 .. L
          BY <1>1, <1>2, <1>4, <1>6, SMT
        <4> QED
          BY <4>1, <2>4, <1>3
      <3>2. k # n
        BY <3>1, <2>2
      <3>3. k \in Int /\ i + 1 <= k /\ k < n
        BY <3>2, <1>4, SMT
      <3>4. C \subseteq i + 1 .. k - 1
        <4> SUFFICES ASSUME NEW j \in C, ~(j \in i + 1 .. k - 1) PROVE FALSE
          OBVIOUS
        <4>1. j \in i + 1 .. L
          BY <1>3
        <4>2. k \in i + 1 .. j
          BY <4>1, <3>3, <1>2, SMT
        <4> QED
          BY <4>2, <3>1, <1>3
      <3>5. IsFiniteSet(i + 1 .. k - 1) /\ Cardinality(i + 1 .. k - 1) < c
        <4>1. i + 1 \in Int /\ k - 1 \in Int
          BY <3>3, SMT
        <4>2. /\ IsFiniteSet(i + 1 .. k - 1)
              /\ Cardinality(i + 1 .. k - 1) = IF i + 1 > k - 1 THEN 0 ELSE k - 1 - (i + 1) + 1
          BY <4>1, FS_Interval
        <4>3. (IF i + 1 > k - 1 THEN 0 ELSE k - 1 - (i + 1) + 1) = k - 1 - i
          BY <3>3, SMT
        <4>4. k - 1 - i < c
          BY <3>3, <1>1, SMT
        <4> QED
          BY <4>2, <4>3, <4>4
      <3>6. c <= Cardinality(i + 1 .. k - 1)
        BY <3>4, <3>5, FS_Subset DEF c
      <3> QED
        BY <3>5, <3>6, <1>1, FS_CardinalityType, SMT
    <2> QED
      BY <2>3, <2>4
  <1> QED
    BY <1>2, <1>4, <1>5, <1>6, SMT
-----------------------------------------------------------------------------
(* What the steps do to the threads. *)

(* A thread that is marked as woken is at a capture, and none of those     *)
(* before it takes the event.                                              *)
PassedOver(t, r) == r.woke # Nothing =>
  /\ r.at # 0 /\ IsCapture(t, r.at)
  /\ \A j \in r.at .. Len(Code[t]) : (\A k \in r.at .. j : IsCapture(t, k)) => ~Takes(t, j, r.woke)
AllPassed == \A t \in Threads : PassedOver(t, threads[t])

(* Nobody begins to wait. *)
NoNewWaiter == \A t \in Threads : threads'[t].yielding => threads'[t] = threads[t]

LEMMA ThreadUpdate ==
  ASSUME ThreadsOK, NEW t \in Threads, NEW r, ThreadOK(t, r), threads' = [threads EXCEPT ![t] = r]
  PROVE  ThreadsOK' /\ threads'[t] = r /\ \A u \in Threads : u # t => threads'[u] = threads[u]
  <1>1. threads \in [Threads -> ThreadType] /\ \A u \in Threads : ThreadOK(u, threads[u])
    BY DEF ThreadsOK
  <1>2. r \in ThreadType
    BY DEF ThreadOK
  <1>3. threads' \in [Threads -> ThreadType] /\ \A u \in Threads : threads'[u] = IF u = t THEN r ELSE threads[u]
    BY <1>1, <1>2
  <1>4. \A u \in Threads : ThreadOK(u, threads'[u])
    BY <1>1, <1>3
  <1>5. ThreadsOK'
    BY <1>3, <1>4 DEF ThreadsOK
  <1> QED
    BY <1>3, <1>5

LEMMA IdleOK ==
  ASSUME NEW t \in Threads
  PROVE  ThreadOK(t, Idle) /\ PassedOver(t, Idle) /\ ~Idle.yielding
  <1>1. Idle.at = 0 /\ Idle.yielding = FALSE /\ Idle.woke = Nothing
    BY DEF Idle
  <1>2. Idle \in ThreadType
    BY DEF Idle, ThreadType
  <1>3. 0 \in 0 .. Len(Code[t])
    BY CodeFacts, SMT
  <1> QED
    BY <1>1, <1>2, <1>3 DEF ThreadOK, PassedOver

LEMMA StartThread ==
  ASSUME ThreadsOK, AllPassed, NEW t \in Threads, Start(t)
  PROVE  ThreadsOK' /\ AllPassed' /\ NoNewWaiter
  <1>1. threads[t] \in ThreadType /\ ThreadOK(t, threads[t])
    BY DEF ThreadsOK
  <1>2. threads[t].at = 0
    BY DEF Start
  <1>3. threads[t].yielding = FALSE
    BY <1>1, <1>2 DEF ThreadOK, ThreadType
  <1> DEFINE r == [at |-> 1, yielding |-> threads[t].yielding, woke |-> threads[t].woke]
  <1>4. threads' = [threads EXCEPT ![t] = r]
    <2>1. threads' = [threads EXCEPT ![t] = [threads[t] EXCEPT !.at = 1]]
      BY <1>1 DEF Start, ThreadsOK
    <2>2. [threads[t] EXCEPT !.at = 1] = r
      BY <1>1 DEF ThreadType
    <2> QED
      BY <2>1, <2>2
  <1>5. ThreadOK(t, r)
    <2>1. 1 \in 0 .. Len(Code[t])
      BY CodeFacts, SMT
    <2> QED
      BY <1>1, <1>3, <2>1 DEF ThreadOK, ThreadType
  <1>6. PassedOver(t, r)
    <2>1. threads[t].woke = Nothing
      BY <1>2 DEF AllPassed, PassedOver
    <2> QED
      BY <2>1 DEF PassedOver
  <1>7. r.yielding = FALSE
    BY <1>3
  <1> HIDE DEF r
  <1>8. ThreadsOK' /\ threads'[t] = r /\ \A u \in Threads : u # t => threads'[u] = threads[u]
    BY <1>4, <1>5, ThreadUpdate
  <1>9. AllPassed'
    BY <1>6, <1>8 DEF AllPassed
  <1>10. NoNewWaiter
    BY <1>7, <1>8 DEF NoNewWaiter
  <1> QED
    BY <1>8, <1>9, <1>10

LEMMA ActThread ==
  ASSUME ThreadsOK, AllPassed, NEW t \in Threads, Act(t)
  PROVE  ThreadsOK' /\ AllPassed' /\ NoNewWaiter
  <1> DEFINE i == threads[t].at
             next == Around(t, i + 1)
             woke == IF IsCapture(t, next) THEN threads[t].woke ELSE Nothing
             r == [at |-> next, yielding |-> threads[t].yielding, woke |-> woke]
  <1>1. threads[t] \in ThreadType /\ ThreadOK(t, threads[t])
    BY DEF ThreadsOK
  <1>2. i # 0 /\ threads[t].yielding = FALSE
    BY <1>1 DEF Act, Awake, ThreadType
  <1>3. i \in 1 .. Len(Code[t]) /\ i \in Nat /\ i > 0
    BY <1>1, <1>2, CodeFacts, SMT DEF ThreadOK
  <1>4. i + 1 \in Nat /\ i + 1 > 0 /\ Len(Code[t]) \in Nat
    BY <1>3, CodeFacts, SMT
  <1>5. /\ next \in 1 .. Len(Code[t])
        /\ i + 1 <= Len(Code[t]) => next = i + 1
        /\ i + 1 > Len(Code[t]) => next = 1
    <2> HIDE DEF i
    <2> QED
      BY <1>4, AroundFacts
  <1>6. threads' = [threads EXCEPT ![t] = r]
    <2>1. threads' = [threads EXCEPT ![t].at = next, ![t].woke = IF IsCapture(t, next) THEN @ ELSE Nothing]
      BY DEF Act
    <2>2. threads \in [Threads -> ThreadType]
      BY DEF ThreadsOK
    <2> HIDE DEF next
    <2> DEFINE u == threads[t]
               v == [u EXCEPT !.at = next]
               w == [v EXCEPT !.woke = IF IsCapture(t, next) THEN @ ELSE Nothing]
    <2>3. threads' = [[threads EXCEPT ![t] = v] EXCEPT ![t] = w]
      BY <2>1, <2>2
    <2>4. [[threads EXCEPT ![t] = v] EXCEPT ![t] = w] = [threads EXCEPT ![t] = w]
      <3> HIDE DEF v, w
      <3> QED
        BY <2>2
    <2>5. w = r
      <3>1. u \in ThreadType
        BY <1>1
      <3>2. v = [at |-> next, yielding |-> u.yielding, woke |-> u.woke]
        BY <3>1 DEF ThreadType
      <3> HIDE DEF u, v
      <3>3. w = [at |-> next, yielding |-> u.yielding, woke |-> IF IsCapture(t, next) THEN u.woke ELSE Nothing]
        BY <3>2
      <3> QED
        BY <3>3 DEF u
    <2> QED
      BY <2>3, <2>4, <2>5
  <1>7. woke \in Types \cup {Nothing}
    BY <1>1 DEF ThreadType
  <1>8. r.at = next /\ r.yielding = FALSE /\ r.woke = woke
    BY <1>2
  <1>9. r \in ThreadType
    <2>1. next \in Nat
      BY <1>4, <1>5, SMT
    <2> HIDE DEF next, woke
    <2> QED
      BY <1>2, <1>7, <2>1 DEF ThreadType
  <1> HIDE DEF r, woke, next, i
  <1>10. ThreadOK(t, r)
    <2>1. next \in 0 .. Len(Code[t])
      BY <1>4, <1>5, SMT
    <2> QED
      BY <1>8, <1>9, <2>1 DEF ThreadOK
  <1>11. PassedOver(t, r)
    <2> SUFFICES ASSUME woke # Nothing
                 PROVE  /\ next # 0 /\ IsCapture(t, next)
                        /\ \A j \in next .. Len(Code[t]) :
                             (\A k \in next .. j : IsCapture(t, k)) => ~Takes(t, j, woke)
      BY <1>8 DEF PassedOver
    <2>1. IsCapture(t, next) /\ woke = threads[t].woke
      BY DEF woke
    <2>2. next = i + 1
      BY <2>1, <1>4, <1>5, FirstIsNoCapture, SMT
    <2>3. /\ IsCapture(t, i)
          /\ \A j \in i .. Len(Code[t]) : (\A k \in i .. j : IsCapture(t, k)) => ~Takes(t, j, woke)
      BY <2>1 DEF AllPassed, PassedOver, i
    <2>4. ASSUME NEW j \in next .. Len(Code[t]), \A k \in next .. j : IsCapture(t, k)
          PROVE  ~Takes(t, j, woke)
      <3>1. \A k \in i .. j : k = i \/ k \in next .. j
        BY <2>2, <1>3, SMT
      <3>2. \A k \in i .. j : IsCapture(t, k)
        BY <3>1, <2>3, <2>4
      <3>3. j \in i .. Len(Code[t])
        BY <2>2, <1>3, SMT
      <3> QED
        BY <3>2, <3>3, <2>3
    <2> QED
      BY <2>1, <2>2, <2>4, <1>3, SMT
  <1>12. ThreadsOK' /\ threads'[t] = r /\ \A u \in Threads : u # t => threads'[u] = threads[u]
    BY <1>6, <1>10, ThreadUpdate
  <1>13. AllPassed'
    BY <1>11, <1>12 DEF AllPassed
  <1>14. NoNewWaiter
    BY <1>8, <1>12 DEF NoNewWaiter
  <1> QED
    BY <1>12, <1>13, <1>14

(* The thread waits, and nobody else begins to. *)
LEMMA YieldThread ==
  ASSUME ThreadsOK, AllPassed, NEW t \in Threads, Yield(t)
  PROVE  /\ ThreadsOK' /\ AllPassed'
         /\ ~threads[t].yielding /\ threads'[t].yielding /\ threads'[t].at = threads[t].at
         /\ \A u \in Threads : u # t => threads'[u] = threads[u]
  <1> DEFINE r == [at |-> threads[t].at, yielding |-> TRUE, woke |-> Nothing]
  <1>1. threads[t] \in ThreadType /\ ThreadOK(t, threads[t])
    BY DEF ThreadsOK
  <1>2. threads[t].at # 0 /\ ~threads[t].yielding /\ Code[t][threads[t].at].op = "yield"
    BY DEF Yield, Awake, Current
  <1>3. threads' = [threads EXCEPT ![t] = r]
    <2>1. threads' = [threads EXCEPT ![t].yielding = TRUE, ![t].woke = Nothing]
      BY DEF Yield
    <2>2. threads \in [Threads -> ThreadType]
      BY DEF ThreadsOK
    <2> DEFINE u == threads[t]
               yes == TRUE
               v == [u EXCEPT !.yielding = yes]
               w == [v EXCEPT !.woke = Nothing]
    <2>3. threads' = [[threads EXCEPT ![t] = v] EXCEPT ![t] = w]
      BY <2>1, <2>2
    <2>4. [[threads EXCEPT ![t] = v] EXCEPT ![t] = w] = [threads EXCEPT ![t] = w]
      <3> HIDE DEF v, w
      <3> QED
        BY <2>2
    <2>5. w = r
      <3>1. u \in ThreadType
        BY <1>1
      <3> HIDE DEF u, yes
      <3>2. v = [at |-> u.at, yielding |-> yes, woke |-> u.woke]
        BY <3>1 DEF ThreadType
      <3> HIDE DEF v
      <3>3. w = [at |-> u.at, yielding |-> yes, woke |-> Nothing]
        BY <3>2
      <3> QED
        BY <3>3 DEF u, yes
    <2> QED
      BY <2>3, <2>4, <2>5
  <1>4. r.at = threads[t].at /\ r.yielding = TRUE /\ r.woke = Nothing
    OBVIOUS
  <1>5. r \in ThreadType
    BY <1>1 DEF ThreadType
  <1> HIDE DEF r
  <1>6. ThreadOK(t, r)
    BY <1>1, <1>2, <1>4, <1>5 DEF ThreadOK
  <1>7. PassedOver(t, r)
    BY <1>4 DEF PassedOver
  <1>8. ThreadsOK' /\ threads'[t] = r /\ \A u \in Threads : u # t => threads'[u] = threads[u]
    BY <1>3, <1>6, ThreadUpdate
  <1>9. AllPassed'
    BY <1>7, <1>8 DEF AllPassed
  <1> QED
    BY <1>2, <1>4, <1>8, <1>9

(* Some threads are stopped. *)
LEMMA IdleThreads ==
  ASSUME ThreadsOK, AllPassed, NEW stopped \in SUBSET Threads,
         threads' = [t \in Threads |-> IF t \in stopped THEN Idle ELSE threads[t]]
  PROVE  ThreadsOK' /\ AllPassed' /\ NoNewWaiter
  <1>1. \A t \in Threads : threads'[t] = IF t \in stopped THEN Idle ELSE threads[t]
    OBVIOUS
  <1>2. \A t \in Threads : ThreadOK(t, threads'[t]) /\ PassedOver(t, threads'[t])
    BY <1>1, IdleOK DEF ThreadsOK, AllPassed
  <1>3. threads' \in [Threads -> ThreadType]
    BY <1>1, <1>2 DEF ThreadOK
  <1>4. NoNewWaiter
    BY <1>1, IdleOK DEF NoNewWaiter
  <1> QED
    BY <1>2, <1>3, <1>4 DEF ThreadsOK, AllPassed

(* A thread that waits for an event is woken. *)
LEMMA WokenThread ==
  ASSUME ThreadsOK, NEW t \in Threads, threads[t].yielding, NEW type \in Types,
         NEW r, r = [at |-> Behind(t, type), yielding |-> FALSE,
                     woke |-> IF IsCapture(t, Behind(t, type)) THEN type ELSE Nothing]
  PROVE  ThreadOK(t, r) /\ PassedOver(t, r) /\ r.yielding = FALSE
  <1> DEFINE i == threads[t].at
             C == Captures(t, i)
             c == Cardinality(C)
             captured == \E j \in C : Takes(t, j, type)
             b == Behind(t, type)
             L == Len(Code[t])
  <1>1. threads[t] \in ThreadType /\ ThreadOK(t, threads[t])
    BY DEF ThreadsOK
  <1>2. i \in Nat /\ i # 0 /\ Code[t][i].op = "yield" /\ L \in Nat
    BY <1>1, CodeFacts DEF ThreadOK, ThreadType
  <1>3. c \in Nat
    <2> HIDE DEF i
    <2> QED
      BY <1>2, CapturesFinite
  <1>4. b = Around(t, IF captured THEN i + 1 + c ELSE i + 1)
    BY BehindIs
  <1>5. C = {j \in i + 1 .. L : \A k \in i + 1 .. j : Code[t][k].op = "capture"}
    BY DEF Captures
  <1>6. ~IsCapture(t, Around(t, i + 1 + c))
    <2> HIDE DEF i
    <2> QED
      BY <1>2, NoCaptureBehind
  <1>7. r.at = b /\ r.yielding = FALSE /\ r.woke = IF IsCapture(t, b) THEN type ELSE Nothing
    OBVIOUS
  <1> HIDE DEF i, C, c, captured, b, L
  <1>8. b \in 1 .. L
    <2>1. (IF captured THEN i + 1 + c ELSE i + 1) \in Nat /\ (IF captured THEN i + 1 + c ELSE i + 1) > 0
      BY <1>2, <1>3, SMT
    <2> QED
      BY <2>1, <1>4, AroundFacts DEF L
  <1>9. r \in ThreadType
    <2>1. b \in Nat
      BY <1>2, <1>8, SMT
    <2>2. r = [at |-> b, yielding |-> FALSE, woke |-> IF IsCapture(t, b) THEN type ELSE Nothing]
      BY DEF b
    <2> QED
      BY <2>1, <2>2 DEF ThreadType
  <1>10. ThreadOK(t, r)
    <2>1. b \in 0 .. L
      BY <1>2, <1>8, SMT
    <2> QED
      BY <2>1, <1>7, <1>9 DEF ThreadOK, L
  <1>11. PassedOver(t, r)
    <2> SUFFICES ASSUME IsCapture(t, b)
                 PROVE  /\ b # 0
                        /\ \A j \in b .. L : (\A k \in b .. j : IsCapture(t, k)) => ~Takes(t, j, type)
      BY <1>7 DEF PassedOver, L
    <2>1. ~captured
      BY <1>4, <1>6
    <2>2. b = i + 1
      <3>1. i + 1 \in Nat /\ i + 1 > 0 /\ (i + 1 <= L \/ i + 1 > L)
        BY <1>2, SMT
      <3> QED
        BY <3>1, <2>1, <1>4, AroundFacts, FirstIsNoCapture DEF L
    <2>3. ASSUME NEW j \in b .. L, \A k \in b .. j : IsCapture(t, k)
          PROVE  ~Takes(t, j, type)
      <3>1. j \in C
        BY <2>2, <2>3, <1>5 DEF IsCapture
      <3> QED
        BY <3>1, <2>1 DEF captured
    <2> QED
      BY <2>2, <2>3, <1>2, SMT
  <1> QED
    BY <1>7, <1>10, <1>11
-----------------------------------------------------------------------------
(* What an entity waits for. *)

HeldEnough ==
  \A type \in Types, e \in Entities :
    <<type, e>> \notin worn => Held(listeners[type], e) >= Owed(type, e)

LEMMA PlacesFinite ==
  ASSUME ThreadsOK, NEW t \in Threads, threads[t].yielding \/ threads[t].at # 0, NEW type
  PROVE  IsFiniteSet(Places(t, type)) /\ Mentions(t, type) \in Nat
  <1>1. threads[t] \in ThreadType /\ ThreadOK(t, threads[t])
    BY DEF ThreadsOK
  <1>2. threads[t].at \in 1 .. Len(Code[t])
    BY <1>1, CodeFacts, SMT DEF ThreadOK
  <1>3. Condition(t) \in Seq(Types)
    BY <1>2, CodeFacts DEF Condition
  <1>4. DOMAIN Condition(t) = 1 .. Len(Condition(t)) /\ Len(Condition(t)) \in Nat
    BY <1>3, LenProperties
  <1>5. IsFiniteSet(DOMAIN Condition(t))
    BY <1>4, FS_Interval, SMT
  <1>6. Places(t, type) \in SUBSET (DOMAIN Condition(t))
    BY DEF Places
  <1>7. IsFiniteSet(Places(t, type))
    BY <1>5, <1>6, FS_Subset
  <1> QED
    BY <1>7, FS_CardinalityType DEF Mentions

LEMMA WaitsFacts ==
  ASSUME NEW type, NEW e, NEW t, NEW i
  PROVE  <<t, i>> \in Waits(type, e) <=> t \in Waiting(e) /\ i \in Places(t, type)
  <1>1. <<t, i>> \in Waits(type, e) => t \in Waiting(e) /\ i \in Places(t, type)
    BY DEF Waits
  <1>2. ASSUME t \in Waiting(e), i \in Places(t, type)
        PROVE  <<t, i>> \in Waits(type, e)
    <2>1. <<t, i>> \in {t} \X Places(t, type)
      BY <1>2
    <2> QED
      BY <2>1, <1>2 DEF Waits
  <1> QED
    BY <1>1, <1>2

LEMMA WaitsArePairs ==
  ASSUME NEW type, NEW e, NEW w \in Waits(type, e)
  PROVE  \E t \in Waiting(e) : \E i \in Places(t, type) : w = <<t, i>>
  <1>1. PICK t \in Waiting(e) : w \in {t} \X Places(t, type)
    BY DEF Waits
  <1> QED
    BY <1>1

LEMMA WaitsFinite ==
  ASSUME ThreadsOK, NEW type, NEW e
  PROVE  IsFiniteSet(Waits(type, e)) /\ Cardinality(Waits(type, e)) \in Nat
  <1> DEFINE f == [t \in Waiting(e) |-> {t} \X Places(t, type)]
             F == {{t} \X Places(t, type) : t \in Waiting(e)}
  <1>1. IsFiniteSet(Waiting(e))
    <2>1. Waiting(e) \in SUBSET Threads
      BY DEF Waiting
    <2> QED
      BY <2>1, FiniteAssumption, FS_Subset
  <1>2. f \in Surjection(Waiting(e), F)
    BY DEF Surjection
  <1>3. IsFiniteSet(F)
    <2> HIDE DEF f, F
    <2> QED
      BY <1>1, <1>2, FS_Surjection
  <1>4. ASSUME NEW T \in F PROVE IsFiniteSet(T)
    <2>1. PICK t \in Waiting(e) : T = {t} \X Places(t, type)
      OBVIOUS
    <2>2. t \in Threads /\ threads[t].yielding
      BY DEF Waiting
    <2>3. IsFiniteSet(Places(t, type)) /\ IsFiniteSet({t})
      BY <2>2, PlacesFinite, FS_Singleton
    <2> QED
      BY <2>1, <2>3, FS_Product
  <1>5. IsFiniteSet(UNION F)
    <2> HIDE DEF F
    <2> QED
      BY <1>3, <1>4, FS_UNION
  <1> QED
    BY <1>5, FS_CardinalityType DEF Waits

(* Where nobody begins to wait, an entity waits for less. *)
LEMMA WaitsShrink ==
  ASSUME NoNewWaiter, NEW type, NEW e
  PROVE  Waits(type, e)' \subseteq Waits(type, e)
  <1>1. ASSUME NEW t \in Waiting(e)'
        PROVE  t \in Waiting(e) /\ Places(t, type)' = Places(t, type)
    <2>1. t \in Threads /\ Owner[t] = e /\ threads'[t].yielding
      BY DEF Waiting
    <2>2. threads'[t] = threads[t]
      BY <2>1 DEF NoNewWaiter
    <2> QED
      BY <2>1, <2>2 DEF Waiting, Places, Condition
  <1>2. ASSUME NEW w \in Waits(type, e)'
        PROVE  w \in Waits(type, e)
    <2>1. PICK t \in Waiting(e)' : w \in {t} \X Places(t, type)'
      BY DEF Waits
    <2> QED
      BY <2>1, <1>1 DEF Waits
  <1> QED
    BY <1>2

LEMMA CountShrinks ==
  ASSUME ThreadsOK, NoNewWaiter, NEW type, NEW e
  PROVE  Cardinality(Waits(type, e)') <= Cardinality(Waits(type, e)) /\ Cardinality(Waits(type, e)') \in Nat
  <1>1. IsFiniteSet(Waits(type, e))
    BY WaitsFinite
  <1>2. Waits(type, e)' \in SUBSET Waits(type, e)
    BY WaitsShrink
  <1> QED
    BY <1>1, <1>2, FS_Subset, FS_CardinalityType

(* A thread begins to wait: its entity waits for what it mentions, too.    *)
LEMMA YieldWaits ==
  ASSUME ThreadsOK, NEW t \in Threads, ~threads[t].yielding, threads[t].at # 0,
         threads'[t].yielding, threads'[t].at = threads[t].at,
         \A u \in Threads : u # t => threads'[u] = threads[u],
         NEW type, NEW e
  PROVE  Cardinality(Waits(type, e)') =
           IF e = Owner[t] THEN Cardinality(Waits(type, e)) + Mentions(t, type) ELSE Cardinality(Waits(type, e))
  <1>1. \A u \in Threads : Places(u, type)' = Places(u, type)
    BY DEF Places, Condition
  <1>2. Waiting(e)' = IF e = Owner[t] THEN Waiting(e) \cup {t} ELSE Waiting(e)
    BY DEF Waiting
  <1>3. t \notin Waiting(e) /\ Waiting(e)' \subseteq Threads
    BY DEF Waiting
  <1>4. CASE e # Owner[t]
    <2>1. Waits(type, e)' = Waits(type, e)
      <3>1. Waiting(e)' = Waiting(e)
        BY <1>2, <1>4
      <3> QED
        BY <3>1, <1>1, <1>3 DEF Waits
    <2> QED
      BY <2>1, <1>4
  <1>5. CASE e = Owner[t]
    <2> DEFINE new == {t} \X Places(t, type)
    <2>1. Waits(type, e)' = Waits(type, e) \cup new
      <3>1. Waiting(e)' = Waiting(e) \cup {t}
        BY <1>2, <1>5
      <3>2. Waits(type, e)' = UNION {{u} \X Places(u, type)' : u \in Waiting(e)'}
        BY DEF Waits
      <3>3. Waits(type, e)' = UNION {{u} \X Places(u, type) : u \in Waiting(e)'}
        BY <3>2, <1>1, <1>3
      <3> QED
        BY <3>1, <3>3 DEF Waits
    <2>2. IsFiniteSet(Places(t, type)) /\ Mentions(t, type) \in Nat
      BY PlacesFinite
    <2>3. IsFiniteSet({t}) /\ Cardinality({t}) = 1
      BY FS_Singleton
    <2>4. IsFiniteSet(new) /\ Cardinality(new) = Mentions(t, type)
      <3>1. IsFiniteSet(new) /\ Cardinality(new) = 1 * Mentions(t, type)
        BY <2>2, <2>3, FS_Product DEF Mentions
      <3> QED
        BY <3>1, <2>2, SMT
    <2>5. Waits(type, e) \cap new = {}
      <3> SUFFICES ASSUME NEW w \in Waits(type, e), w \in new PROVE FALSE
        OBVIOUS
      <3>1. PICK u \in Waiting(e) : \E i \in Places(u, type) : w = <<u, i>>
        BY WaitsArePairs
      <3> QED
        BY <3>1, <1>3
    <2>6. IsFiniteSet(Waits(type, e)) /\ Cardinality(Waits(type, e)) \in Nat
      BY WaitsFinite
    <2> HIDE DEF new
    <2>7. Cardinality(Waits(type, e) \cup new) = Cardinality(Waits(type, e)) + Cardinality(new) - Cardinality({})
      BY <2>4, <2>5, <2>6, FS_Union
    <2>8. Cardinality({}) = 0
      BY FS_EmptySet
    <2> QED
      BY <1>5, <2>1, <2>2, <2>4, <2>6, <2>7, <2>8, SMT
  <1> QED
    BY <1>4, <1>5

(* Threads are woken: each of them had a mention of the type.              *)
LEMMA WokenCount ==
  ASSUME ThreadsOK, NoNewWaiter, NEW type, NEW e, NEW woken \in SUBSET WaitingFor(e, type),
         \A t \in woken : ~threads'[t].yielding
  PROVE  /\ Cardinality(woken) \in Nat
         /\ Cardinality(Waits(type, e)') + Cardinality(woken) <= Cardinality(Waits(type, e))
  <1>1. IsFiniteSet(woken)
    <2>1. woken \in SUBSET Threads
      BY DEF WaitingFor, Waiting
    <2> QED
      BY <2>1, FiniteAssumption, FS_Subset
  <1>2. IsFiniteSet(Waits(type, e)) /\ Cardinality(Waits(type, e)) \in Nat
    BY WaitsFinite
  <1>3. ASSUME NEW t \in woken
        PROVE  t \in Waiting(e) /\ Places(t, type) # {}
    <2>1. t \in Threads /\ threads[t].yielding /\ Mentions(t, type) > 0 /\ t \in Waiting(e)
      BY DEF WaitingFor, Waiting
    <2>2. Places(t, type) # {}
      <3>1. Mentions(t, type) \in Nat
        BY <2>1, PlacesFinite
      <3>2. Mentions(t, type) # 0
        BY <2>1, <3>1, SMT
      <3> QED
        BY <3>2, FS_EmptySet DEF Mentions
    <2> QED
      BY <2>1, <2>2
  <1> DEFINE pick(t) == <<t, CHOOSE i \in Places(t, type) : TRUE>>
             picks == {pick(t) : t \in woken}
             f == [t \in woken |-> pick(t)]
  <1>4. f \in Bijection(woken, picks)
    <2>1. f \in Surjection(woken, picks)
      BY DEF Surjection
    <2>2. \A t, u \in woken : f[t] = f[u] => t = u
      OBVIOUS
    <2>3. f \in Injection(woken, picks)
      <3>1. f \in [woken -> picks]
        OBVIOUS
      <3> HIDE DEF f, picks
      <3> QED
        BY <2>2, <3>1 DEF Injection, IsInjective
    <2> QED
      BY <2>1, <2>3 DEF Bijection
  <1>5. IsFiniteSet(picks) /\ Cardinality(picks) = Cardinality(woken)
    <2> HIDE DEF f, picks
    <2> QED
      BY <1>1, <1>4, FS_Bijection DEF ExistsBijection
  <1>6. picks \subseteq Waits(type, e)
    <2> SUFFICES ASSUME NEW t \in woken PROVE pick(t) \in Waits(type, e)
      OBVIOUS
    <2>1. (CHOOSE i \in Places(t, type) : TRUE) \in Places(t, type)
      BY <1>3
    <2> QED
      BY <2>1, <1>3, WaitsFacts
  <1>7. picks \cap Waits(type, e)' = {}
    <2> SUFFICES ASSUME NEW t \in woken, pick(t) \in Waits(type, e)' PROVE FALSE
      OBVIOUS
    <2>1. PICK u \in Waiting(e)' : pick(t) \in {u} \X Places(u, type)'
      BY DEF Waits
    <2>2. u = t
      BY <2>1
    <2>3. threads'[u].yielding
      BY DEF Waiting
    <2> QED
      BY <2>2, <2>3
  <1>8. Waits(type, e)' \subseteq Waits(type, e)
    BY WaitsShrink
  <1> HIDE DEF picks, f
  <1>9. IsFiniteSet(Waits(type, e)') /\ Cardinality(Waits(type, e)') \in Nat
    BY <1>2, <1>8, FS_Subset, FS_CardinalityType
  <1>10. Cardinality(picks \cup Waits(type, e)') =
           Cardinality(picks) + Cardinality(Waits(type, e)') - Cardinality({})
    BY <1>5, <1>7, <1>9, FS_Union
  <1>11. Cardinality({}) = 0
    BY FS_EmptySet
  <1>12. Cardinality(picks \cup Waits(type, e)') <= Cardinality(Waits(type, e))
    <2>1. picks \cup Waits(type, e)' \in SUBSET Waits(type, e)
      BY <1>6, <1>8
    <2> QED
      BY <2>1, <1>2, FS_Subset
  <1>13. Cardinality(woken) \in Nat
    BY <1>1, FS_CardinalityType
  <1> QED
    BY <1>5, <1>9, <1>10, <1>11, <1>12, <1>13, <1>2, SMT
-----------------------------------------------------------------------------
(* The references an entity holds are never fewer than it needs. *)

LEMMA OwedType ==
  ASSUME ThreadsOK, NEW type, NEW e
  PROVE  Owed(type, e) \in Nat /\ Owed(type, e) >= Cardinality(Waits(type, e))
  <1>1. Cardinality(Waits(type, e)) \in Nat
    BY WaitsFinite
  <1> QED
    BY <1>1, SMT DEF Owed

LEMMA HeldNat ==
  ASSUME ListsOK, NEW type \in Types, NEW e
  PROVE  Held(listeners[type], e) \in 0 .. Counts - 1 /\ Held(listeners[type], e) \in Nat
  <1>1. IsListing(listeners[type])
    BY DEF ListsOK
  <1>2. Held(listeners[type], e) \in 0 .. Counts - 1
    BY <1>1, HeldType
  <1> QED
    BY <1>2, CountsNat, SMT

(* An entity that keeps its references, and has no more rules or waits.    *)
LEMMA NoMoreOwed ==
  ASSUME ThreadsOK, ListsOK, NoNewWaiter, NEW type \in Types, NEW e \in Entities,
         state'[e] = state[e],
         Held(listeners[type], e) >= Owed(type, e),
         Held(listeners'[type], e) = Held(listeners[type], e)
  PROVE  Held(listeners'[type], e) >= Owed(type, e)'
  <1> DEFINE r == IF type \in Rules[state[e]] THEN 1 ELSE 0
             w == Cardinality(Waits(type, e))
             v == Cardinality(Waits(type, e)')
  <1>1. v <= w /\ v \in Nat
    BY CountShrinks
  <1>2. w \in Nat /\ r \in Nat
    BY WaitsFinite
  <1>3. Owed(type, e) = r + w
    BY DEF Owed
  <1>4. Owed(type, e)' = r + v
    BY DEF Owed
  <1>5. Held(listeners[type], e) \in Nat
    BY HeldNat
  <1> HIDE DEF r, w, v
  <1> QED
    BY <1>1, <1>2, <1>3, <1>4, <1>5, SMT

LEMMA StillHeld ==
  ASSUME ThreadsOK, ListsOK, HeldEnough, NoNewWaiter, listeners' = listeners, state' = state, worn' = worn
  PROVE  HeldEnough'
  <1> SUFFICES ASSUME NEW type \in Types, NEW e \in Entities, <<type, e>> \notin worn'
               PROVE  Held(listeners'[type], e) >= Owed(type, e)'
    BY DEF HeldEnough
  <1>1. Held(listeners[type], e) >= Owed(type, e)
    BY DEF HeldEnough
  <1>2. Held(listeners'[type], e) = Held(listeners[type], e) /\ state'[e] = state[e]
    OBVIOUS
  <1> QED
    BY <1>1, <1>2, NoMoreOwed

IInv == Parts /\ AllPassed /\ HeldEnough

(* The steps that leave the listeners alone. *)
LEMMA OnlyThreads ==
  ASSUME IInv, ThreadsOK', AllPassed', NoNewWaiter, listeners' = listeners, state' = state,
         alive' \subseteq alive, worn' = worn, delivery' = delivery
  PROVE  IInv'
  <1>1. HeldEnough'
    BY StillHeld DEF IInv, Parts
  <1>2. ListsOK' /\ StatesOK' /\ WornOK'
    BY DEF IInv, Parts, ListsOK, StatesOK, WornOK
  <1>3. DeliveryOK'
    BY DEF IInv, Parts, DeliveryOK, Between
  <1> QED
    BY <1>1, <1>2, <1>3 DEF IInv, Parts

LEMMA StartStep ==
  ASSUME IInv, NEW t \in Threads, Start(t)
  PROVE  IInv'
  <1>1. ThreadsOK' /\ AllPassed' /\ NoNewWaiter
    BY StartThread DEF IInv, Parts
  <1> QED
    BY <1>1, OnlyThreads DEF Start

LEMMA ActStep ==
  ASSUME IInv, NEW t \in Threads, Act(t)
  PROVE  IInv'
  <1>1. ThreadsOK' /\ AllPassed' /\ NoNewWaiter
    BY ActThread DEF IInv, Parts
  <1> QED
    BY <1>1, OnlyThreads DEF Act

LEMMA StopStep ==
  ASSUME IInv, NEW t \in Threads, Stop(t)
  PROVE  IInv'
  <1>1. threads' = [u \in Threads |-> IF u \in {t} THEN Idle ELSE threads[u]]
    <2>1. threads \in [Threads -> ThreadType] /\ threads' = [threads EXCEPT ![t] = Idle]
      BY DEF IInv, Parts, ThreadsOK, Stop
    <2> QED
      BY <2>1
  <1>2. ThreadsOK' /\ AllPassed' /\ NoNewWaiter
    <2>1. {t} \in SUBSET Threads
      OBVIOUS
    <2> QED
      BY <1>1, <2>1, IdleThreads DEF IInv, Parts
  <1> QED
    BY <1>2, OnlyThreads DEF Stop

LEMMA DestroyStep ==
  ASSUME IInv, NEW e \in Entities, Destroy(e)
  PROVE  IInv'
  <1> DEFINE stopped == {t \in Threads : Owner[t] = e}
  <1>1. threads' = [t \in Threads |-> IF t \in stopped THEN Idle ELSE threads[t]]
    BY DEF Destroy
  <1>2. ThreadsOK' /\ AllPassed' /\ NoNewWaiter
    <2>1. stopped \in SUBSET Threads
      OBVIOUS
    <2> HIDE DEF stopped
    <2> QED
      BY <1>1, <2>1, IdleThreads DEF IInv, Parts
  <1> QED
    BY <1>2, OnlyThreads DEF Destroy

LEMMA YieldStep ==
  ASSUME IInv, NEW t \in Threads, Yield(t)
  PROVE  IInv'
  <1> DEFINE e == Owner[t]
             m(type) == Mentions(t, type)
  <1>1. /\ ThreadsOK' /\ AllPassed'
        /\ ~threads[t].yielding /\ threads'[t].yielding /\ threads'[t].at = threads[t].at
        /\ \A u \in Threads : u # t => threads'[u] = threads[u]
    BY YieldThread DEF IInv, Parts
  <1>2. threads[t].at # 0 /\ Between
    BY DEF Yield, Awake
  <1>3. e \in Entities
    BY OwnerAssumption
  <1>4. \A type \in Types : m(type) \in Nat
    BY <1>2, PlacesFinite DEF IInv, Parts
  <1>5. /\ listeners' = [type \in Types |-> Added(listeners[type], e, m(type))]
        /\ worn' = worn \cup {<<type, e>> : type \in {u \in Types : Overflows(u, e, m(u))}}
        /\ UNCHANGED <<state, alive, delivery>>
    BY DEF Yield
  <1> HIDE DEF m, e
  <1>6. ASSUME NEW type \in Types
        PROVE  /\ IsListing(listeners'[type])
               /\ Held(listeners'[type], e) = (Held(listeners[type], e) + m(type)) % Counts
               /\ OthersHeld(listeners'[type], listeners[type], e)
    <2>1. IsListing(listeners[type])
      BY DEF IInv, Parts, ListsOK
    <2>2. listeners'[type] = Added(listeners[type], e, m(type))
      BY <1>5
    <2> QED
      BY <2>1, <2>2, <1>3, <1>4, AddedFacts
  <1>7. ListsOK'
    BY <1>5, <1>6 DEF ListsOK, IsListing
  <1>8. WornOK'
    BY <1>3, <1>5 DEF IInv, Parts, WornOK
  <1>9. StatesOK' /\ DeliveryOK'
    BY <1>2, <1>5 DEF IInv, Parts, StatesOK, DeliveryOK, Between
  <1>10. ASSUME NEW type \in Types, NEW d \in Entities, <<type, d>> \notin worn'
         PROVE  Held(listeners'[type], d) >= Owed(type, d)'
    <2> DEFINE r == IF type \in Rules[state[d]] THEN 1 ELSE 0
               w == Cardinality(Waits(type, d))
               v == Cardinality(Waits(type, d)')
               h == Held(listeners[type], d)
               g == Held(listeners'[type], d)
    <2>1. v = IF d = e THEN w + m(type) ELSE w
      BY <1>1, <1>2, YieldWaits DEF IInv, Parts, e, m
    <2>2. Owed(type, d) = r + w /\ Owed(type, d)' = r + v
      BY <1>5 DEF Owed
    <2>3. h >= r + w
      BY <1>5, <1>10, <2>2 DEF IInv, HeldEnough
    <2>4. w \in Nat /\ r \in Nat
      BY WaitsFinite DEF IInv, Parts
    <2>5. h \in Nat
      BY HeldNat DEF IInv, Parts
    <2>6. CASE d = e
      <3>1. ~Overflows(type, e, m(type))
        BY <1>5, <1>10, <2>6
      <3>2. ~(h + m(type) >= Counts)
        BY <3>1, <2>6 DEF Overflows
      <3>3. g = (h + m(type)) % Counts
        BY <1>6, <2>6
      <3>4. m(type) \in Nat
        BY <1>4
      <3> HIDE DEF r, w, v, h, g
      <3>5. g = h + m(type)
        BY <3>2, <3>3, <3>4, <2>5, CountsNat, SMT
      <3>6. g >= r + v
        BY <3>4, <3>5, <2>1, <2>3, <2>4, <2>5, <2>6, SMT
      <3> QED
        BY <3>6, <2>2 DEF g
    <2>7. CASE d # e
      <3>1. g = h
        BY <1>6, <2>7 DEF OthersHeld
      <3>2. v = w
        BY <2>1, <2>7
      <3> QED
        BY <3>1, <3>2, <2>2, <2>3
    <2> QED
      BY <2>6, <2>7
  <1>11. HeldEnough'
    BY <1>10 DEF HeldEnough
  <1> QED
    BY <1>1, <1>7, <1>8, <1>9, <1>11 DEF IInv, Parts

LEMMA EventStep ==
  ASSUME IInv, NEW type \in Types, Event(type)
  PROVE  IInv'
  <1> DEFINE list == listeners[type]
  <1>1. /\ list # <<>> /\ UNCHANGED <<listeners, state, alive, threads, worn>>
        /\ delivery' = [type |-> type, at |-> 1, end |-> Len(list), beyond |-> <<>>]
    BY DEF Event
  <1>2. list \in Seq(Entry)
    BY DEF IInv, Parts, ListsOK, IsListing
  <1>3. Len(list) \in Nat /\ Len(list) > 0
    BY <1>1, <1>2, LenProperties, EmptySeq, SMT
  <1>4. DeliveryOK'
    <2>1. /\ delivery'.type = type /\ delivery'.at = 1
          /\ delivery'.end = Len(list) /\ delivery'.beyond = <<>>
      BY <1>1
    <2>2. <<>> \in Seq(Entities) /\ Len(<<>>) = 0
      BY EmptySeq
    <2>3. 1 \in 1 .. Len(list) /\ Len(list) = Len(list) + 0
      BY <1>3, SMT
    <2>4. delivery' \in [type : Types, at : Nat, end : Nat, beyond : Seq(Entities)]
      BY <1>1, <1>3, <2>2
    <2> HIDE DEF list
    <2> QED
      BY <1>1, <2>1, <2>2, <2>3, <2>4 DEF DeliveryOK, list
  <1>5. ThreadsOK' /\ AllPassed' /\ NoNewWaiter
    BY <1>1 DEF IInv, Parts, ThreadsOK, AllPassed, NoNewWaiter
  <1>6. HeldEnough'
    BY <1>1, <1>5, StillHeld DEF IInv, Parts
  <1>7. ListsOK' /\ StatesOK' /\ WornOK'
    BY <1>1 DEF IInv, Parts, ListsOK, StatesOK, WornOK
  <1> QED
    BY <1>4, <1>5, <1>6, <1>7 DEF IInv, Parts
(* The entity that is heard is one. *)
LEMMA HeardIsEntity ==
  ASSUME IInv, ~Between
  PROVE  EntityAt(delivery.at) \in Entities /\ delivery.type \in Types
  <1> DEFINE list == listeners[delivery.type]
             n == Len(list)
             b == delivery.beyond
             a == delivery.at
  <1>1. /\ delivery \in [type : Types, at : Nat, end : Nat, beyond : Seq(Entities)]
        /\ a \in 1 .. delivery.end /\ delivery.end = n + Len(b)
    BY DEF IInv, Parts, DeliveryOK
  <1>2. delivery.type \in Types /\ b \in Seq(Entities)
    BY <1>1
  <1>3. list \in Seq(Entry)
    BY <1>2 DEF IInv, Parts, ListsOK, IsListing
  <1>4. n \in Nat /\ Len(b) \in Nat /\ DOMAIN list = 1 .. n
    BY <1>2, <1>3, LenProperties
  <1>5. EntityAt(a) = IF a <= n THEN list[a].entity ELSE b[a - n]
    BY DEF EntityAt
  <1> HIDE DEF list, n, b, a
  <1>6. CASE a <= n
    <2>1. a \in 1 .. n
      BY <1>1, <1>4, <1>6, SMT
    <2>2. list[a] \in Entry
      BY <2>1, <1>3, ElementOfSeq DEF n
    <2> QED
      BY <2>2, <1>2, <1>5, <1>6 DEF Entry, a
  <1>7. CASE ~(a <= n)
    <2>1. a - n \in 1 .. Len(b)
      BY <1>1, <1>4, <1>7, SMT
    <2>2. b[a - n] \in Entities
      BY <2>1, <1>2, ElementOfSeq
    <2> QED
      BY <2>2, <1>2, <1>5, <1>7 DEF a
  <1> QED
    BY <1>6, <1>7

LEMMA HearThreads ==
  ASSUME ThreadsOK, AllPassed, NEW type \in Types, NEW woken \in SUBSET Threads,
         \A t \in woken : threads[t].yielding,
         threads' = [t \in Threads |->
           IF t \notin woken THEN threads[t]
           ELSE [at |-> Behind(t, type), yielding |-> FALSE,
                 woke |-> IF IsCapture(t, Behind(t, type)) THEN type ELSE Nothing]]
  PROVE  ThreadsOK' /\ AllPassed' /\ NoNewWaiter /\ \A t \in woken : ~threads'[t].yielding
  <1>1. ASSUME NEW t \in woken
        PROVE  ThreadOK(t, threads'[t]) /\ PassedOver(t, threads'[t]) /\ threads'[t].yielding = FALSE
    <2>1. t \in Threads /\ threads[t].yielding
      OBVIOUS
    <2> DEFINE r == threads'[t]
    <2>2. r = [at |-> Behind(t, type), yielding |-> FALSE,
               woke |-> IF IsCapture(t, Behind(t, type)) THEN type ELSE Nothing]
      BY <2>1
    <2> HIDE DEF r
    <2>3. ThreadOK(t, r) /\ PassedOver(t, r) /\ r.yielding = FALSE
      BY <2>1, <2>2, WokenThread
    <2> QED
      BY <2>3 DEF r
  <1>2. ASSUME NEW t \in Threads \ woken
        PROVE  threads'[t] = threads[t]
    OBVIOUS
  <1>3. \A t \in Threads : ThreadOK(t, threads'[t]) /\ PassedOver(t, threads'[t])
    BY <1>1, <1>2 DEF ThreadsOK, AllPassed
  <1>4. DOMAIN threads' = Threads /\ threads' = [t \in Threads |-> threads'[t]]
    OBVIOUS
  <1>5. threads' \in [Threads -> ThreadType]
    BY <1>3, <1>4 DEF ThreadOK
  <1>6. NoNewWaiter
    BY <1>1, <1>2 DEF NoNewWaiter
  <1> QED
    BY <1>1, <1>3, <1>5, <1>6 DEF ThreadsOK, AllPassed

LEMMA InFront ==
  ASSUME NEW x \in Entities, NEW b \in Seq(Entities)
  PROVE  <<x>> \o b \in Seq(Entities) /\ Len(<<x>> \o b) = 1 + Len(b)
  <1>1. <<x>> \in Seq(Entities) /\ Len(<<x>>) = 1
    OBVIOUS
  <1> QED
    BY <1>1, ConcatProperties

Delivery == [type : Types, at : Nat, end : Nat, beyond : Seq(Entities)]

(* It is at another place. *)
Moved(new, d, at, beyond) == new = [d EXCEPT !.at = at, !.beyond = beyond]

LEMMA NextRecord ==
  ASSUME NEW d \in Delivery, NEW at \in Nat, NEW beyond \in Seq(Entities),
         NEW new, Moved(new, d, at, beyond)
  PROVE  new \in Delivery /\ new.at = at /\ new.beyond = beyond /\ new.type = d.type /\ new.end = d.end
  <1>1. new \in Delivery
    BY DEF Delivery, Moved
  <1>2. new.at = at
    BY DEF Delivery, Moved
  <1>3. new.beyond = beyond
    BY DEF Delivery, Moved
  <1>4. new.type = d.type /\ new.end = d.end
    BY DEF Delivery, Moved
  <1> QED
    BY <1>1, <1>2, <1>3, <1>4

(* What a step of a delivery does to it. *)
LEMMA NextHeard ==
  ASSUME NEW list \in Seq(Entry), NEW left \in Seq(Entry),
         Len(left) = Len(list) \/ (list # <<>> /\ Len(left) = Len(list) - 1),
         NEW d \in Delivery,
         d.at \in 1 .. d.end, d.at # d.end,
         d.end = Len(list) + Len(d.beyond),
         NEW new, Moved(new, d, d.at + 1,
                        IF Len(left) = Len(list) THEN d.beyond ELSE <<Last(list).entity>> \o d.beyond)
  PROVE  /\ new \in Delivery
         /\ new.type = d.type
         /\ new.at \in 1 .. new.end
         /\ new.end = Len(left) + Len(new.beyond)
  <1> DEFINE b == d.beyond
             front == <<Last(list).entity>>
             c == IF Len(left) = Len(list) THEN b ELSE front \o b
  <1>1. b \in Seq(Entities) /\ d.at \in Nat /\ d.end \in Nat /\ d.type \in Types
    BY DEF Delivery
  <1>2. Len(list) \in Nat /\ Len(left) \in Nat /\ Len(b) \in Nat
    BY <1>1, LenProperties
  <1>3. c \in Seq(Entities) /\ Len(left) + Len(c) = Len(list) + Len(b)
    <2>1. CASE Len(left) = Len(list)
      BY <2>1, <1>1
    <2>2. CASE Len(left) # Len(list)
      <3>1. Len(list) \in 1 .. Len(list) /\ Len(left) = Len(list) - 1
        BY <2>2, <1>2, EmptySeq, SMT
      <3>2. list[Len(list)] \in Entry
        BY <3>1, ElementOfSeq
      <3>3. Last(list).entity \in Entities
        BY <3>2 DEF Last, Entry
      <3> HIDE DEF b
      <3>4. front \o b \in Seq(Entities) /\ Len(front \o b) = 1 + Len(b)
        BY <3>3, <1>1, InFront
      <3>5. c = front \o b
        BY <2>2
      <3> HIDE DEF c, front
      <3>6. c \in Seq(Entities) /\ Len(c) = 1 + Len(b)
        BY <3>4, <3>5
      <3> QED
        BY <3>1, <3>6, <1>2, SMT
    <2> QED
      BY <2>1, <2>2
  <1>4. Moved(new, d, d.at + 1, c)
    OBVIOUS
  <1>5. d.at + 1 \in Nat /\ d.at + 1 \in 1 .. d.end
    <2>1. \A n, m \in Nat : n \in 1 .. m /\ n # m => n + 1 \in Nat /\ n + 1 \in 1 .. m
      BY SMT
    <2> QED
      BY <2>1, <1>1, Zenon
  <1> HIDE DEF c, b
  <1>6. /\ new \in Delivery
        /\ new.type = d.type /\ new.at = d.at + 1
        /\ new.end = d.end /\ new.beyond = c
    BY <1>3, <1>4, <1>5, NextRecord, SMTT(30), ZenonT(30)
  <1> QED
    BY <1>3, <1>5, <1>6 DEF b

LEMMA HearStep ==
  ASSUME IInv, NEW woken \in SUBSET Asked, Hear(woken)
  PROVE  IInv'
  <1>a. ~Between
    BY DEF Hear
  <1>b. PICK type \in Types : type = delivery.type
    BY <1>a, HeardIsEntity
  <1>c. PICK e \in Entities : e = EntityAt(delivery.at)
    BY <1>a, HeardIsEntity
  <1> DEFINE c == Cardinality(woken)
             list == listeners[type]
             left == Removed(list, e, c)
  <1>1. ~Between /\ UNCHANGED <<state, alive, worn>> /\ listeners' = [listeners EXCEPT ![type] = left]
    BY <1>b, <1>c DEF Hear
  <1>2. e \in Entities /\ type \in Types
    OBVIOUS
  <1>3. woken \in SUBSET WaitingFor(e, type)
    BY <1>b, <1>c DEF Asked
  <1>4. woken \in SUBSET Threads /\ \A t \in woken : threads[t].yielding
    BY <1>3 DEF WaitingFor, Waiting
  <1>5. ThreadsOK' /\ AllPassed' /\ NoNewWaiter /\ \A t \in woken : ~threads'[t].yielding
    <2>1. threads' = [t \in Threads |->
            IF t \notin woken THEN threads[t]
            ELSE [at |-> Behind(t, type), yielding |-> FALSE,
                  woke |-> IF IsCapture(t, Behind(t, type)) THEN type ELSE Nothing]]
      BY <1>b DEF Hear
    <2>2. ThreadsOK /\ AllPassed
      BY DEF IInv, Parts
    <2> QED
      BY <2>1, <2>2, <1>2, <1>4, HearThreads
  <1>6. /\ c \in Nat
        /\ Cardinality(Waits(type, e)') + c <= Cardinality(Waits(type, e))
    BY <1>3, <1>5, WokenCount DEF IInv, Parts
  <1>7. IsListing(list)
    BY <1>2 DEF IInv, Parts, ListsOK
  <1>8. /\ IsListing(left)
        /\ Held(left, e) = IF Held(list, e) > c THEN Held(list, e) - c ELSE 0
        /\ OthersHeld(left, list, e)
        /\ (Len(left) = Len(list) \/ (Listed(list, e) /\ Len(left) = Len(list) - 1))
    BY <1>2, <1>6, <1>7, RemovedFacts
  <1>9. delivery' = IF delivery.at = delivery.end THEN Nothing ELSE
                      [delivery EXCEPT !.at = @ + 1,
                         !.beyond = IF Len(left) = Len(list) THEN @ ELSE <<Last(list).entity>> \o @]
    BY <1>b, <1>c DEF Hear
  <1>10. /\ delivery \in [type : Types, at : Nat, end : Nat, beyond : Seq(Entities)]
         /\ delivery.at \in 1 .. delivery.end
         /\ delivery.end = Len(list) + Len(delivery.beyond)
    BY <1>1, <1>b DEF IInv, Parts, DeliveryOK
  <1>11. Listed(list, e) => list # <<>>
    BY DEF Listed
  <1> HIDE DEF left, list, c
  <1>12. listeners \in [Types -> Seq(Entry)] /\ \A y \in Types : IsListing(listeners[y])
    BY DEF IInv, Parts, ListsOK
  <1>13. \A y \in Types : listeners'[y] = IF y = type THEN left ELSE listeners[y]
    BY <1>1, <1>12
  <1>14. ListsOK'
    <2>1. left \in Seq(Entry)
      BY <1>8 DEF IsListing
    <2>2. listeners' \in [Types -> Seq(Entry)]
      BY <1>1, <1>12, <2>1
    <2>3. \A y \in Types : IsListing(listeners'[y])
      BY <1>8, <1>12, <1>13
    <2> QED
      BY <2>2, <2>3 DEF ListsOK
  <1>15. DeliveryOK'
    <2>1. CASE delivery.at = delivery.end
      BY <2>1, <1>9 DEF DeliveryOK, Between
    <2>2. CASE delivery.at # delivery.end
      <3>1. list \in Seq(Entry) /\ left \in Seq(Entry)
        BY <1>7, <1>8 DEF IsListing
      <3>2. delivery' = [delivery EXCEPT !.at = @ + 1,
                           !.beyond = IF Len(left) = Len(list) THEN @ ELSE <<Last(list).entity>> \o @]
        BY <2>2, <1>9
      <3>3. Len(left) = Len(list) \/ (list # <<>> /\ Len(left) = Len(list) - 1)
        BY <1>8, <1>11
      <3> DEFINE beyond == IF Len(left) = Len(list) THEN delivery.beyond ELSE <<Last(list).entity>> \o delivery.beyond
      <3>a. Moved(delivery', delivery, delivery.at + 1, beyond) /\ delivery \in Delivery
        BY <3>2, <1>10 DEF Moved, Delivery
      <3>4. /\ delivery' \in Delivery
            /\ delivery'.type = delivery.type
            /\ delivery'.at \in 1 .. delivery'.end
            /\ delivery'.end = Len(left) + Len(delivery'.beyond)
        <4> PICK li, le, d, new : li = list /\ le = left /\ d = delivery /\ new = delivery'
          OBVIOUS
        <4>1. /\ li \in Seq(Entry) /\ le \in Seq(Entry) /\ (Len(le) = Len(li) \/ (li # <<>> /\ Len(le) = Len(li) - 1))
              /\ d \in Delivery /\ d.at \in 1 .. d.end /\ d.at # d.end /\ d.end = Len(li) + Len(d.beyond)
          BY <2>2, <3>1, <3>3, <3>a, <1>10
        <4>2. Moved(new, d, d.at + 1, IF Len(le) = Len(li) THEN d.beyond ELSE <<Last(li).entity>> \o d.beyond)
          BY <3>a
        <4>3. new \in Delivery /\ new.type = d.type /\ new.at \in 1 .. new.end /\ new.end = Len(le) + Len(new.beyond)
          BY ONLY <4>1, <4>2, NextHeard
        <4> QED
          BY <4>3
      <3>5. listeners'[delivery'.type] = left
        BY <3>4, <1>b, <1>13
      <3> QED
        BY <3>4, <3>5 DEF DeliveryOK, Delivery
    <2> QED
      BY <2>1, <2>2
  <1>16. ASSUME NEW y \in Types, NEW d \in Entities, <<y, d>> \notin worn'
         PROVE  Held(listeners'[y], d) >= Owed(y, d)'
    <2>1. Held(listeners[y], d) >= Owed(y, d)
      BY <1>1, <1>16 DEF IInv, HeldEnough
    <2>2. CASE y = type /\ d = e
      <3> DEFINE r == IF y \in Rules[state[d]] THEN 1 ELSE 0
                 w == Cardinality(Waits(y, d))
                 v == Cardinality(Waits(y, d)')
                 h == Held(listeners[y], d)
                 g == Held(listeners'[y], d)
      <3>1. Owed(y, d) = r + w /\ Owed(y, d)' = r + v
        BY <1>1 DEF Owed
      <3>2. w \in Nat /\ v \in Nat /\ r \in Nat /\ h \in Nat
        BY <1>5, WaitsFinite, CountShrinks, HeldNat DEF IInv, Parts
      <3>3. v + c <= w
        BY <2>2, <1>6
      <3>4. g = IF h > c THEN h - c ELSE 0
        BY <2>2, <1>8, <1>13 DEF list
      <3>5. h >= r + w
        BY <2>1, <3>1
      <3> HIDE DEF r, w, v, h, g
      <3>6. g >= r + v
        BY <3>2, <3>3, <3>4, <3>5, <1>6, SMT
      <3> QED
        BY <3>1, <3>6 DEF g
    <2>3. CASE ~(y = type /\ d = e)
      <3>1. Held(listeners'[y], d) = Held(listeners[y], d)
        BY <2>3, <1>8, <1>13 DEF OthersHeld, list
      <3>2. state'[d] = state[d]
        BY <1>1
      <3> QED
        BY <2>1, <3>1, <3>2, <1>5, NoMoreOwed DEF IInv, Parts
    <2> QED
      BY <2>2, <2>3
  <1>17. HeldEnough'
    BY <1>16 DEF HeldEnough
  <1>18. StatesOK' /\ WornOK'
    BY <1>1 DEF IInv, Parts, StatesOK, WornOK
  <1> QED
    BY <1>5, <1>14, <1>15, <1>17, <1>18 DEF IInv, Parts
LEMMA ChangeStateStep ==
  ASSUME IInv, NEW e \in Entities, NEW next \in States[e], ChangeState(e, next)
  PROVE  IInv'
  <1> DEFINE stopped == {t \in Threads : Owner[t] = e /\ t \notin Detached}
             stay(type) == WaitingFor(e, type) \ stopped # {}
             owed(type) == type \in Rules[state[e]] \/ WaitingFor(e, type) \cap stopped # {}
             swept(type) == Removed(listeners[type], e, 1)
             added(type) == IF type \in Rules[next] THEN Added(swept(type), e, 1) ELSE swept(type)
  <1>1. /\ Between /\ UNCHANGED <<alive, delivery>>
        /\ state' = [state EXCEPT ![e] = next]
        /\ threads' = [t \in Threads |-> IF t \in stopped THEN Idle ELSE threads[t]]
        /\ listeners' = IF next = state[e] THEN listeners ELSE [type \in Types |-> added(type)]
        /\ worn' = IF next = state[e] THEN worn
                   ELSE worn \cup {<<type, e>> : type \in {u \in Types : stay(u) /\ ~owed(u)}}
    BY DEF ChangeState
  <1>2. ThreadsOK' /\ AllPassed' /\ NoNewWaiter
    <2>1. stopped \in SUBSET Threads
      OBVIOUS
    <2>2. ThreadsOK /\ AllPassed
      BY DEF IInv, Parts
    <2> HIDE DEF stopped
    <2> QED
      BY <1>1, <2>1, <2>2, IdleThreads
  <1>3. \A t \in stopped : ~threads'[t].yielding
    BY <1>1, IdleOK
  <1>4. \A d \in Entities : state'[d] = IF d = e THEN next ELSE state[d]
    BY <1>1 DEF IInv, Parts, StatesOK
  <1>5. StatesOK'
    <2>1. \A d \in Entities : state'[d] \in States[d]
      BY <1>4 DEF IInv, Parts, StatesOK
    <2>2. state' \in [Entities -> UNION {States[d] : d \in Entities}]
      BY <1>1 DEF IInv, Parts, StatesOK
    <2> QED
      BY <1>1, <2>1, <2>2 DEF IInv, Parts, StatesOK
  <1>6. DeliveryOK'
    BY <1>1 DEF DeliveryOK, Between
  <1>7. CASE next = state[e]
    <2>1. listeners' = listeners /\ worn' = worn
      BY <1>1, <1>7
    <2>2. state' = state
      BY <1>1, <1>7 DEF IInv, Parts, StatesOK
    <2>3. HeldEnough'
      BY <2>1, <2>2, <1>2, StillHeld DEF IInv, Parts
    <2>4. ListsOK' /\ WornOK'
      BY <2>1 DEF IInv, Parts, ListsOK, WornOK
    <2> QED
      BY <2>3, <2>4, <1>2, <1>5, <1>6 DEF IInv, Parts
  <1>8. CASE next # state[e]
    <2>1. /\ listeners' = [type \in Types |-> added(type)]
          /\ worn' = worn \cup {<<type, e>> : type \in {u \in Types : stay(u) /\ ~owed(u)}}
      BY <1>1, <1>8
    <2>2. ASSUME NEW type \in Types
          PROVE  /\ IsListing(listeners'[type])
                 /\ OthersHeld(listeners'[type], listeners[type], e)
                 /\ Held(listeners'[type], e) =
                      (IF Held(listeners[type], e) > 1 THEN Held(listeners[type], e) - 1 ELSE 0)
                        + (IF type \in Rules[next] THEN 1 ELSE 0)
      <3> DEFINE list == listeners[type]
                 left == Removed(list, e, 1)
                 new == listeners'[type]
                 h == Held(list, e)
                 rest == IF h > 1 THEN h - 1 ELSE 0
      <3>1. IsListing(list)
        BY DEF IInv, Parts, ListsOK
      <3>2. new = IF type \in Rules[next] THEN Added(left, e, 1) ELSE left
        BY <2>1
      <3>3. h \in 0 .. Counts - 1
        BY <3>1, HeldType
      <3> HIDE DEF new, list
      <3>4. IsListing(left) /\ Held(left, e) = rest /\ OthersHeld(left, list, e)
        <4>1. 1 \in Nat
          OBVIOUS
        <4> QED
          BY <4>1, <3>1, RemovedFacts
      <3> HIDE DEF left, h
      <3>5. rest \in Nat /\ (rest + 1) % Counts = rest + 1 /\ rest + 0 = rest
        BY <3>3, CountsNat, SMT
      <3> HIDE DEF rest
      <3>6. CASE type \in Rules[next]
        <4>1. new = Added(left, e, 1)
          BY <3>2, <3>6
        <4>2. IsListing(new) /\ Held(new, e) = (rest + 1) % Counts /\ OthersHeld(new, left, e)
          <5>1. 1 \in Nat
            OBVIOUS
          <5> QED
            BY <4>1, <5>1, <3>4, AddedFacts
        <4>3. OthersHeld(new, list, e)
          BY <4>2, <3>4 DEF OthersHeld
        <4>4. Held(new, e) = rest + 1
          BY <4>2, <3>5
        <4> QED
          BY <4>2, <4>3, <4>4, <3>6 DEF new, list, rest, h
      <3>7. CASE type \notin Rules[next]
        <4>1. new = left
          BY <3>2, <3>7
        <4> QED
          BY <4>1, <3>4, <3>5, <3>7 DEF new, list, rest, h
      <3> QED
        BY <3>6, <3>7
    <2>3. ListsOK'
      BY <2>1, <2>2 DEF ListsOK, IsListing
    <2>4. WornOK'
      BY <2>1 DEF IInv, Parts, WornOK
    <2>5. ASSUME NEW type \in Types, NEW d \in Entities, <<type, d>> \notin worn'
          PROVE  Held(listeners'[type], d) >= Owed(type, d)'
      <3>1. Held(listeners[type], d) >= Owed(type, d)
        BY <2>1, <2>5 DEF IInv, HeldEnough
      <3>2. CASE d # e
        <4>1. Held(listeners'[type], d) = Held(listeners[type], d)
          BY <3>2, <2>2 DEF OthersHeld
        <4>2. state'[d] = state[d]
          BY <3>2, <1>4
        <4> QED
          BY <3>1, <4>1, <4>2, <1>2, NoMoreOwed DEF IInv, Parts
      <3>3. CASE d = e
        <4> DEFINE r == IF type \in Rules[state[e]] THEN 1 ELSE 0
                   q == IF type \in Rules[next] THEN 1 ELSE 0
                   w == Cardinality(Waits(type, e))
                   v == Cardinality(Waits(type, e)')
                   h == Held(listeners[type], e)
                   g == Held(listeners'[type], e)
        <4>1. Owed(type, e) = r + w
          BY DEF Owed
        <4>2. Owed(type, e)' = q + v
          BY <1>4 DEF Owed
        <4>3. w \in Nat /\ v \in Nat /\ v <= w /\ r \in Nat /\ q \in Nat /\ h \in Nat
          BY <1>2, WaitsFinite, CountShrinks, HeldNat DEF IInv, Parts
        <4>4. h >= r + w
          BY <3>1, <3>3, <4>1
        <4>5. g = (IF h > 1 THEN h - 1 ELSE 0) + q
          BY <2>2
        <4>6. v = 0 \/ h >= v + 1
          <5>1. ~stay(type) \/ owed(type)
            BY <2>1, <2>5, <3>3
          <5>2. CASE ~stay(type)
            <6>1. Waits(type, e)' = {}
              <7> SUFFICES ASSUME NEW x \in Waits(type, e)' PROVE FALSE
                OBVIOUS
              <7>1. PICK t \in Waiting(e)' : x \in {t} \X Places(t, type)'
                BY DEF Waits
              <7>2. t \in Threads /\ Owner[t] = e /\ threads'[t].yielding
                BY DEF Waiting
              <7>3. threads'[t] = threads[t] /\ t \notin stopped
                BY <7>2, <1>2, <1>3 DEF NoNewWaiter
              <7>4. Places(t, type)' = Places(t, type)
                BY <7>3 DEF Places, Condition
              <7>5. IsFiniteSet(Places(t, type)) /\ Places(t, type) # {} /\ Mentions(t, type) \in Nat
                BY <7>1, <7>2, <7>3, <7>4, PlacesFinite DEF IInv, Parts
              <7>6. Mentions(t, type) # 0
                BY <7>5, FS_EmptySet DEF Mentions
              <7>7. Mentions(t, type) > 0
                BY <7>5, <7>6, SMT
              <7>8. t \in WaitingFor(e, type) \ stopped
                BY <7>2, <7>3, <7>7 DEF WaitingFor, Waiting
              <7> QED
                BY <7>8, <5>2
            <6> QED
              BY <6>1, FS_EmptySet
          <5>3. CASE type \in Rules[state[e]]
            BY <5>3, <4>3, <4>4, SMT
          <5>4. CASE WaitingFor(e, type) \cap stopped # {}
            <6>1. PICK t : t \in WaitingFor(e, type) \cap stopped
              BY <5>4
            <6>2. {t} \in SUBSET WaitingFor(e, type) /\ \A u \in {t} : ~threads'[u].yielding
              BY <6>1, <1>3
            <6>3. v + Cardinality({t}) <= w
              BY <6>2, <1>2, WokenCount DEF IInv, Parts
            <6>4. Cardinality({t}) = 1
              BY FS_Singleton
            <6> HIDE DEF w, v, h, r, g, q
            <6> QED
              BY <6>3, <6>4, <4>3, <4>4, SMT
          <5> QED
            BY <5>1, <5>2, <5>3, <5>4
        <4> HIDE DEF r, q, w, v, h, g
        <4>7. g >= q + v
          BY <4>3, <4>5, <4>6, SMT
        <4> QED
          BY <4>2, <4>7, <3>3 DEF g
      <3> QED
        BY <3>2, <3>3
    <2>6. HeldEnough'
      BY <2>5 DEF HeldEnough
    <2> QED
      BY <2>3, <2>4, <2>6, <1>2, <1>5, <1>6 DEF IInv, Parts
  <1> QED
    BY <1>7, <1>8

(* In the beginning every entity holds the reference of its rules.         *)
LEMMA InitHolds == Init => IInv
  <1> SUFFICES ASSUME Init PROVE IInv
    OBVIOUS
  <1>1. PICK order \in SetToSeqs(Entities) :
          listeners = [type \in Types |->
            IF type \in Rules[Initial] THEN [p \in DOMAIN order |-> [entity |-> order[p], count |-> 1]] ELSE <<>>]
    BY DEF Init
  <1> DEFINE n == Cardinality(Entities)
             full == [p \in DOMAIN order |-> [entity |-> order[p], count |-> 1]]
  <1>2. n \in Nat /\ IsFiniteSet(Entities)
    BY FiniteAssumption, FS_CardinalityType
  <1>3. order \in [1 .. n -> Entities] /\ \A i, j \in 1 .. n : i # j => order[i] # order[j]
    BY DEF SetToSeqs
  <1>4. \A d \in Entities : \E p \in 1 .. n : order[p] = d
    <2>1. order \in Injection(1 .. n, Entities)
      BY <1>3 DEF Injection, IsInjective
    <2>2. Cardinality(1 .. n) = n
      <3>1. 1 \in Int /\ n \in Int /\ (IF 1 > n THEN 0 ELSE n - 1 + 1) = n
        BY <1>2, SMT
      <3> HIDE DEF n
      <3> QED
        BY <3>1, FS_Interval
    <2>3. order \in Surjection(1 .. n, Entities)
      BY <2>1, <2>2, <1>2, FS_Injection
    <2> QED
      BY <2>3 DEF Surjection
  <1>5. DOMAIN full = 1 .. n /\ \A p \in 1 .. n : full[p] = [entity |-> order[p], count |-> 1]
    BY <1>3
  <1>6. IsListing(full)
    <2>1. 1 \in 0 .. Counts - 1
      BY CountsNat, SMT
    <2>2. \A p \in 1 .. n : full[p] \in Entry
      BY <2>1, <1>3, <1>5 DEF Entry
    <2>3. full \in Seq(Entry)
      <3>1. full = [p \in 1 .. n |-> full[p]]
        BY <1>3
      <3> HIDE DEF full, n
      <3> QED
        BY <3>1, <2>2, <1>2, IsASeq
    <2>4. \A p, q \in 1 .. n : full[p].entity = full[q].entity => p = q
      BY <1>3, <1>5
    <2> HIDE DEF full
    <2> QED
      BY <2>3, <2>4, <1>5 DEF IsListing
  <1>7. ASSUME NEW d \in Entities
        PROVE  Held(full, d) = 1
    <2>1. PICK p \in 1 .. n : order[p] = d
      BY <1>4
    <2>2. p \in DOMAIN full /\ full[p].entity = d /\ full[p].count = 1
      BY <2>1, <1>5
    <2> HIDE DEF full
    <2>3. Held(full, full[p].entity) = full[p].count
      BY <2>2, <1>6, HeldAt
    <2> QED
      BY <2>2, <2>3
  <1>8. IsListing(<<>>)
    BY EmptySeq DEF IsListing
  <1>9. listeners = [type \in Types |-> IF type \in Rules[Initial] THEN full ELSE <<>>]
    BY <1>1
  <1> HIDE DEF full, n
  <1>10. ListsOK
    BY <1>6, <1>8, <1>9 DEF ListsOK, IsListing
  <1>11. StatesOK
    BY RulesAssumption DEF Init, StatesOK
  <1>12. \A t \in Threads : ThreadOK(t, threads[t]) /\ PassedOver(t, threads[t]) /\ threads[t].yielding = FALSE
    <2> TAKE t \in Threads
    <2> DEFINE r == [at |-> 1, yielding |-> FALSE, woke |-> Nothing]
    <2>1. threads[t] = r
      BY DEF Init, Idle
    <2>2. r \in ThreadType /\ r.at = 1 /\ r.yielding = FALSE /\ r.woke = Nothing
      BY DEF ThreadType
    <2>3. 1 \in 0 .. Len(Code[t])
      BY CodeFacts, SMT
    <2> HIDE DEF r
    <2> QED
      BY <2>1, <2>2, <2>3 DEF ThreadOK, PassedOver
  <1>13. ThreadsOK /\ AllPassed
    <2>1. threads = [t \in Threads |-> threads[t]]
      BY DEF Init
    <2>2. threads \in [Threads -> ThreadType]
      BY <2>1, <1>12 DEF ThreadOK
    <2> QED
      BY <2>2, <1>12 DEF ThreadsOK, AllPassed
  <1>14. WornOK /\ DeliveryOK
    BY DEF Init, WornOK, DeliveryOK, Between
  <1>15. ASSUME NEW type \in Types, NEW d \in Entities
         PROVE  Held(listeners[type], d) >= Owed(type, d)
    <2>1. Waits(type, d) = {}
      BY <1>12 DEF Waits, Waiting
    <2>2. Cardinality(Waits(type, d)) = 0
      BY <2>1, FS_EmptySet
    <2>3. state[d] = Initial
      BY DEF Init
    <2>4. Owed(type, d) = IF type \in Rules[Initial] THEN 1 ELSE 0
      <3>1. Owed(type, d) = (IF type \in Rules[Initial] THEN 1 ELSE 0) + 0
        BY <2>2, <2>3 DEF Owed
      <3> QED
        BY <3>1, SMT
    <2>5. CASE type \in Rules[Initial]
      BY <2>4, <2>5, <1>7, <1>9, SMT
    <2>6. CASE type \notin Rules[Initial]
      <3>1. listeners[type] = <<>>
        BY <2>6, <1>9
      <3>2. Held(listeners[type], d) \in Nat
        BY <1>10, HeldNat
      <3> QED
        BY <2>4, <2>6, <3>2, SMT
    <2> QED
      BY <2>5, <2>6
  <1> QED
    BY <1>10, <1>11, <1>13, <1>14, <1>15 DEF IInv, Parts, HeldEnough

LEMMA NextKeeps == IInv /\ [Next]_vars => IInv'
  <1> SUFFICES ASSUME IInv, [Next]_vars PROVE IInv'
    OBVIOUS
  <1>1. ASSUME NEW t \in Threads, Start(t) \/ Act(t) \/ Yield(t) \/ Stop(t)
        PROVE  IInv'
    BY <1>1, StartStep, ActStep, YieldStep, StopStep
  <1>2. ASSUME NEW type \in Types, Event(type)
        PROVE  IInv'
    BY <1>2, EventStep
  <1>3. ASSUME NEW woken \in SUBSET Asked, Hear(woken)
        PROVE  IInv'
    BY <1>3, HearStep
  <1>4. ASSUME NEW e \in Entities, Destroy(e)
        PROVE  IInv'
    BY <1>4, DestroyStep
  <1>5. ASSUME NEW e \in Entities, NEW next \in States[e], ChangeState(e, next)
        PROVE  IInv'
    BY <1>5, ChangeStateStep
  <1>6. CASE UNCHANGED vars
    <2>1. UNCHANGED <<listeners, state, alive, threads, worn, delivery>>
      BY <1>6 DEF vars
    <2>2. ThreadsOK' /\ AllPassed' /\ NoNewWaiter
      BY <2>1 DEF IInv, Parts, ThreadsOK, AllPassed, NoNewWaiter
    <2> QED
      BY <2>1, <2>2, OnlyThreads
  <1> QED
    BY <1>1, <1>2, <1>3, <1>4, <1>5, <1>6 DEF Next

LEMMA Inductive == Spec => []IInv
  <1>1. Init => IInv
    BY InitHolds
  <1>2. IInv /\ [Next]_vars => IInv'
    BY NextKeeps
  <1> QED
    BY <1>1, <1>2, PTL DEF Spec
-----------------------------------------------------------------------------
(* Every list holds an entity once, with a count that fits; a thread waits *)
(* at a Yield only; and a delivery stays inside of the entries that were   *)
(* there when it began, though it takes entries out as it goes.            *)
THEOREM TypeCorrect == Spec => []TypeOK
  <1>1. IInv => TypeOK
    BY TypeIsParts DEF IInv
  <1> QED
    BY <1>1, Inductive, PTL

(* EntityListener keeps an entity listed as long as the rules of its state *)
(* or a thread that waits are about the type, with a reference for each of *)
(* these reasons: whatever threads wait, are woken or stopped, and however *)
(* often the entity changes its state in between.                          *)
THEOREM WaitersListed == Spec => []WaitersAreListed
  <1>1. IInv => WaitersAreListed
    <2> SUFFICES ASSUME IInv, NEW type \in Types, NEW e \in alive,
                        <<type, e>> \notin worn, Owed(type, e) > 0
                 PROVE  Listed(listeners[type], e) /\ Held(listeners[type], e) >= Owed(type, e)
      BY DEF WaitersAreListed
    <2>1. e \in Entities
      BY DEF IInv, Parts, StatesOK
    <2>2. Held(listeners[type], e) >= Owed(type, e)
      BY <2>1 DEF IInv, HeldEnough
    <2>3. Held(listeners[type], e) \in Nat /\ Owed(type, e) \in Nat
      BY HeldNat, OwedType DEF IInv, Parts
    <2>4. Held(listeners[type], e) # 0
      BY <2>2, <2>3, SMT
    <2> QED
      BY <2>2, <2>4, HeldNot
  <1> QED
    BY <1>1, Inductive, PTL

(* update_entity_conditional_yield lets a thread pass all captures behind  *)
(* its Yield when one of them takes the event: the one that a thread which *)
(* was woken executes next is never one that takes this event.             *)
THEOREM CapturesKept == Spec => []CapturesAreKept
  <1>1. IInv => CapturesAreKept
    <2> SUFFICES ASSUME IInv, NEW t \in Threads, threads[t].woke # Nothing, threads[t].at # 0
                 PROVE  Code[t][threads[t].at].types \notin {<<>>, <<threads[t].woke>>}
      BY DEF CapturesAreKept, Awake, Current
    <2>1. threads[t] \in ThreadType /\ ThreadOK(t, threads[t]) /\ PassedOver(t, threads[t])
      BY DEF IInv, Parts, ThreadsOK, AllPassed
    <2> DEFINE i == threads[t].at
               L == Len(Code[t])
    <2>2. i \in 0 .. L /\ L \in Nat
      BY <2>1, CodeFacts DEF ThreadOK
    <2>3. /\ IsCapture(t, i)
          /\ \A j \in i .. L : (\A k \in i .. j : IsCapture(t, k)) => ~Takes(t, j, threads[t].woke)
      BY <2>1 DEF PassedOver
    <2> HIDE DEF i, L
    <2>4. i \in i .. L /\ \A k \in i .. i : k = i
      BY <2>2, SMT
    <2>5. ~Takes(t, i, threads[t].woke)
      BY <2>3, <2>4
    <2> QED
      BY <2>5 DEF Takes, i
  <1> QED
    BY <1>1, Inductive, PTL
=============================================================================
