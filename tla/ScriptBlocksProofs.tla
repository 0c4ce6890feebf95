------------------------- MODULE ScriptBlocksProofs -------------------------
(***************************************************************************)
(* ThreadBuilder, for every set of scripts: every control block covers the *)
(* instructions of the lines of its block, if no reference to one dangled. *)
(*                                                                         *)
(* A control block whose builder is done covers the instructions of its    *)
(* lines, and no line that may still be written is one of these; the       *)
(* control block of a builder that is not done has behind it what was      *)
(* written since the block opened, and nothing else (Fits).  When the      *)
(* builder ends, what is behind its control block is what it is to cover.  *)
(*                                                                         *)
(* On top of the invariant of StatesAndScriptsProofs, which says that      *)
(* every line is written where it belongs.                                 *)
(*                                                                         *)
(* ThreadSteps, for every set of scripts: a block that is one update is    *)
(* not interrupted by another one.  An instruction does what its line says *)
(* (TellInv).  While a thread runs, its loops are the blocks around its    *)
(* next instruction, and it is inside of no straight block that is one     *)
(* update but in the loop of that block (RunInv).                          *)
(***************************************************************************)
EXTENDS StatesAndScriptsProofs

Jumps == {"if", "skip", "rewind", "multi", "cadence"}
OpOf(kind) ==
  CASE kind \in {"if", "while"} -> "if"
    [] kind = "else" -> "skip"
    [] kind = "multi" -> "multi"
    [] OTHER -> "cadence"

(* Line i is in the part of the block that line o begins. *)
Until(s, o) ==
  CASE s[o] = "while" -> EndOf(s, o) + 1
    [] s[o] = "if" /\ HasElse(s, o) -> ElseOf(s, o) + 1
    [] s[o] = "else" -> EndOf(s, Innermost(s, o, Openers))
    [] OTHER -> EndOf(s, o)
Inner(s, o, i) == o < i /\ i < Until(s, o)

(* The lines that may still be written, the control blocks to be filled in.*)
Fresh(bs, c) ==
  {i \in Nat : \/ i >= c
               \/ \E d \in 1 .. Len(bs) : i \in bs[d].pending
               \/ \E d \in 2 .. Len(bs) : bs[d].kind \in SubThreads /\ i = bs[d].begin - 1}
Places(bs) == {<<bs[d].thread, bs[d].place>> : d \in {e \in 2 .. Len(bs) : bs[e].kind \notin SubThreads}}

(* Instruction k of the thread q covers its block, or goes back.           *)
Spanned(s, q, k, o) ==
  /\ q[k].op = "cadence" => s[o] \in Cadences
  /\ Until(s, o) \in Nat /\ q[k].size \in Nat /\ k + q[k].size <= Len(q)
  /\ \A l \in 1 .. Len(q) : \A i \in q[l].lines : Inner(s, o, i) <=> (k < l /\ l <= k + q[k].size)
Returns(s, q, k, o) ==
  /\ q[k].size \in Nat /\ k > q[k].size
  /\ q[k - q[k].size].op = "if" /\ q[k - q[k].size].lines = {OpenerOf(s, o)}
Closed(s, q, k, o, F) ==
  IF q[k].op = "rewind" THEN Returns(s, q, k, o)
  ELSE \/ q[k].op = "cadence" /\ s[o] \notin Cadences /\ q[k].size = 0
       \/ Spanned(s, q, k, o) /\ \A i \in F : ~Inner(s, o, i)

Written(s, co, ths, H, F) ==
  \A t \in 1 .. Len(co) : \A k \in 1 .. Len(co[t]) :
    /\ co[t][k].lines # {}
    /\ co[t][k].op \in Jumps =>
         \E o \in Nat : /\ co[t][k].lines = {o} /\ ThreadOf(s, o) = ths[t].owner
                        /\ <<t, k>> \in H \/ Closed(s, co[t], k, o, F)

(* The control block of a builder that is not done. *)
Held(q, b) ==
  /\ b.place = b.count /\ b.place \in 1 .. Len(q)
  /\ q[b.place].lines = {b.begin - 1} /\ q[b.place].op = OpOf(b.kind)
  /\ \A l \in 1 .. Len(q) : \A i \in q[l].lines : i >= b.begin <=> l > b.place
HeldAll(co, bs) ==
  \A d \in 2 .. Len(bs) : bs[d].kind \notin SubThreads => Held(co[bs[d].thread], bs[d])

(* q2 is q with more instructions behind. *)
Longer(q, q2) == Len(q) <= Len(q2) /\ \A k \in 1 .. Len(q) : q2[k] = q[k]

LEMMA ClosedMore ==
  ASSUME NEW s, NEW q \in Seq(Instrs), NEW q2 \in Seq(Instrs), Longer(q, q2), NEW k \in 1 .. Len(q), NEW o, NEW F,
         Closed(s, q, k, o, F), \A l \in Len(q) + 1 .. Len(q2) : q2[l].lines \subseteq F
  PROVE  Closed(s, q2, k, o, F)
<1>1. Len(q) \in Nat /\ Len(q2) \in Nat /\ Len(q) <= Len(q2) /\ q2[k] = q[k]
  BY LenProperties DEF Longer
<1>2. CASE q[k].op = "rewind"
  <2>1. q[k].size \in Nat /\ k > q[k].size
    BY <1>2 DEF Closed, Returns
  <2>2. k - q[k].size \in 1 .. Len(q)
    BY <1>1, <2>1
  <2>3. q2[k - q[k].size] = q[k - q[k].size]
    BY <2>2 DEF Longer
  <2> QED
    BY <1>1, <1>2, <2>3 DEF Closed, Returns
<1>3. CASE q[k].op # "rewind" /\ Spanned(s, q, k, o) /\ \A i \in F : ~Inner(s, o, i)
  <2>1. q[k].size \in Nat /\ k + q[k].size <= Len(q)
    BY <1>3 DEF Spanned
  <2>2. ASSUME NEW l \in 1 .. Len(q2), NEW i \in q2[l].lines
        PROVE  Inner(s, o, i) <=> (k < l /\ l <= k + q[k].size)
    <3>1. CASE l \in 1 .. Len(q)
      BY <1>3, <3>1 DEF Spanned, Longer
    <3>2. CASE l \notin 1 .. Len(q)
      <4>1. l \in Len(q) + 1 .. Len(q2) /\ ~(l <= k + q[k].size)
        BY <1>1, <2>1, <3>2, SMTT(60)
      <4> QED
        BY <1>3, <4>1
    <3> QED
      BY <3>1, <3>2
  <2>3. k + q[k].size <= Len(q2)
    BY <1>1, <2>1
  <2> QED
    BY <1>1, <1>3, <2>1, <2>2, <2>3 DEF Closed, Spanned
<1> QED
  BY <1>1, <1>2, <1>3 DEF Closed

LEMMA HeldMore ==
  ASSUME NEW q \in Seq(Instrs), NEW q2 \in Seq(Instrs), Longer(q, q2), NEW b, Held(q, b),
         \A l \in Len(q) + 1 .. Len(q2) : \A i \in q2[l].lines : i >= b.begin
  PROVE  Held(q2, b)
<1>1. Len(q) \in Nat /\ Len(q2) \in Nat /\ Len(q) <= Len(q2)
  BY LenProperties DEF Longer
<1>2. b.place \in 1 .. Len(q) /\ b.place \in 1 .. Len(q2) /\ q2[b.place] = q[b.place]
  BY <1>1 DEF Held, Longer
<1>3. ASSUME NEW l \in 1 .. Len(q2), NEW i \in q2[l].lines PROVE i >= b.begin <=> l > b.place
  <2>1. CASE l \in 1 .. Len(q)
    BY <2>1 DEF Held, Longer
  <2>2. CASE l \notin 1 .. Len(q)
    BY <1>1, <1>2, <2>2
  <2> QED
    BY <2>1, <2>2
<1> QED
  BY <1>2, <1>3 DEF Held

LEMMA ExtendedLonger ==
  ASSUME NEW co \in Codes, NEW co2 \in Codes, NEW t \in 1 .. Len(co), NEW xs \in Seq(Instrs), Extended(co, co2, t, xs)
  PROVE  /\ Len(co2) = Len(co) /\ Longer(co[t], co2[t]) /\ \A u \in 1 .. Len(co) : u # t => co2[u] = co[u]
         /\ Len(co2[t]) = Len(co[t]) + Len(xs) /\ Len(xs) \in Nat
         /\ \A l \in Len(co[t]) + 1 .. Len(co2[t]) : l - Len(co[t]) \in 1 .. Len(xs) /\ co2[t][l] = xs[l - Len(co[t])]
<1>1. Len(co[t]) \in Nat /\ Len(xs) \in Nat
  BY CodesAre, LenProperties
<1>2. /\ Len(co2) = Len(co) /\ \A u \in 1 .. Len(co) : u # t => co2[u] = co[u]
  BY DEF Extended
<1>3. Len(co2[t]) = Len(co[t]) + Len(xs) /\ \A k \in 1 .. Len(co[t]) : co2[t][k] = co[t][k]
  BY DEF Extended
<1>4. ASSUME NEW l \in Len(co[t]) + 1 .. Len(co2[t]) PROVE l - Len(co[t]) \in 1 .. Len(xs) /\ co2[t][l] = xs[l - Len(co[t])]
  <2>1. l - Len(co[t]) \in 1 .. Len(xs) /\ Len(co[t]) + (l - Len(co[t])) = l
    BY <1>1, <1>3
  <2>2. co2[t][Len(co[t]) + (l - Len(co[t]))] = xs[l - Len(co[t])]
    BY <2>1 DEF Extended
  <2> QED
    BY <2>1, <2>2
<1> QED
  BY <1>1, <1>2, <1>3, <1>4, SMTT(60) DEF Longer

(* What is written behind.  A jump that is has a builder or is right.      *)
LEMMA WrittenExtended ==
  ASSUME NEW s, NEW co \in Codes, NEW co2 \in Codes, NEW ths, NEW H, NEW F, NEW t \in 1 .. Len(co), NEW xs \in Seq(Instrs),
         Written(s, co, ths, H, F), Extended(co, co2, t, xs),
         \A k \in 1 .. Len(xs) : xs[k].lines # {} /\ xs[k].lines \subseteq F,
         \A k \in 1 .. Len(xs) : xs[k].op \in Jumps =>
           \E o \in Nat : /\ xs[k].lines = {o} /\ ThreadOf(s, o) = ths[t].owner
                          /\ <<t, Len(co[t]) + k>> \in H \/ Closed(s, co2[t], Len(co[t]) + k, o, F)
  PROVE  Written(s, co2, ths, H, F)
<1> DEFINE m == Len(co[t])
<1>1. /\ Len(co2) = Len(co) /\ Longer(co[t], co2[t]) /\ \A u \in 1 .. Len(co) : u # t => co2[u] = co[u]
      /\ \A l \in m + 1 .. Len(co2[t]) : l - m \in 1 .. Len(xs) /\ co2[t][l] = xs[l - m]
  BY ExtendedLonger, SMTT(60)
<1>2. co[t] \in Seq(Instrs) /\ co2[t] \in Seq(Instrs) /\ m \in Nat /\ Len(co2[t]) \in Nat
  BY <1>1, CodesAre
<1> SUFFICES ASSUME NEW u \in 1 .. Len(co2), NEW k \in 1 .. Len(co2[u])
             PROVE  /\ co2[u][k].lines # {}
                    /\ co2[u][k].op \in Jumps =>
                         \E o \in Nat : /\ co2[u][k].lines = {o} /\ ThreadOf(s, o) = ths[u].owner
                                        /\ <<u, k>> \in H \/ Closed(s, co2[u], k, o, F)
  BY DEF Written
<1>3. CASE u # t
  <2>1. co2[u] = co[u] /\ u \in 1 .. Len(co) /\ k \in 1 .. Len(co[u])
    BY <1>1, <1>3
  <2>2. /\ co[u][k].lines # {}
        /\ co[u][k].op \in Jumps =>
             \E o \in Nat : /\ co[u][k].lines = {o} /\ ThreadOf(s, o) = ths[u].owner
                            /\ <<u, k>> \in H \/ Closed(s, co[u], k, o, F)
    BY <2>1 DEF Written
  <2> QED
    BY ONLY <2>1, <2>2, Zenon
<1>4. CASE u = t /\ k \in 1 .. m
  <2>1. co2[t][k] = co[t][k]
    BY <1>1, <1>4 DEF Longer
  <2>2. /\ co[t][k].lines # {}
        /\ co[t][k].op \in Jumps =>
             \E o \in Nat : /\ co[t][k].lines = {o} /\ ThreadOf(s, o) = ths[t].owner
                            /\ <<t, k>> \in H \/ Closed(s, co[t], k, o, F)
    BY <1>4 DEF Written
  <2>3. ASSUME NEW o, Closed(s, co[t], k, o, F) PROVE Closed(s, co2[t], k, o, F)
    <3>1. \A l \in m + 1 .. Len(co2[t]) : co2[t][l].lines \subseteq F
      BY <1>1, ZenonT(30), SMTT(30)
    <3> QED
      BY <1>1, <1>2, <1>4, <2>3, <3>1, ClosedMore
  <2> QED
    BY <1>4, <2>1, <2>2, <2>3
<1>5. CASE u = t /\ k \notin 1 .. m
  <2>1. k \in m + 1 .. Len(co2[t])
    BY <1>2, <1>5, SMTT(30), ZenonT(30)
  <2>2. k - m \in 1 .. Len(xs) /\ co2[t][k] = xs[k - m] /\ m + (k - m) = k
    BY <1>1, <1>2, <2>1
  <2> HIDE DEF m
  <2>3. \A l \in 1 .. Len(xs) : xs[l].op \in Jumps =>
           \E o \in Nat : /\ xs[l].lines = {o} /\ ThreadOf(s, o) = ths[t].owner
                          /\ <<t, m + l>> \in H \/ Closed(s, co2[t], m + l, o, F)
    BY DEF m
  <2>4. xs[k - m].op \in Jumps =>
           \E o \in Nat : /\ xs[k - m].lines = {o} /\ ThreadOf(s, o) = ths[t].owner
                          /\ <<t, m + (k - m)>> \in H \/ Closed(s, co2[t], m + (k - m), o, F)
    BY <2>2, <2>3
  <2> QED
    BY <1>5, <2>2, <2>4, ZenonT(30), SMTT(30)
<1> QED
  BY <1>3, <1>4, <1>5

LEMMA HeldExtended ==
  ASSUME NEW co \in Codes, NEW co2 \in Codes, NEW bs, NEW t \in 1 .. Len(co), NEW xs \in Seq(Instrs),
         HeldAll(co, bs), Extended(co, co2, t, xs),
         \A d \in 2 .. Len(bs) : bs[d].thread \in 1 .. Len(co),
         \A d \in 2 .. Len(bs) : bs[d].kind \notin SubThreads =>
           \A k \in 1 .. Len(xs) : \A i \in xs[k].lines : i >= bs[d].begin
  PROVE  HeldAll(co2, bs)
<1>1. /\ Len(co2) = Len(co) /\ Longer(co[t], co2[t]) /\ \A u \in 1 .. Len(co) : u # t => co2[u] = co[u]
      /\ \A l \in Len(co[t]) + 1 .. Len(co2[t]) : l - Len(co[t]) \in 1 .. Len(xs) /\ co2[t][l] = xs[l - Len(co[t])]
  BY ExtendedLonger
<1>2. co[t] \in Seq(Instrs) /\ co2[t] \in Seq(Instrs)
  BY <1>1, CodesAre
<1> SUFFICES ASSUME NEW d \in 2 .. Len(bs), bs[d].kind \notin SubThreads PROVE Held(co2[bs[d].thread], bs[d])
  BY DEF HeldAll
<1>3. Held(co[bs[d].thread], bs[d]) /\ bs[d].thread \in 1 .. Len(co)
  BY DEF HeldAll
<1>4. CASE bs[d].thread # t
  BY <1>1, <1>3, <1>4
<1>5. CASE bs[d].thread = t
  <2>1. \A l \in Len(co[t]) + 1 .. Len(co2[t]) : \A i \in co2[t][l].lines : i >= bs[d].begin
    BY <1>1
  <2>2. Held(co[t], bs[d])
    BY <1>3, <1>5
  <2> QED
    BY <1>1, <1>2, <1>5, <2>1, <2>2, HeldMore
<1> QED
  BY <1>4, <1>5

(* A size is filled in.  What is behind one builder may be closed then.    *)
LEMMA ClosedResized ==
  ASSUME NEW s, NEW q, NEW q2, Len(q) \in Nat, Len(q2) = Len(q), NEW k \in 1 .. Len(q), NEW o, NEW F, NEW F2 \in SUBSET F,
         \A l \in 1 .. Len(q) : q2[l].lines = q[l].lines /\ q2[l].op = q[l].op,
         q2[k].size = q[k].size, Closed(s, q, k, o, F)
  PROVE  Closed(s, q2, k, o, F2)
<1>1. q2[k].op = q[k].op
  OBVIOUS
<1>2. CASE q[k].op = "rewind"
  <2>1. q[k].size \in Nat /\ k > q[k].size /\ q[k - q[k].size].op = "if" /\ q[k - q[k].size].lines = {OpenerOf(s, o)}
    BY <1>2 DEF Closed, Returns
  <2>2. k - q[k].size \in 1 .. Len(q)
    BY <2>1
  <2>3. q2[k - q[k].size].op = q[k - q[k].size].op /\ q2[k - q[k].size].lines = q[k - q[k].size].lines
    BY <2>2
  <2> QED
    BY <1>1, <1>2, <2>1, <2>3 DEF Closed, Returns
<1>3. CASE q[k].op # "rewind"
  <2>1. \A l \in 1 .. Len(q2) : \A i \in q2[l].lines : l \in 1 .. Len(q) /\ i \in q[l].lines
    OBVIOUS
  <2>2. Spanned(s, q, k, o) => Spanned(s, q2, k, o)
    BY <2>1 DEF Spanned
  <2> QED
    BY <1>1, <1>3, <2>2 DEF Closed
<1> QED
  BY <1>2, <1>3

Frees(H, H2, h) == h \in H /\ \A g \in H : g \in H2 \/ g = h
Filled(s, q, q2, t, p, H2, F2) == <<t, p>> \in H2 \/ \A o \in Nat : q[p].lines = {o} => Closed(s, q2, p, o, F2)

LEMMA WrittenSized ==
  ASSUME NEW s, NEW co \in Codes, NEW co2 \in Codes, NEW ths, NEW H, NEW F, NEW H2, NEW F2 \in SUBSET F,
         NEW t \in 1 .. Len(co), NEW p, NEW size, Sized(co, co2, t, p, size), Written(s, co, ths, H, F),
         Frees(H, H2, <<t, p>>), Filled(s, co[t], co2[t], t, p, H2, F2)
  PROVE  Written(s, co2, ths, H2, F2)
<1>0. /\ <<t, p>> \in H /\ \A h \in H : h \in H2 \/ h = <<t, p>>
      /\ <<t, p>> \in H2 \/ \A o \in Nat : co[t][p].lines = {o} => Closed(s, co2[t], p, o, F2)
  BY DEF Frees, Filled
<1>1. /\ Len(co2) = Len(co)
      /\ \A u \in 1 .. Len(co) :
           /\ Len(co2[u]) = Len(co[u])
           /\ \A k \in 1 .. Len(co[u]) :
                /\ co2[u][k].lines = co[u][k].lines /\ co2[u][k].op = co[u][k].op
                /\ co2[u][k].size = IF u = t /\ k = p THEN size ELSE co[u][k].size
  BY DEF Sized, Relined
<1> SUFFICES ASSUME NEW u \in 1 .. Len(co2), NEW k \in 1 .. Len(co2[u])
             PROVE  /\ co2[u][k].lines # {}
                    /\ co2[u][k].op \in Jumps =>
                         \E o \in Nat : /\ co2[u][k].lines = {o} /\ ThreadOf(s, o) = ths[u].owner
                                        /\ <<u, k>> \in H2 \/ Closed(s, co2[u], k, o, F2)
  BY DEF Written
<1>2. u \in 1 .. Len(co) /\ k \in 1 .. Len(co[u]) /\ co2[u][k].lines = co[u][k].lines /\ co2[u][k].op = co[u][k].op
  BY <1>1, SMTT(30), ZenonT(30)
<1>3. /\ co[u][k].lines # {}
      /\ co[u][k].op \in Jumps =>
           \E o \in Nat : /\ co[u][k].lines = {o} /\ ThreadOf(s, o) = ths[u].owner
                          /\ <<u, k>> \in H \/ Closed(s, co[u], k, o, F)
  BY <1>2 DEF Written
<1>4. SUFFICES ASSUME NEW o \in Nat, co[u][k].lines = {o}, <<u, k>> \in H \/ Closed(s, co[u], k, o, F)
               PROVE  <<u, k>> \in H2 \/ Closed(s, co2[u], k, o, F2)
  BY <1>2, <1>3
<1>5. CASE u = t /\ k = p
  BY <1>0, <1>4, <1>5
<1>6. CASE ~(u = t /\ k = p)
  <2>1. CASE <<u, k>> \in H
    <3>1. <<u, k>> # <<t, p>>
      BY <1>6
    <3> QED
      BY <1>0, <2>1, <3>1
  <2>2. CASE Closed(s, co[u], k, o, F)
    <3>1. Len(co[u]) \in Nat /\ Len(co2[u]) = Len(co[u]) /\ co2[u][k].size = co[u][k].size
      BY <1>1, <1>2, <1>6, CodesAre
    <3>2. \A l \in 1 .. Len(co[u]) : co2[u][l].lines = co[u][l].lines /\ co2[u][l].op = co[u][l].op
      BY <1>1, <1>2
    <3>3. Closed(s, co2[u], k, o, F2)
      BY <1>2, <2>2, <3>1, <3>2, ClosedResized
    <3> QED
      BY <3>3
  <2> QED
    BY <1>4, <2>1, <2>2
<1> QED
  BY <1>5, <1>6

LEMMA HeldRelined ==
  ASSUME NEW co \in Codes, NEW co2 \in Codes, Relined(co, co2), NEW t \in 1 .. Len(co), NEW b, Held(co[t], b)
  PROVE  Held(co2[t], b)
<1>1. Len(co2[t]) = Len(co[t]) /\ \A k \in 1 .. Len(co[t]) : co2[t][k].lines = co[t][k].lines /\ co2[t][k].op = co[t][k].op
  BY DEF Relined
<1> QED
  BY <1>1 DEF Held

(* Fewer lines to come, more builders. *)
LEMMA WrittenLess ==
  ASSUME NEW s, NEW co, NEW ths, NEW H, NEW F, NEW H2, NEW F2 \in SUBSET F, H \subseteq H2, Written(s, co, ths, H, F)
  PROVE  Written(s, co, ths, H2, F2)
<1>1. \A q, k, o : Closed(s, q, k, o, F) => Closed(s, q, k, o, F2)
  BY DEF Closed
<1> QED
  BY <1>1 DEF Written

(* One thread more, which has no jump yet. *)
Jumpless(p) == \A k \in 1 .. Len(p) : p[k].lines # {} /\ p[k].op \notin Jumps
ThreadsKept(ths, ths2, n) == \A u \in 1 .. n : ths2[u] = ths[u]

LEMMA WrittenThread ==
  ASSUME NEW s, NEW co \in Codes, NEW ths, NEW H, NEW F, Written(s, co, ths, H, F),
         NEW p \in Seq(Instrs), Jumpless(p), NEW co2, co2 = Append(co, p), NEW ths2, ThreadsKept(ths, ths2, Len(co))
  PROVE  co2 \in Codes /\ Written(s, co2, ths2, H, F) /\ Len(co2) = Len(co) + 1 /\ \A u \in 1 .. Len(co) : co2[u] = co[u]
<1>1. co2 \in Codes /\ Len(co2) = Len(co) + 1 /\ co2[Len(co) + 1] = p /\ Len(co) \in Nat /\ \A u \in 1 .. Len(co) : co2[u] = co[u]
  <2> DEFINE S == Seq(Instrs)
  <2>1. co \in Seq(S) /\ p \in S
    BY DEF Codes
  <2> HIDE DEF S
  <2>2. co2 \in Seq(S) /\ Len(co2) = Len(co) + 1 /\ co2[Len(co) + 1] = p /\ Len(co) \in Nat /\ \A u \in 1 .. Len(co) : co2[u] = co[u]
    BY <2>1, AppendProperties, LenProperties
  <2> QED
    BY <2>2 DEF S, Codes
<1>2. ASSUME NEW u \in 1 .. Len(co2), NEW k \in 1 .. Len(co2[u])
      PROVE  /\ co2[u][k].lines # {}
             /\ co2[u][k].op \in Jumps =>
                  \E o \in Nat : /\ co2[u][k].lines = {o} /\ ThreadOf(s, o) = ths2[u].owner
                                 /\ <<u, k>> \in H \/ Closed(s, co2[u], k, o, F)
  <2>1. CASE u = Len(co) + 1
    BY <1>1, <2>1 DEF Jumpless
  <2>2. CASE u # Len(co) + 1
    <3>1. u \in 1 .. Len(co) /\ co2[u] = co[u] /\ ths2[u] = ths[u] /\ k \in 1 .. Len(co[u])
      BY <1>1, <2>2 DEF ThreadsKept
    <3>2. /\ co[u][k].lines # {}
          /\ co[u][k].op \in Jumps =>
               \E o \in Nat : /\ co[u][k].lines = {o} /\ ThreadOf(s, o) = ths[u].owner
                              /\ <<u, k>> \in H \/ Closed(s, co[u], k, o, F)
      BY <3>1 DEF Written
    <3> QED
      BY ONLY <3>1, <3>2, Zenon
  <2> QED
    BY <2>1, <2>2
<1> QED
  BY <1>1, <1>2 DEF Written
-----------------------------------------------------------------------------
(* How far the builders have come.  The lines of a block are behind its    *)
(* builder's first and before that of the next; the threads that were      *)
(* opened since a block was stand in it; the first part of an if has had   *)
(* no else.                                                                *)
Reaching(s, ths, bs, c) ==
  /\ \A d \in 1 .. Len(bs) :
       /\ bs[d].begin <= c
       /\ \A i \in bs[d].pending : bs[d].begin <= i /\ i < c
       /\ \A e \in d + 1 .. Len(bs) : bs[d].begin < bs[e].begin /\ \A i \in bs[d].pending : i < bs[e].begin - 1
  /\ \A d \in 2 .. Len(bs) :
       /\ bs[d].kind \notin SubThreads => \A u \in bs[d].known + 1 .. Len(ths) : Opener(bs, d) < ths[u].owner
       /\ bs[d].kind = "if" =>
            \A f \in bs[d].begin .. c - 1 : s[f] = "else" => Innermost(s, f, Openers) # Opener(bs, d)

Stay(s, co, ths) ==
  /\ \A t \in 1 .. Len(co) : Len(co[t]) <= Inline
  /\ \A t \in 1 .. Len(co) : ths[t].owner # 0 => Shelters(s, ths[t].owner) = {}
Fits(s, co, ths, bs, c) == Written(s, co, ths, Places(bs), Fresh(bs, c)) /\ HeldAll(co, bs)
Fit(s, co, ths, bs) == Reaching(s, ths, bs, Cur(bs)) /\ (Stay(s, co, ths) => Fits(s, co, ths, bs, Cur(bs)))

(* The first m builders stay, one more may have opened at line c.          *)
Alike(b, b2) ==
  /\ b2.kind = b.kind /\ b2.thread = b.thread /\ b2.begin = b.begin /\ b2.first = b.first
  /\ b2.place = b.place /\ b2.count = b.count /\ b2.known = b.known
Carries(bs, bs2, m, c, c2) ==
  /\ m \in Nat /\ m <= Len(bs) /\ c \in Nat /\ c2 \in Nat /\ c < c2
  /\ \/ Len(bs2) = m
     \/ Len(bs2) = m + 1 /\ c2 = c + 1 /\ bs2[m + 1].begin = c2 /\ bs2[m + 1].pending = {}
  /\ \A d \in 1 .. m : Alike(bs[d], bs2[d]) /\ \A i \in bs2[d].pending : i \in bs[d].pending \/ (i = c /\ d = Len(bs2))

LEMMA PassedAlike ==
  ASSUME NEW b \in Builders, NEW lines
  PROVE  Alike(b, Passed(b, lines))
BY DEF Alike, Passed, Builders

LEMMA CarriesOnto ==
  ASSUME NEW bs, NEW bs2, NEW b, Len(bs) \in Nat \ {0}, Onto(bs, bs2, b), Alike(bs[Len(bs)], b), NEW c \in Nat,
         \A i \in b.pending : i \in bs[Len(bs)].pending \/ i = c, NEW c2 \in Nat, c < c2
  PROVE  Carries(bs, bs2, Len(bs), c, c2)
<1> PICK n : n = Len(bs)
  OBVIOUS
<1>1. n \in Nat \ {0} /\ Len(bs2) = n /\ bs2[n] = b /\ (\A d \in 1 .. n - 1 : bs2[d] = bs[d])
  BY DEF Onto
<1>2. \A d \in 1 .. n : d = n \/ d \in 1 .. n - 1
  BY <1>1
<1>3. \A d \in 1 .. n : Alike(bs[d], bs2[d]) /\ \A i \in bs2[d].pending : i \in bs[d].pending \/ (i = c /\ d = n)
  BY <1>1, <1>2 DEF Alike
<1> QED
  BY <1>1, <1>3 DEF Carries

LEMMA CarriesElse ==
  ASSUME NEW bs, NEW bs2, NEW b, Len(bs) \in Nat \ {0}, Onto(bs, bs2, b), NEW c \in Nat,
         b.begin = c + 1, b.pending = {}
  PROVE  Carries(bs, bs2, Len(bs) - 1, c, c + 1)
<1> PICK m : m = Len(bs) - 1
  OBVIOUS
<1>1. m \in Nat /\ m <= Len(bs) /\ Len(bs) = m + 1 /\ Len(bs2) = m + 1 /\ bs2[m + 1] = b /\ (\A d \in 1 .. m : bs2[d] = bs[d])
  BY DEF Onto
<1>2. \A d \in 1 .. m : Alike(bs[d], bs2[d]) /\ bs2[d].pending = bs[d].pending
  BY <1>1 DEF Alike
<1>3. c + 1 \in Nat /\ c < c + 1
  OBVIOUS
<1> QED
  BY <1>1, <1>2, <1>3 DEF Carries

LEMMA CarriesPushed ==
  ASSUME NEW bs, NEW bs2, NEW below, NEW b, Len(bs) \in Nat \ {0}, Pushed(bs, bs2, below, b), Alike(bs[Len(bs)], below),
         below.pending \subseteq bs[Len(bs)].pending, NEW c \in Nat, b.begin = c + 1, b.pending = {}
  PROVE  Carries(bs, bs2, Len(bs), c, c + 1)
<1> PICK n : n = Len(bs)
  OBVIOUS
<1>1. /\ n \in Nat \ {0} /\ Len(bs2) = n + 1 /\ bs2[n] = below /\ bs2[n + 1] = b
      /\ \A d \in 1 .. n - 1 : bs2[d] = bs[d]
  BY DEF Pushed
<1>2. \A d \in 1 .. n : d = n \/ d \in 1 .. n - 1
  BY <1>1
<1>3. \A d \in 1 .. n : Alike(bs[d], bs2[d]) /\ \A i \in bs2[d].pending : i \in bs[d].pending
  BY <1>1, <1>2 DEF Alike
<1>4. c + 1 \in Nat /\ c < c + 1
  OBVIOUS
<1> QED
  BY <1>1, <1>3, <1>4 DEF Carries

LEMMA CarriesPopped ==
  ASSUME NEW bs, NEW bs2, NEW b, Len(bs) \in Nat, Len(bs) > 1, Popped(bs, bs2, b), Alike(bs[Len(bs) - 1], b),
         b.pending = bs[Len(bs) - 1].pending, NEW c \in Nat
  PROVE  Carries(bs, bs2, Len(bs) - 1, c, c + 1)
<1> PICK m : m = Len(bs) - 1
  OBVIOUS
<1>1. /\ m \in Nat \ {0} /\ m <= Len(bs) /\ Len(bs2) = m /\ bs2[m] = b /\ Len(bs) - 2 = m - 1
      /\ \A d \in 1 .. m - 1 : bs2[d] = bs[d]
  BY DEF Popped
<1>2. \A d \in 1 .. m : d = m \/ d \in 1 .. m - 1
  BY <1>1
<1>3. \A d \in 1 .. m : Alike(bs[d], bs2[d]) /\ bs2[d].pending = bs[d].pending
  BY <1>1, <1>2 DEF Alike
<1>4. c + 1 \in Nat /\ c < c + 1
  OBVIOUS
<1> QED
  BY <1>1, <1>3, <1>4 DEF Carries

LEMMA ReachingCarried ==
  ASSUME NEW s, NEW ths, NEW ths2, NEW bs, NEW bs2, NEW m, NEW c, NEW c2, Len(bs) \in Nat, Len(ths) \in Nat, Len(ths2) \in Nat,
         \A d \in 1 .. Len(bs) : bs[d] \in Builders, Nested(s, bs, c), Reaching(s, ths, bs, c), Carries(bs, bs2, m, c, c2),
         \A u \in 1 .. Len(ths2) : (u \in 1 .. Len(ths) /\ ths2[u] = ths[u]) \/ ths2[u].owner = c,
         Len(bs2) = m + 1 /\ bs2[m + 1].kind \notin SubThreads => bs2[m + 1].known = Len(ths2),
         \A f \in c .. c2 - 1 : s[f] = "else" => \A d \in 2 .. m : Innermost(s, f, Openers) # Opener(bs, d)
  PROVE  Reaching(s, ths2, bs2, c2)
<1>1. m \in Nat /\ m <= Len(bs) /\ c \in Nat /\ c2 \in Nat /\ c < c2 /\ (Len(bs2) = m \/ Len(bs2) = m + 1)
  BY DEF Carries
<1>2. Len(bs2) = m + 1 => c2 = c + 1 /\ bs2[m + 1].begin = c2 /\ bs2[m + 1].pending = {}
  BY <1>1 DEF Carries
<1>3. ASSUME NEW d \in 1 .. m
      PROVE  /\ d \in 1 .. Len(bs) /\ Alike(bs[d], bs2[d]) /\ bs[d].begin \in Nat /\ bs[d].pending \subseteq Nat
             /\ Opener(bs2, d) = Opener(bs, d) /\ bs[d].known \in Nat
             /\ \A i \in bs2[d].pending : i \in bs[d].pending \/ (i = c /\ d = Len(bs2))
  <2>1. d \in 1 .. Len(bs) /\ bs[d] \in Builders
    BY <1>1, SMTT(30), ZenonT(60)
  <2> QED
    BY <2>1, ZenonT(30), SMTT(60) DEF Carries, Alike, Opener, Builders
<1>4. ASSUME NEW d \in 1 .. Len(bs2)
      PROVE  /\ bs2[d].begin <= c2
             /\ \A i \in bs2[d].pending : bs2[d].begin <= i /\ i < c2
  <2>1. CASE d \in 1 .. m
    <3>1. bs2[d].begin = bs[d].begin /\ bs[d].begin \in Nat /\ bs[d].begin <= c
      BY <1>3, <2>1 DEF Reaching, Alike
    <3>2. ASSUME NEW i \in bs2[d].pending PROVE bs2[d].begin <= i /\ i < c2
      <4>1. CASE i = c
        BY <1>1, <3>1, <4>1
      <4>2. CASE i \in bs[d].pending
        <5>1. bs[d].begin <= i /\ i < c /\ i \in Nat
          BY <1>3, <2>1, <4>2 DEF Reaching
        <5> QED
          BY <1>1, <3>1, <5>1
      <4> QED
        BY <1>3, <2>1, <4>1, <4>2
    <3> QED
      BY <1>1, <3>1, <3>2, SMTT(30), ZenonT(30)
  <2>2. CASE d \notin 1 .. m
    <3>1. d = m + 1 /\ Len(bs2) = m + 1
      BY <1>1, <2>2, SMTT(30), ZenonT(30)
    <3> QED
      BY <1>1, <1>2, <3>1
  <2> QED
    BY <2>1, <2>2
<1>5. ASSUME NEW d \in 1 .. Len(bs2), NEW e \in d + 1 .. Len(bs2)
      PROVE  bs2[d].begin < bs2[e].begin /\ \A i \in bs2[d].pending : i < bs2[e].begin - 1
  <2>1. d \in 1 .. m /\ d # Len(bs2)
    BY <1>1, SMTT(30), ZenonT(30)
  <2>2. bs2[d].begin = bs[d].begin /\ bs[d].begin \in Nat /\ bs[d].begin <= c /\ \A i \in bs2[d].pending : i \in bs[d].pending
    BY <1>3, <2>1 DEF Reaching, Alike
  <2>3. \A i \in bs[d].pending : i \in Nat /\ i < c
    BY <1>3, <2>1 DEF Reaching
  <2>4. CASE e \in 1 .. m
    <3>1. e \in d + 1 .. Len(bs) /\ bs2[e].begin = bs[e].begin
      BY <1>1, <1>3, <2>4, SMTT(60) DEF Alike
    <3>2. bs[d].begin < bs[e].begin /\ \A i \in bs[d].pending : i < bs[e].begin - 1
      BY <1>3, <2>1, <3>1 DEF Reaching
    <3> QED
      BY <2>2, <3>1, <3>2
  <2>5. CASE e \notin 1 .. m
    <3>1. e = m + 1 /\ Len(bs2) = m + 1
      BY <1>1, <2>1, <2>5, SMTT(30), ZenonT(30)
    <3>2. bs2[e].begin = c + 1
      BY <1>2, <3>1
    <3> QED
      BY ONLY <1>1, <2>2, <2>3, <3>2, SMTT(60)
  <2> QED
    BY <2>4, <2>5
<1>6. ASSUME NEW d \in 2 .. Len(bs2)
      PROVE  /\ bs2[d].kind \notin SubThreads => \A u \in bs2[d].known + 1 .. Len(ths2) : Opener(bs2, d) < ths2[u].owner
             /\ bs2[d].kind = "if" =>
                  \A f \in bs2[d].begin .. c2 - 1 : s[f] = "else" => Innermost(s, f, Openers) # Opener(bs2, d)
  <2>1. CASE d \in 1 .. m
    <3>1. /\ d \in 2 .. Len(bs) /\ bs2[d].kind = bs[d].kind /\ bs2[d].known = bs[d].known /\ bs2[d].begin = bs[d].begin
          /\ Opener(bs2, d) = Opener(bs, d) /\ Opener(bs, d) \in 1 .. c - 1 /\ bs[d].known \in Nat /\ bs[d].begin \in Nat
      <4>1. d \in 2 .. Len(bs)
        BY <1>1, <2>1
      <4> QED
        BY <1>3, <2>1, <4>1 DEF Alike, Nested
    <3>2. ASSUME bs[d].kind \notin SubThreads, NEW u \in bs[d].known + 1 .. Len(ths2) PROVE Opener(bs, d) < ths2[u].owner
      <4>1. u \in 1 .. Len(ths2)
        BY <3>1, SMTT(30), ZenonT(30)
      <4>2. CASE u \in 1 .. Len(ths) /\ ths2[u] = ths[u]
        <5>1. u \in bs[d].known + 1 .. Len(ths)
          BY <3>1, <4>2
        <5> QED
          BY <3>1, <3>2, <4>2, <5>1 DEF Reaching
      <4>3. CASE ths2[u].owner = c
        BY ONLY <1>1, <3>1, <4>3, SMTT(60)
      <4> QED
        BY <4>1, <4>2, <4>3
    <3>3. ASSUME bs[d].kind = "if", NEW f \in bs[d].begin .. c2 - 1, s[f] = "else" PROVE Innermost(s, f, Openers) # Opener(bs, d)
      <4>1. CASE f < c
        <5>1. f \in bs[d].begin .. c - 1
          BY <1>1, <3>1, <4>1, SMTT(30), ZenonT(30)
        <5> QED
          BY <3>1, <3>3, <5>1 DEF Reaching
      <4>2. CASE ~(f < c)
        <5>1. f \in c .. c2 - 1 /\ d \in 2 .. m
          BY <1>1, <2>1, <3>1, <4>2
        <5> QED
          BY <3>3, <5>1
      <4> QED
        BY <4>1, <4>2
    <3> QED
      BY <3>1, <3>2, <3>3
  <2>2. CASE d \notin 1 .. m
    <3>1. d = m + 1 /\ Len(bs2) = m + 1
      BY <1>1, <2>2
    <3>2. \A u \in Len(ths2) + 1 .. Len(ths2) : FALSE
      OBVIOUS
    <3>3. \A f \in c2 .. c2 - 1 : FALSE
      BY <1>1
    <3> QED
      BY <1>2, <3>1, <3>2, <3>3
  <2> QED
    BY <2>1, <2>2
<1> QED
  BY <1>4, <1>5, <1>6 DEF Reaching

LEMMA FreshCarried ==
  ASSUME NEW bs, NEW bs2, NEW m, NEW c, NEW c2, Len(bs) \in Nat, Carries(bs, bs2, m, c, c2)
  PROVE  Fresh(bs2, c2) \subseteq Fresh(bs, c)
<1>1. m \in Nat /\ m <= Len(bs) /\ c \in Nat /\ c2 \in Nat /\ c < c2 /\ (Len(bs2) = m \/ Len(bs2) = m + 1)
  BY DEF Carries
<1>2. Len(bs2) = m + 1 => c2 = c + 1 /\ bs2[m + 1].begin = c2 /\ bs2[m + 1].pending = {}
  BY <1>1 DEF Carries
<1>3. \A d \in 1 .. Len(bs2) : d \in 1 .. m \/ (d = m + 1 /\ Len(bs2) = m + 1)
  BY <1>1
<1>4. \A d \in 1 .. m : d \in 1 .. Len(bs)
  BY <1>1
<1> SUFFICES ASSUME NEW i \in Fresh(bs2, c2) PROVE i \in Fresh(bs, c)
  OBVIOUS
<1>5. i \in Nat
  BY DEF Fresh
<1>6. CASE i >= c
  BY <1>5, <1>6 DEF Fresh
<1>7. CASE ~(i >= c)
  <2>1. ~(i >= c2)
    BY <1>1, <1>5, <1>7
  <2>2. CASE \E d \in 1 .. Len(bs2) : i \in bs2[d].pending
    <3>1. PICK d \in 1 .. Len(bs2) : i \in bs2[d].pending
      BY <2>2
    <3>2. d \in 1 .. m
      BY <1>2, <1>3, <3>1
    <3>3. i \in bs[d].pending
      BY <1>1, <1>7, <3>1, <3>2 DEF Carries
    <3> QED
      BY <1>4, <1>5, <3>2, <3>3 DEF Fresh
  <2>3. CASE \E d \in 2 .. Len(bs2) : bs2[d].kind \in SubThreads /\ i = bs2[d].begin - 1
    <3>1. PICK d \in 2 .. Len(bs2) : bs2[d].kind \in SubThreads /\ i = bs2[d].begin - 1
      BY <2>3
    <3>2. d \in 1 .. m
      <4>1. ASSUME d = m + 1, Len(bs2) = m + 1 PROVE FALSE
        BY <1>1, <1>2, <1>7, <3>1, <4>1
      <4> QED
        BY <1>1, <1>3, <4>1
    <3>3. d \in 2 .. Len(bs) /\ bs[d].kind \in SubThreads /\ i = bs[d].begin - 1
      BY <1>1, <3>1, <3>2 DEF Carries, Alike
    <3> QED
      BY <1>5, <3>3 DEF Fresh
  <2> QED
    BY <2>1, <2>2, <2>3 DEF Fresh
<1> QED
  BY <1>6, <1>7

(* A step keeps the control blocks of the builders that stay. *)
LEMMA PlacesCarried ==
  ASSUME NEW bs, NEW bs2, NEW m, NEW c, NEW c2, Len(bs) \in Nat, Carries(bs, bs2, m, c, c2)
  PROVE  /\ \A h \in Places(bs) :
              h \in Places(bs2) \/ \E d \in m + 1 .. Len(bs) : h = <<bs[d].thread, bs[d].place>> /\ bs[d].kind \notin SubThreads
         /\ Len(bs2) = m + 1 /\ m > 0 /\ bs2[m + 1].kind \notin SubThreads => <<bs2[m + 1].thread, bs2[m + 1].place>> \in Places(bs2)
<1>1. m \in Nat /\ m <= Len(bs) /\ (Len(bs2) = m \/ Len(bs2) = m + 1)
  BY DEF Carries
<1>2. ASSUME NEW d \in 2 .. Len(bs), bs[d].kind \notin SubThreads, d \in 1 .. m
      PROVE  <<bs[d].thread, bs[d].place>> \in Places(bs2)
  <2>1. d \in 2 .. Len(bs2)
    BY <1>1, <1>2
  <2>2. bs2[d].thread = bs[d].thread /\ bs2[d].place = bs[d].place /\ bs2[d].kind = bs[d].kind
    BY <1>2 DEF Carries, Alike
  <2>3. d \in {e \in 2 .. Len(bs2) : bs2[e].kind \notin SubThreads}
    BY <1>2, <2>1, <2>2
  <2>4. <<bs2[d].thread, bs2[d].place>> \in Places(bs2)
    BY <2>3 DEF Places
  <2> QED
    BY <2>2, <2>4
<1>3. ASSUME NEW h \in Places(bs)
      PROVE  h \in Places(bs2) \/ \E d \in m + 1 .. Len(bs) : h = <<bs[d].thread, bs[d].place>> /\ bs[d].kind \notin SubThreads
  <2>1. PICK d \in 2 .. Len(bs) : bs[d].kind \notin SubThreads /\ h = <<bs[d].thread, bs[d].place>>
    BY DEF Places
  <2>2. d \in 1 .. m \/ d \in m + 1 .. Len(bs)
    BY <1>1
  <2> QED
    BY <1>2, <2>1, <2>2
<1>4. ASSUME Len(bs2) = m + 1, m > 0, bs2[m + 1].kind \notin SubThreads PROVE <<bs2[m + 1].thread, bs2[m + 1].place>> \in Places(bs2)
  <2>1. m + 1 \in {e \in 2 .. Len(bs2) : bs2[e].kind \notin SubThreads}
    BY <1>1, <1>4
  <2> QED
    BY <2>1 DEF Places
<1> QED
  BY <1>3, <1>4

LEMMA HeldCarried ==
  ASSUME NEW co, NEW bs, NEW bs2, NEW m, NEW c, NEW c2, Len(bs) \in Nat, Carries(bs, bs2, m, c, c2), HeldAll(co, bs),
         Len(bs2) = m + 1 /\ bs2[m + 1].kind \notin SubThreads => Held(co[bs2[m + 1].thread], bs2[m + 1])
  PROVE  HeldAll(co, bs2)
<1>1. m \in Nat /\ m <= Len(bs) /\ (Len(bs2) = m \/ Len(bs2) = m + 1)
  BY DEF Carries
<1> SUFFICES ASSUME NEW d \in 2 .. Len(bs2), bs2[d].kind \notin SubThreads PROVE Held(co[bs2[d].thread], bs2[d])
  BY SMTT(30), ZenonT(60) DEF HeldAll
<1>2. CASE d \in 1 .. m
  <2>1. d \in 2 .. Len(bs) /\ Alike(bs[d], bs2[d])
    BY <1>1, <1>2, SMTT(60) DEF Carries
  <2>2. Held(co[bs[d].thread], bs[d])
    BY <2>1 DEF HeldAll, Alike
  <2> QED
    BY <2>1, <2>2, SMTT(30), ZenonT(60) DEF Alike, Held
<1>3. CASE d \notin 1 .. m
  <2>1. d = m + 1 /\ Len(bs2) = m + 1
    BY <1>1, <1>3
  <2> QED
    BY <2>1
<1> QED
  BY <1>2, <1>3

(* The lines a step may write: the one that is read, those that are kept   *)
(* back, the one a sub-thread was opened by.                               *)
Due(bs, c) ==
  LET b == bs[Len(bs)]
  IN  {c} \cup b.pending \cup {i \in Nat : i = b.begin - 1 /\ Len(bs) > 1 /\ b.kind \in SubThreads}

LEMMA DueIsFresh ==
  ASSUME NEW s, NEW ths, NEW bs, NEW c \in Nat, Len(bs) \in Nat \ {0}, \A d \in 1 .. Len(bs) : bs[d] \in Builders,
         Reaching(s, ths, bs, c), NEW i \in Due(bs, c)
  PROVE  /\ i \in Fresh(bs, c)
         /\ \A d \in 2 .. Len(bs) : bs[d].kind \notin SubThreads => i >= bs[d].begin
<1> PICK n : n = Len(bs)
  OBVIOUS
<1>1. n \in Nat \ {0} /\ n \in 1 .. n /\ bs[n].begin \in Nat /\ bs[n].pending \subseteq Nat
  BY SMTT(60) DEF Builders
<1>2. \A d \in 2 .. n : d \in 1 .. n /\ bs[d].begin \in Nat /\ bs[d].begin <= c /\ (d = n \/ n \in d + 1 .. n)
  BY <1>1, SMTT(60) DEF Builders, Reaching
<1>3. \A d \in 2 .. n : d # n => bs[d].begin < bs[n].begin
  BY <1>2 DEF Reaching
<1>4. i = c \/ i \in bs[n].pending \/ (i \in Nat /\ i = bs[n].begin - 1 /\ n > 1 /\ bs[n].kind \in SubThreads)
  BY DEF Due
<1>5. CASE i = c
  BY <1>2, <1>5 DEF Fresh
<1>6. CASE i \in bs[n].pending
  <2>1. i \in Nat /\ bs[n].begin <= i
    BY <1>1, <1>6 DEF Reaching
  <2>2. i \in Fresh(bs, c)
    BY <1>1, <1>6, <2>1 DEF Fresh
  <2> QED
    BY <1>1, <1>2, <1>3, <2>1, <2>2
<1>7. CASE i \in Nat /\ i = bs[n].begin - 1 /\ n > 1 /\ bs[n].kind \in SubThreads
  <2>1. n \in 2 .. n
    BY <1>1, <1>7
  <2>2. i \in Fresh(bs, c)
    BY <1>7, <2>1 DEF Fresh
  <2> QED
    BY <1>1, <1>2, <1>3, <1>7, <2>2, SMTT(30), ZenonT(30)
<1> QED
  BY <1>4, <1>5, <1>6, <1>7

(* The builders a step starts from; what it may write. *)
Ready(s, ths, bs, c, co) ==
  /\ c \in Nat /\ Len(bs) \in Nat \ {0} /\ co \in Codes /\ Reaching(s, ths, bs, c)
  /\ \A d \in 1 .. Len(bs) : bs[d] \in Builders /\ bs[d].thread \in 1 .. Len(co)
LinesIn(xs, L) == \A k \in 1 .. Len(xs) : xs[k].lines # {} /\ xs[k].lines \subseteq L
JumpsIn(s, q, m, t, w, H, F, xs) ==
  \A k \in 1 .. Len(xs) : xs[k].op \in Jumps =>
    \E o \in Nat : /\ xs[k].lines = {o} /\ ThreadOf(s, o) = w
                   /\ <<t, m + k>> \in H \/ Closed(s, q, m + k, o, F)

LEMMA FitsOn ==
  ASSUME NEW s, NEW ths, NEW bs, NEW c, NEW co, Ready(s, ths, bs, c, co), NEW co2 \in Codes,
         NEW t \in 1 .. Len(co), NEW xs \in Seq(Instrs), Extended(co, co2, t, xs), NEW H, NEW F,
         Written(s, co, ths, H, F), HeldAll(co, bs), LinesIn(xs, F), LinesIn(xs, Due(bs, c)),
         JumpsIn(s, co2[t], Len(co[t]), t, ths[t].owner, H, F, xs)
  PROVE  Written(s, co2, ths, H, F) /\ HeldAll(co2, bs)
<1>1. co \in Codes
  BY DEF Ready
<1>2. Written(s, co2, ths, H, F)
  BY <1>1, WrittenExtended DEF LinesIn, JumpsIn
<1>3. \A d \in 2 .. Len(bs) : bs[d].kind \notin SubThreads =>
        \A k \in 1 .. Len(xs) : \A i \in xs[k].lines : i >= bs[d].begin
  BY DueIsFresh DEF Ready, LinesIn
<1>4. \A d \in 2 .. Len(bs) : bs[d].thread \in 1 .. Len(co)
  BY DEF Ready
<1>5. HeldAll(co2, bs)
  BY <1>1, <1>3, <1>4, HeldExtended
<1> QED
  BY <1>2, <1>5

LEMMA FitsFlushed ==
  ASSUME NEW s, NEW ths, NEW bs, NEW c, NEW co, Ready(s, ths, bs, c, co), NEW co2 \in Codes,
         FlushedTo(co, co2, bs[Len(bs)]), NEW H, NEW F, Due(bs, c) \subseteq F,
         Written(s, co, ths, H, F), HeldAll(co, bs)
  PROVE  Written(s, co2, ths, H, F) /\ HeldAll(co2, bs)
<1> PICK b : b = bs[Len(bs)]
  OBVIOUS
<1>1. CASE b.pending = {}
  BY <1>1 DEF FlushedTo
<1>2. CASE b.pending # {}
  <2>1. PICK x \in Instrs : x.op = "set" /\ x.lines = b.pending /\ Extended(co, co2, b.thread, <<x>>)
    BY <1>2 DEF FlushedTo
  <2> PICK t, xs : t = b.thread /\ xs = <<x>>
    OBVIOUS
  <2>2. xs \in Seq(Instrs) /\ Len(xs) = 1 /\ \A k \in 1 .. Len(xs) : xs[k] = x
    OBVIOUS
  <2>3. b.pending \subseteq Due(bs, c) /\ t \in 1 .. Len(co)
    BY DEF Due, Ready
  <2>4. LinesIn(xs, F) /\ LinesIn(xs, Due(bs, c))
    BY <1>2, <2>1, <2>2, <2>3 DEF LinesIn
  <2>5. JumpsIn(s, co2[t], Len(co[t]), t, ths[t].owner, H, F, xs)
    BY <2>1, <2>2 DEF Jumps, JumpsIn
  <2>6. Extended(co, co2, t, xs)
    BY <2>1
  <2> QED
    BY <2>2, <2>3, <2>4, <2>5, <2>6, FitsOn, ZenonT(60)
<1> QED
  BY <1>1, <1>2

(* More threads, more instructions. *)
Grown(co, co2) == Len(co) <= Len(co2) /\ \A t \in 1 .. Len(co) : Len(co[t]) <= Len(co2[t])

LEMMA GrownBy ==
  ASSUME NEW co \in Codes, NEW co2 \in Codes
  PROVE  /\ Grown(co, co)
         /\ Relined(co, co2) => Grown(co, co2)
         /\ \A b : FlushedTo(co, co2, b) => Grown(co, co2)
         /\ \A co3 \in Codes : Grown(co, co2) /\ Grown(co2, co3) => Grown(co, co3)
<1>1. Len(co) \in Nat /\ \A t \in 1 .. Len(co) : Len(co[t]) \in Nat
  BY CodesAre
<1>2. Len(co2) \in Nat /\ \A t \in 1 .. Len(co2) : Len(co2[t]) \in Nat
  BY CodesAre
<1>3. Grown(co, co) /\ (Relined(co, co2) => Grown(co, co2))
  BY <1>1 DEF Grown, Relined
<1>4. ASSUME NEW b, FlushedTo(co, co2, b) PROVE Grown(co, co2)
  <2>1. CASE b.pending = {}
    BY <1>3, <1>4, <2>1 DEF FlushedTo
  <2>2. CASE b.pending # {}
    <3>1. PICK x \in Instrs : Extended(co, co2, b.thread, <<x>>)
      BY <1>4, <2>2 DEF FlushedTo
    <3>2. \A u \in 1 .. Len(co) : Len(co2[u]) = Len(co[u]) \/ Len(co2[u]) = Len(co[u]) + 1
      BY <3>1 DEF Extended
    <3> QED
      BY <1>1, <3>1, <3>2, SMTT(60) DEF Grown, Extended
  <2> QED
    BY <2>1, <2>2
<1>5. ASSUME NEW co3 \in Codes, Grown(co, co2), Grown(co2, co3) PROVE Grown(co, co3)
  <2>1. Len(co3) \in Nat /\ \A t \in 1 .. Len(co3) : Len(co3[t]) \in Nat
    BY CodesAre
  <2>2. \A t \in 1 .. Len(co) : t \in 1 .. Len(co2) /\ t \in 1 .. Len(co3)
    BY <1>1, <1>2, <1>5, <2>1 DEF Grown
  <2> QED
    BY <1>1, <1>2, <1>5, <2>1, <2>2, SMTT(60) DEF Grown
<1> QED
  BY <1>3, <1>4, <1>5

LEMMA GrownExtended ==
  ASSUME NEW co \in Codes, NEW co2, NEW t, NEW xs \in Seq(Instrs), Extended(co, co2, t, xs)
  PROVE  Grown(co, co2)
<1>1. Len(co) \in Nat /\ Len(xs) \in Nat /\ \A u \in 1 .. Len(co) : Len(co[u]) \in Nat
  BY CodesAre, LenProperties
<1>2. \A u \in 1 .. Len(co) : Len(co2[u]) = Len(co[u]) \/ Len(co2[u]) = Len(co[u]) + Len(xs)
  BY DEF Extended
<1> QED
  BY <1>1, <1>2 DEF Grown, Extended

LEMMA StayBack ==
  ASSUME NEW s, NEW co \in Codes, NEW co2 \in Codes, NEW ths, NEW ths2, Grown(co, co2),
         \A u \in 1 .. Len(co) : ths2[u].owner = ths[u].owner, Stay(s, co2, ths2)
  PROVE  Stay(s, co, ths)
<1>1. Len(co) \in Nat /\ \A t \in 1 .. Len(co) : Len(co[t]) \in Nat
  BY CodesAre
<1>2. Len(co2) \in Nat /\ \A t \in 1 .. Len(co2) : Len(co2[t]) \in Nat
  BY CodesAre
<1>3. \A t \in 1 .. Len(co) : t \in 1 .. Len(co2)
  BY <1>1, <1>2 DEF Grown
<1>4. Inline \in Nat
  BY SizesAssumption
<1>5. ASSUME NEW t \in 1 .. Len(co) PROVE Len(co[t]) <= Inline
  BY <1>1, <1>2, <1>3, <1>4 DEF Grown, Stay
<1>6. ASSUME NEW t \in 1 .. Len(co), ths[t].owner # 0 PROVE Shelters(s, ths[t].owner) = {}
  BY <1>3, <1>6 DEF Stay
<1> QED
  BY <1>5, <1>6 DEF Stay

(* No reference dangles while none moved: a thread that was opened since   *)
(* the block was would stand in it.                                        *)
LEMMA Unmoves ==
  ASSUME Working, Reaching(script, threads, builders, Cursor), Top.kind \notin SubThreads \cup {"thread"},
         NEW now \in Codes, Len(now) = Len(code), Len(now[Top.thread]) <= Inline,
         \A u \in 1 .. Len(code) : threads[u].owner # 0 => Shelters(script, threads[u].owner) = {}
  PROVE  ~Moved(Top, now)
<1> PICK n, c : n = Len(builders) /\ c = Cursor
  OBVIOUS
<1>1. /\ Script(script) /\ Balanced(script) /\ n \in Nat \ {0} /\ Top = builders[n] /\ c = Cur(builders) /\ c \in Nat \ {0}
      /\ Len(code) \in Nat /\ Len(code) = Len(threads) /\ Top \in Builders /\ Top.thread \in 1 .. Len(now)
  BY StepFrom
<1>2. Stacked(script, builders) /\ Owned(script, threads, builders, c)
  BY <1>1 DEF Working, Good
<1>3. Nested(script, builders, c)
  BY <1>1, <1>2, CursorIs
<1>4. Len(now[Top.thread]) \in Nat /\ Inline \in Nat /\ Top.known \in Nat
  BY <1>1, SizesAssumption, CodesAre DEF Builders
<1>5. n # 1
  BY <1>1, <1>2 DEF Stacked
<1>6. n \in 2 .. n
  BY ONLY <1>1, <1>5
<1> PICK o : o = Opener(builders, n)
  OBVIOUS
<1>7. /\ o \in 1 .. c - 1 /\ script[o] \in Openers /\ c <= EndOf(script, o)
      /\ \A u \in Top.known + 1 .. Len(threads) : o < threads[u].owner
  BY <1>1, <1>3, <1>6 DEF Nested, Reaching
<1>8. script[o] \notin SubThreads
  BY <1>1, <1>2, <1>6 DEF Stacked, Kindly, SubThreads
<1>9. EndOf(script, o) \in Nat
  <2>1. Lines(script) = 1 .. Len(script) /\ Len(script) \in Nat
    BY <1>1, LinesAre
  <2>2. o \in Lines(script)
    <3>1. c \in 1 .. Len(script) + 1
      BY <1>1, <1>2 DEF Stacked, Cur
    <3> QED
      BY <1>7, <2>1, <3>1
  <2> QED
    BY ONLY <1>1, <1>7, <2>1, <2>2, EndOfBlock, SMTT(60)
<1>10. ASSUME NEW m \in Moves, Top.known < m, m <= Len(now) PROVE FALSE
  <2>1. m \in Nat
    BY SizesAssumption
  <2>2. Top.known + 1 \in Top.known + 1 .. Len(threads) /\ Top.known + 1 \in 1 .. Len(code)
    BY <1>1, <1>4, <1>10, <2>1, SMTT(60)
  <2> PICK w : w = threads[Top.known + 1].owner
    OBVIOUS
  <2>3. o < w /\ w \in Nat /\ w < c
    <3>1. Top.known + 1 \in DOMAIN threads
      BY <1>1, <1>2, <2>2, OwnersAre
    <3>2. threads[Top.known + 1].owner \in Nat
      BY <1>2, <3>1, OwnersAre
    <3> QED
      BY <1>2, <1>7, <2>2, <3>1, <3>2 DEF Owned
  <2>4. o \in Shelters(script, w)
    <3>1. o \in 1 .. w - 1 /\ w < EndOf(script, o)
      <4>1. o \in Nat /\ o >= 1 /\ c \in Nat
        BY <1>1, <1>7
      <4>2. c <= EndOf(script, o)
        BY <1>7
      <4> PICK e : e = EndOf(script, o)
        OBVIOUS
      <4>3. e \in Nat /\ c <= e
        BY <1>9, <4>2
      <4>4. o \in 1 .. w - 1 /\ w < e
        BY ONLY <2>3, <4>1, <4>3
      <4> QED
        BY <4>4
    <3> QED
      BY <1>7, <1>8, <3>1 DEF Shelters, Around
  <2>5. w # 0
    BY <1>1, <1>7, <2>3, SMTT(30), ZenonT(30)
  <2> QED
    BY <2>2, <2>4, <2>5
<1> QED
  BY <1>4, <1>10 DEF Moved

(* An else is of the block of the innermost builder. *)
LEMMA ElseIsOfTop ==
  ASSUME Working, Cursor \in Lines(script), script[Cursor] = "else"
  PROVE  /\ Len(builders) > 1 /\ Kindly(script, builders, Len(builders))
         /\ Innermost(script, Cursor, Openers) = Opener(builders, Len(builders))
         /\ script[Opener(builders, Len(builders))] = "if"
<1> PICK n, o : n = Len(builders) /\ o = Innermost(script, Cursor, Openers)
  OBVIOUS
<1>1. /\ Script(script) /\ Balanced(script) /\ n \in Nat \ {0} /\ Cursor = Cur(builders) /\ Stacked(script, builders)
  BY StepFrom DEF Working, Good
<1>2. Nested(script, builders, Cursor)
  BY <1>1, CursorIs
<1>3. o = Block(builders, n)
  BY <1>1, <1>2, CursorBlock
<1>4. o # 0 /\ script[o] = "if"
  BY <1>1 DEF Balanced
<1>5. n # 1
  BY <1>3, <1>4 DEF Block
<1>6. n \in 2 .. n /\ n > 1
  BY ONLY <1>1, <1>5
<1>7. Kindly(script, builders, n) /\ o = Opener(builders, n)
  BY <1>1, <1>3, <1>5, <1>6 DEF Stacked, Block
<1> QED
  BY <1>4, <1>6, <1>7

(* The threads a step leaves, one of line c more at most. *)
MoreThreads(ths, ths2, c) ==
  /\ Len(ths2) \in Nat
  /\ \A u \in 1 .. Len(ths) : ths2[u] = ths[u]
  /\ \A u \in 1 .. Len(ths2) : u \in 1 .. Len(ths) \/ ths2[u].owner = c
NoElse(s, bs, m, c, c2) == \A f \in c .. c2 - 1 : s[f] = "else" => \A d \in 2 .. m : Innermost(s, f, Openers) # Opener(bs, d)

LEMMA FitNext ==
  ASSUME Working, Fit(script, code, threads, builders), NEW co2 \in Codes, NEW ths2, NEW bs2, NEW m, NEW c2,
         Carries(builders, bs2, m, Cursor, c2), Cur(bs2) = c2, Grown(code, co2), MoreThreads(threads, ths2, Cursor),
         Len(bs2) = m + 1 /\ bs2[m + 1].kind \notin SubThreads => bs2[m + 1].known = Len(ths2),
         NoElse(script, builders, m, Cursor, c2),
         /\ Stay(script, co2, ths2) /\ Ready(script, threads, builders, Cursor, code)
         /\ Written(script, code, threads, Places(builders), Fresh(builders, Cursor)) /\ HeldAll(code, builders)
         => Written(script, co2, ths2, Places(bs2), Fresh(bs2, c2)) /\ HeldAll(co2, bs2)
  PROVE  Fit(script, co2, ths2, bs2)
<1> PICK n, c : n = Len(builders) /\ c = Cursor
  OBVIOUS
<1>1. /\ Script(script) /\ Balanced(script) /\ n \in Nat \ {0} /\ c = Cur(builders) /\ c \in Nat \ {0} /\ code \in Codes
      /\ Len(code) \in Nat /\ Len(code) = Len(threads) /\ Depth = n
      /\ \A d \in 1 .. n : builders[d] \in Builders /\ builders[d].thread \in 1 .. Len(code)
  BY StepFrom
<1>2. Nested(script, builders, c)
  <2>1. Stacked(script, builders)
    BY DEF Working, Good
  <2> QED
    BY <1>1, <2>1, CursorIs
<1>3. Reaching(script, threads, builders, c) /\ (Stay(script, code, threads) => Fits(script, code, threads, builders, c))
  BY <1>1 DEF Fit
<1>4. Reaching(script, ths2, bs2, c2)
  <2>1. /\ Len(builders) \in Nat /\ Len(threads) \in Nat /\ Len(ths2) \in Nat
        /\ \A d \in 1 .. Len(builders) : builders[d] \in Builders
        /\ \A u \in 1 .. Len(ths2) : (u \in 1 .. Len(threads) /\ ths2[u] = threads[u]) \/ ths2[u].owner = c
        /\ Carries(builders, bs2, m, c, c2)
    BY <1>1 DEF MoreThreads
  <2>2. \A f \in c .. c2 - 1 : script[f] = "else" => \A d \in 2 .. m : Innermost(script, f, Openers) # Opener(builders, d)
    BY DEF NoElse
  <2> QED
    BY <1>2, <1>3, <2>1, <2>2, ReachingCarried
<1>5. ASSUME Stay(script, co2, ths2) PROVE Fits(script, co2, ths2, bs2, c2)
  <2>1. \A u \in 1 .. Len(code) : ths2[u].owner = threads[u].owner
    BY <1>1 DEF MoreThreads
  <2>2. Stay(script, code, threads)
    BY <1>1, <1>5, <2>1, StayBack
  <2>3. Ready(script, threads, builders, Cursor, code)
    BY <1>1, <1>3 DEF Ready
  <2> QED
    BY <1>3, <1>5, <2>2, <2>3 DEF Fits
<1> QED
  BY <1>4, <1>5 DEF Fit

(* A step that writes nothing. *)
LEMMA FitSame ==
  ASSUME Working, Fit(script, code, threads, builders), NEW bs2, NEW c2,
         Carries(builders, bs2, Len(builders), Cursor, c2), Cur(bs2) = c2, Len(bs2) = Len(builders),
         NoElse(script, builders, Len(builders), Cursor, c2)
  PROVE  Fit(script, code, threads, bs2)
<1> PICK n : n = Len(builders)
  OBVIOUS
<1>1. n \in Nat /\ code \in Codes /\ Len(code) = Len(threads) /\ Len(code) \in Nat /\ Len(bs2) # n + 1
  BY StepFrom
<1>2. Grown(code, code) /\ MoreThreads(threads, threads, Cursor)
  BY <1>1, GrownBy DEF MoreThreads
<1>3. ASSUME Written(script, code, threads, Places(builders), Fresh(builders, Cursor)), HeldAll(code, builders)
      PROVE  Written(script, code, threads, Places(bs2), Fresh(bs2, c2)) /\ HeldAll(code, bs2)
  <2>1. Fresh(bs2, c2) \subseteq Fresh(builders, Cursor)
    BY <1>1, FreshCarried
  <2>2. \A d \in n + 1 .. n : FALSE
    BY <1>1
  <2>3. Places(builders) \subseteq Places(bs2)
    BY <1>1, <2>2, PlacesCarried
  <2>4. HeldAll(code, bs2)
    BY <1>1, <1>3, HeldCarried
  <2> QED
    BY <1>3, <2>1, <2>3, <2>4, WrittenLess
<1> PICK m : m = Len(builders)
  OBVIOUS
<1>4. ~(Len(bs2) = m + 1) /\ code \in Codes /\ Carries(builders, bs2, m, Cursor, c2) /\ NoElse(script, builders, m, Cursor, c2)
  BY <1>1
<1>5. Len(bs2) = m + 1 /\ bs2[m + 1].kind \notin SubThreads => bs2[m + 1].known = Len(threads)
  BY <1>4
<1>6. /\ Stay(script, code, threads) /\ Ready(script, threads, builders, Cursor, code)
      /\ Written(script, code, threads, Places(builders), Fresh(builders, Cursor)) /\ HeldAll(code, builders)
      => Written(script, code, threads, Places(bs2), Fresh(bs2, c2)) /\ HeldAll(code, bs2)
  BY <1>3
<1> QED
  BY ONLY Working, Fit(script, code, threads, builders), Cur(bs2) = c2, <1>2, <1>4, <1>5, <1>6, FitNext

LEMMA BlankFits ==
  ASSUME Working, Fit(script, code, threads, builders), Blank
  PROVE  Fit(script, code', threads', builders')
<1> PICK bs2, c2 : bs2 = builders' /\ c2 = Cursor + 1
  OBVIOUS
<1> DEFINE b == Passed(Top, 1)
<1>1. Reading /\ Line \in {"blank", "else"} /\ Replaced(builders, Depth, b, bs2) /\ code' = code /\ threads' = threads
  BY DEF Blank, Onward, Replaced
<1>2. /\ Script(script) /\ Balanced(script) /\ Len(builders) \in Nat \ {0} /\ Top = builders[Len(builders)] /\ Depth = Len(builders)
      /\ builders \in Seq(Builders) /\ Len(builders) > 0 /\ Top \in Builders /\ Cursor \in Nat \ {0} /\ Cursor = Top.begin + Top.done
      /\ Top.begin \in Nat /\ Top.done \in Nat
  BY StepFrom
<1>3. b \in Builders /\ Alike(Top, b) /\ b.begin = Top.begin /\ b.done = Top.done + 1 /\ b.pending = Top.pending
  <2>1. Top \in Builders /\ 1 \in Nat
    BY <1>2
  <2>2. b \in Builders /\ b.begin = Top.begin /\ b.done = Top.done + 1 /\ b.pending = Top.pending
    BY ONLY <2>1, PassedShape
  <2>3. Alike(Top, b)
    BY ONLY <2>1, PassedAlike
  <2> QED
    BY <2>2, <2>3
<1> HIDE DEF b
<1>4. Onto(builders, bs2, b)
  BY <1>1, <1>2, <1>3, OntoBy
<1>5. c2 \in Nat /\ Cursor \in Nat /\ Cursor < c2 /\ \A f \in Cursor .. c2 - 1 : f = Cursor
  BY <1>2
<1>6. Carries(builders, bs2, Len(builders), Cursor, c2)
  BY <1>2, <1>3, <1>4, <1>5, CarriesOnto
<1>7. Cur(bs2) = c2 /\ Len(bs2) = Len(builders)
  <2>1. Len(bs2) = Len(builders) /\ bs2[Len(builders)] = b
    BY <1>4 DEF Onto
  <2> QED
    BY <1>2, <1>3, <2>1, SMTT(60) DEF Cur, At
<1>8. script[Cursor] # "else"
  <2>1. ASSUME script[Cursor] = "else" PROVE FALSE
    <3>1. Cursor \in Lines(script) /\ Line = "else"
      BY <1>1, <2>1, Reads
    <3>2. Top.kind \notin {"if", "else"}
      BY <3>1 DEF Blank
    <3>3. Kindly(script, builders, Len(builders)) /\ script[Opener(builders, Len(builders))] = "if"
      BY <2>1, <3>1, ElseIsOfTop
    <3> QED
      BY <1>2, <3>2, <3>3 DEF Kindly
  <2> QED
    BY <2>1
<1>9. NoElse(script, builders, Len(builders), Cursor, c2)
  BY <1>5, <1>8 DEF NoElse
<1> QED
  BY <1>1, <1>6, <1>7, <1>9, FitSame

(* What is emitted: the lines that are kept back, and the line that is     *)
(* read.                                                                   *)
LEMMA EmitFits ==
  ASSUME Working, NEW xs \in Seq(Instrs), NEW co2, co2 = Emit(Top.thread, Top, Line, xs)
  PROVE  /\ co2 \in Codes /\ Len(co2) = Len(code) /\ Grown(code, co2)
         /\ \A H : /\ LinesIn(xs, {Cursor}) /\ Ready(script, threads, builders, Cursor, code)
                   /\ Written(script, code, threads, H, Fresh(builders, Cursor)) /\ HeldAll(code, builders)
                   /\ \A k \in 1 .. Len(xs) : xs[k].op \in Jumps =>
                        /\ ThreadOf(script, Cursor) = threads[Top.thread].owner
                        /\ Len(xs) = 1 /\ <<Top.thread, Len(co2[Top.thread])>> \in H
                   => Written(script, co2, threads, H, Fresh(builders, Cursor)) /\ HeldAll(co2, builders)
<1> PICK t, c, F : t = Top.thread /\ c = Cursor /\ F = Fresh(builders, Cursor)
  OBVIOUS
<1>1. /\ code \in Codes /\ Top \in Builders /\ t \in 1 .. Len(code) /\ Len(builders) \in Nat \ {0}
      /\ Top = builders[Len(builders)] /\ c \in Nat /\ \A d \in 1 .. Len(builders) : builders[d] \in Builders
  BY StepFrom
<1>2. co2 \in Codes
  BY <1>1, EmitShape
<1>3. PICK mid \in Codes : EmittedTo(code, mid, Top, Line) /\ Len(mid) = Len(code) /\ Extended(mid, co2, t, xs)
  BY <1>1, EmitShape
<1>4. Len(co2) = Len(code) /\ Len(xs) \in Nat /\ Len(mid[t]) \in Nat /\ t \in 1 .. Len(mid) /\ Len(co2[t]) = Len(mid[t]) + Len(xs)
  BY <1>1, <1>3, CodesAre, LenProperties DEF Extended
<1>5. Grown(code, co2)
  <2>1. Grown(code, mid)
    BY <1>1, <1>3, GrownBy DEF EmittedTo
  <2>2. Grown(mid, co2)
    BY <1>3, GrownExtended
  <2> QED
    BY <1>1, <1>2, <1>3, <2>1, <2>2, GrownBy
<1>6. ASSUME NEW H, LinesIn(xs, {Cursor}), Ready(script, threads, builders, c, code),
             Written(script, code, threads, H, F), HeldAll(code, builders),
             \A k \in 1 .. Len(xs) : xs[k].op \in Jumps =>
                        /\ ThreadOf(script, Cursor) = threads[Top.thread].owner
                        /\ Len(xs) = 1 /\ <<Top.thread, Len(co2[Top.thread])>> \in H
      PROVE  Written(script, co2, threads, H, F) /\ HeldAll(co2, builders)
  <2>1. Due(builders, c) \subseteq F
    <3>1. Reaching(script, threads, builders, c)
      BY <1>6 DEF Ready
    <3> QED
      BY <1>1, <3>1, DueIsFresh
  <2>2. Written(script, mid, threads, H, F) /\ HeldAll(mid, builders)
    <3>1. CASE Line \in Commands
      <4>1. FlushedTo(code, mid, builders[Len(builders)])
        BY <1>1, <1>3, <3>1 DEF EmittedTo
      <4> QED
        BY <1>6, <2>1, <4>1, FitsFlushed
    <3>2. CASE Line \notin Commands
      BY <1>3, <1>6, <3>2 DEF EmittedTo
    <3> QED
      BY <3>1, <3>2
  <2>3. Ready(script, threads, builders, c, mid)
    BY <1>3, <1>6 DEF Ready
  <2>4. c \in Due(builders, c)
    BY DEF Due
  <2>5. LinesIn(xs, F) /\ LinesIn(xs, Due(builders, c))
    BY <1>6, <2>1, <2>4 DEF LinesIn
  <2>6. JumpsIn(script, co2[t], Len(mid[t]), t, threads[t].owner, H, F, xs)
    <3> SUFFICES ASSUME NEW k \in 1 .. Len(xs), xs[k].op \in Jumps
                 PROVE  /\ xs[k].lines = {c} /\ ThreadOf(script, c) = threads[t].owner
                        /\ <<t, Len(mid[t]) + k>> \in H
      BY <1>1 DEF JumpsIn
    <3>1. ThreadOf(script, c) = threads[t].owner /\ Len(xs) = 1 /\ <<t, Len(co2[t])>> \in H
      BY <1>6
    <3>2. k = 1 /\ Len(mid[t]) + k = Len(co2[t])
      BY <1>4, <3>1
    <3> QED
      BY <1>6, <3>1, <3>2 DEF LinesIn
  <2> QED
    BY <1>2, <1>3, <1>4, <2>2, <2>3, <2>5, <2>6, FitsOn
<1> QED
  BY <1>2, <1>4, <1>5, <1>6

(* A line that opens no block and emits what is no jump.                   *)
LEMMA PlainFits ==
  ASSUME Working, Fit(script, code, threads, builders), NEW xs \in Seq(Instrs), LinesIn(xs, {Cursor}),
         \A k \in 1 .. Len(xs) : xs[k].op \notin Jumps, NEW co2, co2 = Emit(Top.thread, Top, Line, xs),
         NEW b, NEW bs2, Onto(builders, bs2, b), Alike(Top, b), b.pending \subseteq Top.pending,
         NEW lines \in Nat \ {0}, b.done = Top.done + lines,
         \A f \in Cursor .. (Cursor + lines) - 1 : script[f] # "else"
  PROVE  Fit(script, co2, threads, bs2)
<1> PICK m, c, c2 : m = Len(builders) /\ c = Cursor /\ c2 = Cursor + lines
  OBVIOUS
<1>1. /\ code \in Codes /\ m \in Nat \ {0} /\ Len(code) = Len(threads) /\ Len(code) \in Nat
      /\ Top = builders[m] /\ c \in Nat /\ c = Top.begin + Top.done /\ Top.begin \in Nat /\ Top.done \in Nat
  BY StepFrom
<1>2. Len(bs2) = m /\ bs2[m] = b
  BY DEF Onto
<1>3. Cur(bs2) = c2
  BY <1>1, <1>2, SMTT(60) DEF Cur, At, Alike
<1>4. c2 \in Nat /\ c < c2
  BY <1>1, SMTT(30), ZenonT(60)
<1>5. Carries(builders, bs2, m, c, c2)
  <2>1. \A i \in b.pending : i \in builders[Len(builders)].pending \/ i = c
    BY <1>1
  <2> QED
    BY <1>1, <1>4, <2>1, CarriesOnto
<1>6. NoElse(script, builders, m, c, c2)
  <2>1. \A f \in c .. c2 - 1 : script[f] # "else"
    OBVIOUS
  <2> QED
    BY <2>1 DEF NoElse
<1>7. co2 \in Codes /\ Grown(code, co2) /\ MoreThreads(threads, threads, c)
  BY <1>1, EmitFits DEF MoreThreads
<1>8. ~(Len(bs2) = m + 1)
  BY <1>1, <1>2
<1>9. ASSUME Ready(script, threads, builders, c, code),
             Written(script, code, threads, Places(builders), Fresh(builders, c)), HeldAll(code, builders)
      PROVE  Written(script, co2, threads, Places(bs2), Fresh(bs2, c2)) /\ HeldAll(co2, bs2)
  <2>1. Written(script, co2, threads, Places(builders), Fresh(builders, c)) /\ HeldAll(co2, builders)
    BY <1>9, EmitFits
  <2>2. Fresh(bs2, c2) \subseteq Fresh(builders, c)
    BY <1>1, <1>5, FreshCarried
  <2>3. \A d \in m + 1 .. m : FALSE
    BY <1>1
  <2>4. Places(builders) \subseteq Places(bs2)
    BY <1>1, <1>5, <2>3, PlacesCarried
  <2>5. HeldAll(co2, bs2)
    BY <1>1, <1>5, <1>8, <2>1, HeldCarried
  <2> QED
    BY <2>1, <2>2, <2>4, <2>5, WrittenLess
<1>10. Len(bs2) = m + 1 /\ bs2[m + 1].kind \notin SubThreads => bs2[m + 1].known = Len(threads)
  BY <1>8
<1>11. /\ Stay(script, co2, threads) /\ Ready(script, threads, builders, Cursor, code)
       /\ Written(script, code, threads, Places(builders), Fresh(builders, Cursor)) /\ HeldAll(code, builders)
       => Written(script, co2, threads, Places(bs2), Fresh(bs2, c2)) /\ HeldAll(co2, bs2)
  BY <1>1, <1>9
<1>12. Carries(builders, bs2, m, Cursor, c2) /\ MoreThreads(threads, threads, Cursor) /\ NoElse(script, builders, m, Cursor, c2)
       /\ co2 \in Codes /\ Grown(code, co2)
  BY <1>1, <1>5, <1>6, <1>7
<1> QED
  BY ONLY Working, Fit(script, code, threads, builders), <1>3, <1>10, <1>11, <1>12, FitNext

LEMMA EmittedAlike ==
  ASSUME NEW b \in Builders, NEW kind, NEW lines \in Nat, NEW p, p = Passed(Emitting(b, kind), lines)
  PROVE  /\ p \in Builders /\ Alike(b, p) /\ p.pending \subseteq b.pending /\ p.done = b.done + lines
         /\ Emitting(b, kind) \in Builders /\ Alike(b, Emitting(b, kind)) /\ Emitting(b, kind).pending \subseteq b.pending
<1> PICK q : q = Emitting(b, kind)
  OBVIOUS
<1>1. /\ q \in Builders /\ SameBut(b, q) /\ q.place = b.place /\ q.count = b.count /\ q.known = b.known
      /\ q.pending = IF kind \in Commands THEN {} ELSE b.pending
  BY EmittingShape
<1>2. p = Passed(q, lines)
  OBVIOUS
<1>3. p \in Builders /\ p.done = q.done + lines /\ p.pending = q.pending
  BY <1>1, <1>2, PassedShape
<1>4. Alike(q, p)
  BY <1>1, <1>2, PassedAlike
<1>5. Alike(b, q) /\ q.done = b.done
  BY <1>1 DEF Alike, SameBut
<1>6. Alike(b, p)
  BY <1>4, <1>5 DEF Alike
<1> QED
  BY <1>1, <1>3, <1>5, <1>6

LEMMA UpdateFits ==
  ASSUME Working, Fit(script, code, threads, builders), Update
  PROVE  Fit(script, code', threads', builders')
<1> PICK bs2, c2 : bs2 = builders' /\ c2 = Cursor + 1
  OBVIOUS
<1> DEFINE p == Passed(Top, 1)
           b == [p EXCEPT !.pending = p.pending \cup {Cursor}]
<1>1. Reading /\ Line = "set" /\ Replaced(builders, Depth, b, bs2) /\ code' = code /\ threads' = threads
  BY DEF Update, Onward, Replaced
<1>2. /\ Len(builders) \in Nat \ {0} /\ Top = builders[Len(builders)] /\ Depth = Len(builders)
      /\ builders \in Seq(Builders) /\ Len(builders) > 0 /\ Top \in Builders /\ Cursor \in Nat \ {0} /\ Cursor = Top.begin + Top.done
      /\ Top.begin \in Nat /\ Top.done \in Nat
  BY StepFrom
<1>3. p \in Builders /\ Alike(Top, p) /\ p.begin = Top.begin /\ p.done = Top.done + 1 /\ p.pending = Top.pending
  <2>1. Alike(Top, p)
    BY <1>2, PassedAlike
  <2>2. 1 \in Nat /\ p = Passed(Top, 1)
    OBVIOUS
  <2> HIDE DEF p
  <2>3. Top \in Builders
    BY <1>2
  <2>4. p \in Builders /\ p.begin = Top.begin /\ p.done = Top.done + 1 /\ p.pending = Top.pending
    BY ONLY <2>2, <2>3, PassedShape
  <2> QED
    BY <2>1, <2>4
<1> HIDE DEF p
<1>4. b \in Builders /\ Alike(Top, b) /\ b.begin = Top.begin /\ b.done = Top.done + 1 /\ b.pending = Top.pending \cup {Cursor}
  <2>1. b \in Builders /\ b.begin = Top.begin /\ b.done = Top.done + 1 /\ b.pending = Top.pending \cup {Cursor}
    BY <1>2, <1>3, ZenonT(60) DEF Builders
  <2>2. Alike(p, b)
    BY <1>3 DEF Alike, Builders
  <2> QED
    BY <1>3, <2>1, <2>2 DEF Alike
<1> HIDE DEF b
<1>5. Onto(builders, bs2, b)
  BY <1>1, <1>2, <1>4, OntoBy
<1>6. c2 \in Nat /\ Cursor \in Nat /\ Cursor < c2 /\ \A f \in Cursor .. c2 - 1 : f = Cursor
  BY <1>2
<1>7. Carries(builders, bs2, Len(builders), Cursor, c2)
  BY <1>2, <1>4, <1>5, <1>6, CarriesOnto
<1>8. Cur(bs2) = c2 /\ Len(bs2) = Len(builders)
  <2>1. Len(bs2) = Len(builders) /\ bs2[Len(builders)] = b
    BY <1>5 DEF Onto
  <2> QED
    BY <1>2, <1>4, <2>1 DEF Cur, At
<1>9. script[Cursor] # "else"
  BY <1>1, Reads
<1>10. NoElse(script, builders, Len(builders), Cursor, c2)
  BY <1>6, <1>9 DEF NoElse
<1> QED
  BY <1>1, <1>7, <1>8, <1>10, FitSame

LEMMA SimpleFits ==
  ASSUME Working, Fit(script, code, threads, builders), Simple
  PROVE  Fit(script, code', threads', builders')
<1> PICK bs2, co2 : bs2 = builders' /\ co2 = code'
  OBVIOUS
<1> DEFINE x == Bare(IF Line = "do" THEN "act" ELSE "pause", Cursor)
           b == Passed(Emitting(Top, Line), 1)
           xs == <<x>>
<1>1. /\ Reading /\ Line \in {"do", "pause"} /\ threads' = threads
      /\ co2 = Emit(Top.thread, Top, Line, xs) /\ Replaced(builders, Depth, b, bs2)
  BY DEF Simple, Onward, Replaced
<1>2. /\ Len(builders) \in Nat \ {0} /\ Top = builders[Len(builders)] /\ Depth = Len(builders)
      /\ builders \in Seq(Builders) /\ Len(builders) > 0 /\ Top \in Builders /\ Cursor \in Nat \ {0}
  BY StepFrom
<1>3. x \in Instrs /\ x.lines = {Cursor} /\ x.op \notin Jumps
  BY <1>2 DEF Bare, Instruction, Instrs, Ops, Flows, Jumps
<1>4. b \in Builders /\ Alike(Top, b) /\ b.pending \subseteq Top.pending /\ b.done = Top.done + 1
  BY <1>2, EmittedAlike
<1> HIDE DEF x, b
<1>5. xs \in Seq(Instrs) /\ Len(xs) = 1 /\ \A k \in 1 .. Len(xs) : xs[k] = x
  BY <1>3
<1> HIDE DEF xs
<1>6. LinesIn(xs, {Cursor}) /\ \A k \in 1 .. Len(xs) : xs[k].op \notin Jumps
  BY <1>3, <1>5 DEF LinesIn
<1>7. Onto(builders, bs2, b)
  BY <1>1, <1>2, <1>4, OntoBy
<1> DEFINE one == 1
<1>8. one \in Nat \ {0} /\ b.done = Top.done + one /\ \A f \in Cursor .. (Cursor + one) - 1 : script[f] # "else"
  <2>1. \A f \in Cursor .. (Cursor + 1) - 1 : f = Cursor
    BY <1>2
  <2>2. script[Cursor] # "else"
    BY <1>1, Reads
  <2> QED
    BY <1>4, <2>1, <2>2
<1> HIDE DEF one
<1>9. Fit(script, co2, threads, bs2)
  BY <1>1, <1>4, <1>5, <1>6, <1>7, <1>8, PlainFits
<1> QED
  BY <1>1, <1>9

LEMMA IncludeFits ==
  ASSUME Working, Fit(script, code, threads, builders), Include
  PROVE  Fit(script, code', threads', builders')
<1> PICK bs2, co2 : bs2 = builders' /\ co2 = code'
  OBVIOUS
<1> DEFINE b == Passed(Emitting(Top, Line), FileLines)
           xs == [i \in 1 .. FileLines |-> Bare("act", Cursor)]
<1>1. /\ Reading /\ Line = "include" /\ threads' = threads
      /\ co2 = Emit(Top.thread, Top, Line, xs) /\ Replaced(builders, Depth, b, bs2)
  BY DEF Include, Onward, Replaced
<1>2. /\ Len(builders) \in Nat \ {0} /\ Top = builders[Len(builders)] /\ Depth = Len(builders)
      /\ builders \in Seq(Builders) /\ Len(builders) > 0 /\ Top \in Builders /\ Cursor \in Nat \ {0}
  BY StepFrom
<1>3. FileLines \in Nat \ {0} /\ FileLines \in Nat
  BY SizesAssumption
<1>4. b \in Builders /\ Alike(Top, b) /\ b.pending \subseteq Top.pending /\ b.done = Top.done + FileLines
  BY <1>2, <1>3, EmittedAlike
<1> HIDE DEF b
<1>5. xs \in Seq(Instrs) /\ LinesIn(xs, {Cursor}) /\ \A k \in 1 .. Len(xs) : xs[k].op \notin Jumps
  <2> PICK x : x = Bare("act", Cursor)
    OBVIOUS
  <2>1. x \in Instrs /\ x.lines = {Cursor} /\ x.op \notin Jumps
    BY <1>2 DEF Bare, Instruction, Instrs, Ops, Flows, Jumps
  <2>2. xs = [i \in 1 .. FileLines |-> x]
    OBVIOUS
  <2> HIDE DEF xs
  <2>3. xs \in Seq(Instrs) /\ \A k \in 1 .. Len(xs) : xs[k] = x
    BY <1>3, <2>1, <2>2
  <2> QED
    BY <2>1, <2>3 DEF LinesIn
<1> HIDE DEF xs
<1>6. Onto(builders, bs2, b)
  BY <1>1, <1>2, <1>4, OntoBy
<1>7. \A f \in Cursor .. (Cursor + FileLines) - 1 : script[f] # "else"
  <2>1. Cursor \in Lines(script) /\ script[Cursor] = "include"
    BY <1>1, Reads
  <2>2. \A j \in Cursor + 1 .. Cursor + FileLines - 1 : script[j] = "blank"
    BY <2>1 DEF Working, Clean
  <2>3. \A i \in Cursor .. (Cursor + FileLines) - 1 : i = Cursor \/ i \in Cursor + 1 .. Cursor + FileLines - 1
    BY <1>2, <1>3
  <2> QED
    BY <2>1, <2>2, <2>3
<1>8. Fit(script, co2, threads, bs2)
  BY <1>1, <1>3, <1>4, <1>5, <1>6, <1>7, PlainFits
<1> QED
  BY <1>1, <1>8

(* A builder begins. *)
LEMMA PushedFits ==
  ASSUME Working, Fit(script, code, threads, builders), NEW xs \in Seq(Instrs), LinesIn(xs, {Cursor}), NEW co1,
         co1 = Emit(Top.thread, Top, Line, xs), NEW co2 \in Codes, Grown(co1, co2), NEW ths2, MoreThreads(threads, ths2, Cursor),
         NEW below, NEW b, NEW bs2, Pushed(builders, bs2, below, b), Alike(Top, below), below.pending \subseteq Top.pending,
         b.begin = Cursor + 1, b.done = 0, b.pending = {}, script[Cursor] # "else",
         b.kind \notin SubThreads => b.known = Len(ths2) /\ Held(co2[b.thread], b),
         \A k \in 1 .. Len(xs) : xs[k].op \in Jumps =>
           /\ ThreadOf(script, Cursor) = threads[Top.thread].owner /\ Len(xs) = 1
           /\ b.kind \notin SubThreads /\ b.thread = Top.thread /\ b.place = Len(co1[Top.thread]),
         \A H, F : Written(script, co1, threads, H, F) => Written(script, co2, ths2, H, F),
         HeldAll(co1, builders) => HeldAll(co2, builders)
  PROVE  Fit(script, co2, ths2, bs2)
<1> PICK m, c, c2 : m = Len(builders) /\ c = Cursor /\ c2 = Cursor + 1
  OBVIOUS
<1>1. /\ code \in Codes /\ m \in Nat \ {0} /\ Len(code) = Len(threads) /\ Len(code) \in Nat
      /\ Top = builders[m] /\ c \in Nat \ {0}
  BY StepFrom
<1>2. Len(bs2) = m + 1 /\ bs2[m + 1] = b
  BY DEF Pushed
<1>3. Cur(bs2) = c2
  BY <1>1, <1>2 DEF Cur, At
<1>4. c2 \in Nat /\ c2 = c + 1 /\ c < c2 /\ \A f \in c .. c2 - 1 : f = c
  BY <1>1
<1>5. Carries(builders, bs2, m, c, c2)
  BY <1>1, <1>4, CarriesPushed
<1>6. NoElse(script, builders, m, c, c2)
  BY <1>4 DEF NoElse
<1>7. co1 \in Codes /\ Grown(code, co1) /\ Grown(code, co2)
  <2>1. co1 \in Codes /\ Grown(code, co1)
    BY EmitFits
  <2> QED
    BY <1>1, <2>1, GrownBy
<1>8. ASSUME Ready(script, threads, builders, c, code),
             Written(script, code, threads, Places(builders), Fresh(builders, c)), HeldAll(code, builders)
      PROVE  Written(script, co2, ths2, Places(bs2), Fresh(bs2, c2)) /\ HeldAll(co2, bs2)
  <2> PICK H, F : H = Places(builders) \cup Places(bs2) /\ F = Fresh(builders, c)
    OBVIOUS
  <2>1. Written(script, code, threads, H, F)
    <3>1. Places(builders) \subseteq H /\ F \in SUBSET F
      OBVIOUS
    <3> QED
      BY <1>8, <3>1, WrittenLess
  <2>2. \A k \in 1 .. Len(xs) : xs[k].op \in Jumps =>
          /\ ThreadOf(script, c) = threads[Top.thread].owner
          /\ Len(xs) = 1 /\ <<Top.thread, Len(co1[Top.thread])>> \in H
    <3> SUFFICES ASSUME NEW k \in 1 .. Len(xs), xs[k].op \in Jumps
                 PROVE  /\ ThreadOf(script, c) = threads[Top.thread].owner
                        /\ Len(xs) = 1 /\ <<Top.thread, Len(co1[Top.thread])>> \in H
      OBVIOUS
    <3>1. /\ ThreadOf(script, c) = threads[Top.thread].owner /\ Len(xs) = 1
          /\ b.kind \notin SubThreads /\ b.thread = Top.thread /\ b.place = Len(co1[Top.thread])
      OBVIOUS
    <3>2. <<b.thread, b.place>> \in Places(bs2)
      <4>1. Len(builders) \in Nat /\ Carries(builders, bs2, m, c, c2) /\ Len(bs2) = m + 1 /\ m > 0 /\ bs2[m + 1] = b
        BY <1>1, <1>2, <1>5
      <4>2. <<bs2[m + 1].thread, bs2[m + 1].place>> \in Places(bs2)
        BY <3>1, <4>1, PlacesCarried
      <4> QED
        BY <4>1, <4>2
    <3> QED
      BY <3>1, <3>2
  <2>3. Written(script, co1, threads, H, F) /\ HeldAll(co1, builders)
    BY <1>8, <2>1, <2>2, EmitFits
  <2>4. Written(script, co2, ths2, H, F) /\ HeldAll(co2, builders)
    BY <2>3
  <2>5. Fresh(bs2, c2) \subseteq F
    BY <1>1, <1>5, FreshCarried
  <2>6. \A d \in m + 1 .. m : FALSE
    BY <1>1
  <2>7. H \subseteq Places(bs2)
    BY <1>1, <1>5, <2>6, PlacesCarried
  <2>8. HeldAll(co2, bs2)
    BY <1>1, <1>2, <1>5, <2>4, HeldCarried
  <2> QED
    BY <2>4, <2>5, <2>7, <2>8, WrittenLess
<1>9. Len(bs2) = m + 1 /\ bs2[m + 1].kind \notin SubThreads => bs2[m + 1].known = Len(ths2)
  BY <1>2
<1>10. /\ Stay(script, co2, ths2) /\ Ready(script, threads, builders, Cursor, code)
       /\ Written(script, code, threads, Places(builders), Fresh(builders, Cursor)) /\ HeldAll(code, builders)
       => Written(script, co2, ths2, Places(bs2), Fresh(bs2, c2)) /\ HeldAll(co2, bs2)
  BY <1>1, <1>8
<1>11. Carries(builders, bs2, m, Cursor, c2) /\ MoreThreads(threads, ths2, Cursor) /\ NoElse(script, builders, m, Cursor, c2)
       /\ co2 \in Codes /\ Grown(code, co2)
  BY <1>1, <1>5, <1>6, <1>7
<1> QED
  BY ONLY Working, Fit(script, code, threads, builders), <1>3, <1>9, <1>10, <1>11, FitNext

LEMMA OpenFits ==
  ASSUME Working, Fit(script, code, threads, builders), Open
  PROVE  Fit(script, code', threads', builders')
<1> PICK bs2, co2 : bs2 = builders' /\ co2 = code'
  OBVIOUS
<1> DEFINE x == Control(Line, Cursor)
           xs == <<x>>
           q == Emitting(Top, Line)
           c == IF Line \in Cadences THEN Line ELSE Top.cadence
           b == Builder(Line, Top.thread, Cursor + 1, Len(co2[Top.thread]), Len(co2[Top.thread]), Len(code), c, 0)
           bs1 == [builders EXCEPT ![Depth] = q]
<1>1. /\ Reading /\ Line \in {"if", "while", "multi"} \cup Cadences /\ threads' = threads
      /\ co2 = Emit(Top.thread, Top, Line, xs) /\ bs2 = Append(bs1, b) /\ Replaced(builders, Depth, q, bs1)
  BY DEF Open, Onward, Replaced
<1>2. /\ Top \in Builders /\ Len(builders) \in Nat \ {0} /\ Top = builders[Len(builders)] /\ Top.thread \in 1 .. Len(code)
      /\ Depth = Len(builders) /\ builders \in Seq(Builders) /\ Len(builders) > 0 /\ Len(code) \in Nat /\ Cursor \in Nat \ {0}
      /\ Len(code) = Len(threads)
  BY StepFrom
<1>3. Line = script[Cursor] /\ ThreadOf(script, Cursor) = threads[Top.thread].owner
  BY <1>1, Reads DEF Cadences
<1>4. x \in Instrs /\ x.lines = {Cursor} /\ x.op = OpOf(Line)
  BY <1>1, <1>2, SMTT(60) DEF Control, Bare, Instruction, Instrs, Ops, Flows, Cadences, OpOf
<1> HIDE DEF x
<1>5. xs \in Seq(Instrs) /\ Len(xs) = 1 /\ xs[1] = x /\ \A k \in 1 .. Len(xs) : xs[k] = x
  BY <1>4
<1> HIDE DEF xs
<1>6. LinesIn(xs, {Cursor})
  BY <1>4, <1>5 DEF LinesIn
<1>7. q \in Builders /\ SameBut(Top, q) /\ Alike(Top, q) /\ q.pending \subseteq Top.pending
  <2>1. q \in Builders /\ SameBut(Top, q)
    BY <1>2, EmittingShape
  <2>2. Alike(Top, q) /\ q.pending \subseteq Top.pending
    BY <1>2, EmittedAlike
  <2> QED
    BY <2>1, <2>2
<1> HIDE DEF q, bs1
<1>8. co2 \in Codes /\ Len(co2) = Len(code)
  BY <1>1, <1>5, EmitFits
<1> PICK t, size, known : t = Top.thread /\ size = Len(co2[Top.thread]) /\ known = Len(code)
  OBVIOUS
<1>9. size \in Nat /\ known \in Nat /\ t \in 1 .. Len(co2)
  BY <1>2, <1>8, CodesAre
<1>10. /\ b \in Builders /\ b.kind = Line /\ b.thread = t /\ b.begin = Cursor + 1
       /\ b.done = 0 /\ b.pending = {} /\ b.place = size /\ b.count = size /\ b.known = known
  <2>1. Line \in Kinds \cup {"thread"} /\ c \in Flows
    BY <1>1, <1>2 DEF Kinds, Commands, Directives, Cadences, Flows, Builders
  <2>2. t \in Nat /\ Cursor + 1 \in Nat /\ 0 \in Nat
    BY <1>2
  <2>3. b = Builder(Line, t, Cursor + 1, size, size, known, c, 0)
    OBVIOUS
  <2> HIDE DEF c, b
  <2> QED
    BY <1>9, <2>1, <2>2, <2>3 DEF Builder, Builders
<1> HIDE DEF b, c
<1>11. Pushed(builders, bs2, q, b)
  BY <1>1, <1>2, <1>7, <1>10, PushedBy
<1>12. Held(co2[t], b)
  <2>1. PICK mid \in Codes : Len(mid) = Len(code) /\ Extended(mid, co2, t, xs) /\ Placed(script, mid, threads, bs1, Cursor)
    BY <1>1, <1>5, EmittingStep DEF q
  <2>2. t \in 1 .. Len(mid) /\ Len(mid[t]) \in Nat
    BY <1>2, <2>1, CodesAre
  <2>3. /\ size = Len(mid[t]) + 1 /\ co2[t][size] = x
        /\ \A l \in 1 .. Len(mid[t]) : co2[t][l] = mid[t][l]
    <3>1. Len(co2[t]) = Len(mid[t]) + Len(xs) /\ \A l \in 1 .. Len(mid[t]) : co2[t][l] = mid[t][l]
      BY <2>1, <2>2 DEF Extended
    <3>2. 1 \in 1 .. Len(xs)
      BY <1>5
    <3>3. co2[t][Len(mid[t]) + 1] = xs[1]
      BY <2>1, <2>2, <3>2 DEF Extended
    <3> QED
      BY <1>5, <3>1, <3>3
  <2>4. \A l \in 1 .. Len(mid[t]) : \A i \in mid[t][l].lines : i \in 1 .. Cursor - 1
    BY <2>1, <2>2 DEF Placed
  <2>5. ASSUME NEW l \in 1 .. size, NEW i \in co2[t][l].lines PROVE i >= b.begin <=> l > b.place
    <3>1. l \in 1 .. Len(mid[t]) \/ l = size
      BY <2>2, <2>3
    <3>2. CASE l = size
      <4>1. i = Cursor
        BY <1>4, <2>3, <3>2
      <4> QED
        BY <1>2, <1>9, <1>10, <2>2, <2>3, <3>2, <4>1
    <3>3. CASE l \in 1 .. Len(mid[t])
      <4>1. i \in 1 .. Cursor - 1
        BY <2>3, <2>4, <3>3
      <4> QED
        BY <1>2, <1>9, <1>10, <2>2, <2>3, <3>3, <4>1, SMTT(30), ZenonT(30)
    <3> QED
      BY <3>1, <3>2, <3>3
  <2>6. b.place \in 1 .. Len(co2[t])
    BY <1>10, <2>2, <2>3
  <2>7. b.begin - 1 = Cursor /\ Len(co2[t]) = size
    BY <1>2, <1>10
  <2> QED
    BY <1>4, <1>10, <2>3, <2>5, <2>6, <2>7 DEF Held
<1>13. b.kind \notin SubThreads
  BY <1>1, <1>10 DEF SubThreads, Cadences
<1>14. script[Cursor] # "else"
  BY <1>1, <1>3 DEF Cadences
<1>15. Grown(co2, co2) /\ MoreThreads(threads, threads, Cursor)
  BY <1>2, <1>8, GrownBy DEF MoreThreads
<1>16. \A k \in 1 .. Len(xs) : xs[k].op \in Jumps =>
         /\ ThreadOf(script, Cursor) = threads[Top.thread].owner /\ Len(xs) = 1
         /\ b.kind \notin SubThreads /\ b.thread = Top.thread /\ b.place = Len(co2[Top.thread])
  BY <1>3, <1>5, <1>10, <1>13
<1>17. b.kind \notin SubThreads => b.known = Len(threads) /\ Held(co2[b.thread], b)
  BY <1>2, <1>10, <1>12
<1>18. Fit(script, co2, threads, bs2)
  BY <1>1, <1>5, <1>6, <1>7, <1>8, <1>10, <1>11, <1>14, <1>15, <1>16, <1>17, PushedFits
<1> QED
  BY <1>1, <1>18

LEMMA OpenThreadFits ==
  ASSUME Working, Fit(script, code, threads, builders), OpenThread
  PROVE  Fit(script, code', threads', builders')
<1> PICK bs2, co2, ths2 : bs2 = builders' /\ co2 = code' /\ ths2 = threads'
  OBVIOUS
<1> DEFINE xs == <<>>
           co1 == Emit(Top.thread, Top, Line, xs)
           q == Emitting(Top, Line)
           p == Prologue(Line, Cursor)
           w == [owner |-> Cursor, cadence |-> Top.cadence]
           b == Builder(Line, Len(code) + 1, Cursor + 1, 0, 0, Len(code), Top.cadence, 0)
           bs1 == [builders EXCEPT ![Depth] = q]
<1>1. /\ Reading /\ Line \in SubThreads /\ ths2 = Append(threads, w) /\ co2 = Append(co1, p)
      /\ bs2 = Append(bs1, b) /\ Replaced(builders, Depth, q, bs1)
  BY DEF OpenThread, Onward, Replaced
<1>2. /\ Top \in Builders /\ Len(builders) \in Nat \ {0} /\ Top = builders[Len(builders)] /\ Top.thread \in 1 .. Len(code)
      /\ Depth = Len(builders) /\ builders \in Seq(Builders) /\ Len(builders) > 0 /\ Len(code) \in Nat /\ Cursor \in Nat \ {0}
      /\ Len(code) = Len(threads) /\ code \in Codes
      /\ \A d \in 1 .. Depth : builders[d] \in Builders /\ builders[d].thread \in 1 .. Len(code)
  BY StepFrom
<1>3. Line = script[Cursor]
  BY <1>1, Reads
<1>4. xs \in Seq(Instrs) /\ LinesIn(xs, {Cursor}) /\ \A k \in 1 .. Len(xs) : FALSE
  BY DEF LinesIn
<1>5. p \in Seq(Instrs) /\ \A k \in 1 .. Len(p) : p[k].lines # {} /\ p[k].op \notin Jumps
  <2>1. Bare("yield", Cursor) \in Instrs /\ Bare("yield", Cursor).lines # {} /\ Bare("yield", Cursor).op \notin Jumps
    BY <1>2 DEF Bare, Instruction, Instrs, Ops, Flows, Jumps
  <2> QED
    BY <2>1 DEF Prologue
<1> HIDE DEF xs, p, w
<1>6. q \in Builders /\ SameBut(Top, q) /\ Alike(Top, q) /\ q.pending \subseteq Top.pending
  <2>1. q \in Builders /\ SameBut(Top, q)
    BY <1>2, EmittingShape
  <2>2. Alike(Top, q) /\ q.pending \subseteq Top.pending
    BY <1>2, EmittedAlike
  <2> QED
    BY <2>1, <2>2
<1>7. /\ b \in Builders /\ b.kind = Line /\ b.begin = Cursor + 1 /\ b.done = 0 /\ b.pending = {}
  <2>1. Line \in Kinds \cup {"thread"} /\ Top.cadence \in Flows
    BY <1>1, <1>2 DEF Kinds, Commands, Directives, SubThreads, Builders
  <2>2. Len(code) + 1 \in Nat /\ Cursor + 1 \in Nat /\ 0 \in Nat
    BY <1>2
  <2> QED
    BY <1>2, <2>1, <2>2 DEF Builder, Builders
<1> HIDE DEF q, bs1, b
<1>8. Pushed(builders, bs2, q, b)
  BY <1>1, <1>2, <1>6, <1>7, PushedBy
<1>9. co1 \in Codes /\ Len(co1) = Len(code)
  BY <1>4, EmitFits
<1> HIDE DEF co1
<1>10. threads \in Seq(Threads) /\ w \in Threads /\ w.owner = Cursor
  <2>1. threads \in Seq(Threads)
    BY DEF Working, Good, Owned
  <2> QED
    BY <1>2, <2>1 DEF w, Threads, Builders
<1>11. Len(ths2) = Len(threads) + 1 /\ ths2[Len(threads) + 1] = w /\ \A u \in 1 .. Len(threads) : ths2[u] = threads[u]
  BY <1>1, <1>10, AppendProperties
<1>12. MoreThreads(threads, ths2, Cursor)
  BY <1>2, <1>10, <1>11 DEF MoreThreads
<1>13. /\ co2 \in Codes /\ Len(co2) = Len(co1) + 1 /\ \A u \in 1 .. Len(co1) : co2[u] = co1[u]
  <2> DEFINE S == Seq(Instrs)
  <2>1. co1 \in Seq(S) /\ p \in S
    BY <1>5, <1>9 DEF Codes
  <2> HIDE DEF S
  <2>2. co2 \in Seq(S) /\ Len(co2) = Len(co1) + 1 /\ \A u \in 1 .. Len(co1) : co2[u] = co1[u]
    BY <1>1, <2>1, AppendProperties, LenProperties
  <2> QED
    BY <2>2 DEF S, Codes
<1>14. ASSUME NEW H, NEW F, Written(script, co1, threads, H, F) PROVE Written(script, co2, ths2, H, F)
  <2>1. Len(threads) = Len(co1) /\ \A u \in 1 .. Len(co1) : ths2[u] = threads[u]
    BY <1>2, <1>9, <1>11
  <2>2. co1 \in Codes /\ p \in Seq(Instrs) /\ co2 = Append(co1, p)
    BY <1>1, <1>5, <1>9
  <2>3. Jumpless(p) /\ ThreadsKept(threads, ths2, Len(co1))
    BY <1>5, <2>1 DEF Jumpless, ThreadsKept
  <2> QED
    BY ONLY <1>14, <2>2, <2>3, WrittenThread
<1>15. Grown(co1, co2)
  <2>1. Len(co1) \in Nat /\ \A u \in 1 .. Len(co1) : Len(co1[u]) \in Nat
    BY <1>9, CodesAre
  <2> QED
    BY <1>13, <2>1 DEF Grown
<1>16. HeldAll(co1, builders) => HeldAll(co2, builders)
  <2>1. \A d \in 2 .. Len(builders) : builders[d].thread \in 1 .. Len(co1)
    BY <1>2, <1>9
  <2> QED
    BY <1>13, <2>1 DEF HeldAll
<1>17. script[Cursor] # "else" /\ b.kind \in SubThreads
  BY <1>1, <1>3, <1>7 DEF SubThreads
<1>18. /\ b.kind \notin SubThreads => b.known = Len(ths2) /\ Held(co2[b.thread], b)
       /\ \A k \in 1 .. Len(xs) : xs[k].op \in Jumps =>
            /\ ThreadOf(script, Cursor) = threads[Top.thread].owner /\ Len(xs) = 1
            /\ b.kind \notin SubThreads /\ b.thread = Top.thread /\ b.place = Len(co1[Top.thread])
  BY <1>4, <1>17
<1>19. co1 = Emit(Top.thread, Top, Line, xs)
  BY DEF co1
<1> QED
  BY <1>4, <1>6, <1>7, <1>8, <1>12, <1>13, <1>14, <1>15, <1>16, <1>17, <1>18, <1>19, PushedFits
-----------------------------------------------------------------------------
(* The end of a block. *)

LEMMA Returned ==
  ASSUME Working, Ended, Top.kind # "thread", NEW lines,
         lines = (IF Top.kind = "else" THEN Top.first + Top.done + 1 ELSE Top.done + 2), NEW bs2, bs2 = Return(lines)
  PROVE  /\ Len(builders) > 1 /\ Len(bs2) = Len(builders) - 1 /\ Cur(bs2) = Cursor + 1
         /\ Carries(builders, bs2, Len(builders) - 1, Cursor, Cursor + 1)
         /\ \A d \in 1 .. Len(builders) - 1 : bs2[d].pending = builders[d].pending
<1> PICK n : n = Len(builders)
  OBVIOUS
<1> DEFINE below == builders[n - 1]
           b == Passed(below, lines)
<1>1. /\ n \in Nat \ {0} /\ Depth = n /\ builders \in Seq(Builders) /\ Top.done \in Nat /\ Top.first \in Nat /\ Cursor \in Nat \ {0}
      /\ \A d \in 1 .. n : builders[d] \in Builders
  BY StepFrom
<1>2. n > 1 /\ Cur(bs2) = Cursor + 1
  BY Closes
<1>3. lines \in Nat /\ n - 1 \in 1 .. n
  BY <1>1, <1>2, SMTT(30), ZenonT(60)
<1>4. below \in Builders
  BY <1>1, <1>3
<1>5. /\ b \in Builders /\ Alike(below, b) /\ b.pending = below.pending
  <2>1. b = Passed(below, lines)
    OBVIOUS
  <2> PICK w : w = below
    OBVIOUS
  <2>2. w \in Builders /\ b = Passed(w, lines)
    BY <1>4, <2>1
  <2> HIDE DEF b, below
  <2>3. Alike(w, b) /\ b \in Builders /\ b.pending = w.pending
    BY ONLY <1>3, <2>2, PassedAlike, PassedShape, SMTT(30), ZenonT(60)
  <2> QED
    BY <2>3
<1>6. Replaced(SubSeq(builders, 1, n - 1), n - 1, b, bs2)
  <2>1. SubSeq(builders, 1, n - 1)[n - 1] = below
    <3>1. SubSeq(builders, 1, n - 1)[n - 1] = builders[1 + (n - 1) - 1]
      BY <1>1, <1>2, SubSeqProperties
    <3>2. 1 + (n - 1) - 1 = n - 1
      BY <1>1
    <3> QED
      BY <3>1, <3>2
  <2>2. bs2 = [SubSeq(builders, 1, n - 1) EXCEPT ![n - 1] = Passed(SubSeq(builders, 1, n - 1)[n - 1], lines)]
    BY <1>1 DEF Return
  <2> QED
    BY <2>1, <2>2 DEF Replaced
<1> HIDE DEF b
<1>7. Popped(builders, bs2, b)
  BY <1>1, <1>2, <1>5, <1>6, PoppedBy
<1>8. Carries(builders, bs2, n - 1, Cursor, Cursor + 1)
  <2>1. Len(builders) \in Nat /\ Len(builders) > 1 /\ Cursor \in Nat
    BY <1>1, <1>2
  <2> QED
    BY <1>5, <1>7, <2>1, CarriesPopped
<1>9. Len(bs2) = n - 1 /\ bs2[n - 1] = b /\ \A d \in 1 .. n - 2 : bs2[d] = builders[d]
  BY <1>7 DEF Popped
<1>10. ASSUME NEW d \in 1 .. n - 1 PROVE bs2[d].pending = builders[d].pending
  <2>1. d = n - 1 \/ d \in 1 .. n - 2
    BY <1>1
  <2> QED
    BY <1>5, <1>9, <2>1
<1> QED
  BY <1>2, <1>8, <1>9, <1>10

(* Where the part of the block that the innermost builder builds ends.     *)
LEMMA UntilTop ==
  ASSUME Working, Reaching(script, threads, builders, Cursor), Cursor \in Lines(script), Len(builders) > 1, Top.kind \notin SubThreads
  PROVE  /\ script[Cursor] = "end" => Until(script, Top.begin - 1) = IF Top.kind = "while" THEN Cursor + 1 ELSE Cursor
         /\ script[Cursor] = "else" /\ Top.kind = "if" => Until(script, Top.begin - 1) = Cursor + 1
<1> PICK n, c, e, o : n = Len(builders) /\ c = Cursor /\ e = Top.begin - 1 /\ o = Opener(builders, n)
  OBVIOUS
<1>1. /\ Script(script) /\ Balanced(script) /\ n \in Nat \ {0} /\ Top = builders[n] /\ c = Cur(builders) /\ c \in Nat \ {0}
      /\ Top.begin \in Nat
  BY StepFrom
<1>2. Stacked(script, builders)
  BY <1>1 DEF Working, Good
<1>3. Nested(script, builders, c)
  BY <1>1, <1>2, CursorIs
<1>4. n \in 2 .. n
  BY <1>1
<1>5. Kindly(script, builders, n) /\ o \in 1 .. c - 1 /\ script[o] \in Openers /\ c <= EndOf(script, o)
  BY <1>2, <1>3, <1>4 DEF Stacked, Nested
<1>6. Lines(script) = 1 .. Len(script) /\ Len(script) \in Nat
  BY <1>1, LinesAre
<1>7. o \in Lines(script) /\ EndOf(script, o) \in Nat
  <2>1. o \in Lines(script)
    BY <1>5, <1>6
  <2> QED
    BY <1>1, <1>5, <1>6, <2>1, EndOfBlock
<1>8. CASE Top.kind = "else"
  <2>1. script[e] = "else" /\ Innermost(script, e, Openers) = o
    BY <1>1, <1>5, <1>8 DEF Kindly, Openers, Cadences, SubThreads
  <2>2. Until(script, e) = EndOf(script, o)
    BY <2>1 DEF Until
  <2>3. script[c] = "end" => EndOf(script, o) = c
    BY <1>1, <1>3, TopEnds
  <2> QED
    BY <1>8, <2>2, <2>3
<1>9. CASE Top.kind # "else"
  <2>1. e = o /\ script[o] = Top.kind
    BY <1>1, <1>5, <1>9 DEF Opener, Kindly
  <2>2. CASE script[c] = "end"
    <3>1. EndOf(script, o) = c
      BY <1>1, <1>3, <2>2, TopEnds
    <3>2. ASSUME script[o] = "if" PROVE ~HasElse(script, o)
      <4> SUFFICES ASSUME NEW f \in o .. EndOf(script, o), script[f] = "else", Innermost(script, f, Openers) = o PROVE FALSE
        BY DEF HasElse
      <4>1. f # o /\ f # c
        BY <2>2, <3>2
      <4>2. f \in Top.begin .. c - 1
        BY <1>1, <1>5, <2>1, <3>1, <4>1
      <4> QED
        BY <1>1, <1>4, <2>1, <3>2, <4>2 DEF Reaching
    <3> QED
      BY <2>1, <2>2, <3>1, <3>2, <1>9 DEF Until
  <2>3. CASE script[c] = "else" /\ Top.kind = "if"
    <3>1. Innermost(script, c, Openers) = o
      BY <2>3, ElseIsOfTop
    <3>2. c \in o .. EndOf(script, o)
      BY <1>5, <1>7
    <3>3. HasElse(script, o)
      BY <2>3, <3>1, <3>2 DEF HasElse
    <3>4. \A f \in o .. EndOf(script, o) : (script[f] = "else" /\ Innermost(script, f, Openers) = o) => f = c
      BY <1>1, <2>3, <3>1 DEF Balanced
    <3>5. ElseOf(script, o) = c
      BY <2>3, <3>1, <3>2, <3>4 DEF ElseOf
    <3> QED
      BY <2>1, <2>3, <3>3, <3>5 DEF Until
  <2> QED
    BY <2>2, <2>3
<1> QED
  BY <1>8, <1>9

(* No line that may still be written is in it. *)
LEMMA FreshApart ==
  ASSUME Working, Reaching(script, threads, builders, Cursor), Len(builders) > 1, NEW u \in Nat, u <= Cursor + 1,
         Until(script, Top.begin - 1) = u, NEW bs2, Carries(builders, bs2, Len(builders) - 1, Cursor, Cursor + 1),
         \A d \in 1 .. Len(builders) - 1 : bs2[d].pending = builders[d].pending,
         Len(bs2) = Len(builders) => bs2[Len(builders)].kind \notin SubThreads,
         NEW i \in Fresh(bs2, Cursor + 1)
  PROVE  ~Inner(script, Top.begin - 1, i)
<1> PICK n, c : n = Len(builders) /\ c = Cursor
  OBVIOUS
<1>1. /\ n \in Nat \ {0} /\ Top = builders[n] /\ c \in Nat \ {0} /\ Top.begin \in Nat
      /\ \A d \in 1 .. n : builders[d] \in Builders
  BY StepFrom
<1>2. Len(bs2) = n - 1 \/ (Len(bs2) = n /\ bs2[n].pending = {})
  <2>1. (n - 1) + 1 = n
    BY <1>1
  <2> QED
    BY <2>1 DEF Carries
<1>3. ASSUME NEW d \in 1 .. n - 1
      PROVE  /\ builders[d].begin \in Nat /\ builders[d].pending \subseteq Nat
             /\ builders[d].begin < Top.begin /\ \A j \in builders[d].pending : j < Top.begin - 1
             /\ bs2[d].begin = builders[d].begin
  <2>1. d \in 1 .. n /\ n \in d + 1 .. n
    BY <1>1
  <2> QED
    BY <1>1, <2>1 DEF Reaching, Builders, Carries, Alike
<1>4. i \in Nat
  BY DEF Fresh
<1>5. CASE i >= c + 1
  BY <1>1, <1>4, <1>5 DEF Inner
<1>6. CASE \E d \in 1 .. Len(bs2) : i \in bs2[d].pending
  <2>1. PICK d \in 1 .. Len(bs2) : i \in bs2[d].pending
    BY <1>6
  <2>2. d \in 1 .. n - 1
    <3>1. d # n \/ Len(bs2) = n - 1
      BY <1>2, <2>1
    <3> QED
      BY <1>1, <1>2, <3>1
  <2>3. i < Top.begin - 1
    BY <1>3, <2>1, <2>2
  <2> QED
    BY ONLY <1>1, <1>4, <2>3, SMTT(60) DEF Inner
<1>7. CASE \E d \in 2 .. Len(bs2) : bs2[d].kind \in SubThreads /\ i = bs2[d].begin - 1
  <2>1. PICK d \in 2 .. Len(bs2) : bs2[d].kind \in SubThreads /\ i = bs2[d].begin - 1
    BY <1>7
  <2>2. d \in 1 .. n - 1
    <3>1. Len(bs2) = n => bs2[n].kind \notin SubThreads
      OBVIOUS
    <3>2. CASE Len(bs2) = n - 1
      BY <1>1, <2>1, <3>2
    <3>3. CASE Len(bs2) = n
      <4>1. d # n
        BY <2>1, <3>1, <3>3
      <4> QED
        BY <1>1, <2>1, <3>3, <4>1
    <3> QED
      BY <1>2, <3>2, <3>3
  <2>3. builders[d].begin \in Nat /\ builders[d].begin < Top.begin /\ bs2[d].begin = builders[d].begin
    BY <1>3, <2>2
  <2> PICK e : e = builders[d].begin
    OBVIOUS
  <2>4. i = e - 1 /\ e \in Nat /\ e < Top.begin
    BY <2>1, <2>3
  <2>5. i < Top.begin - 1
    BY ONLY <1>1, <2>4
  <2> QED
    BY ONLY <1>1, <1>4, <2>5, SMTT(60) DEF Inner
<1> QED
  BY <1>5, <1>6, <1>7 DEF Fresh

(* The size of a control block is filled in at its end.                    *)
LEMMA HeldAllRelined ==
  ASSUME NEW co \in Codes, NEW co2 \in Codes, Relined(co, co2), NEW bs,
         \A d \in 2 .. Len(bs) : bs[d].thread \in 1 .. Len(co), HeldAll(co, bs)
  PROVE  HeldAll(co2, bs)
<1> SUFFICES ASSUME NEW d \in 2 .. Len(bs), bs[d].kind \notin SubThreads
             PROVE  Held(co2[bs[d].thread], bs[d])
  BY DEF HeldAll
<1>1. Held(co[bs[d].thread], bs[d]) /\ bs[d].thread \in 1 .. Len(co)
  BY DEF HeldAll
<1> QED
  BY <1>1, HeldRelined

Below(q, u) == \A k \in 1 .. Len(q) : \A i \in q[k].lines : i < u
Apart(s, o, F) == \A i \in F : ~Inner(s, o, i)

LEMMA SizedCloses ==
  ASSUME NEW s, NEW now \in Codes, NEW t \in 1 .. Len(now), NEW b, Held(now[t], b), b.begin \in Nat,
         NEW u \in Nat, Until(s, b.begin - 1) = u, Below(now[t], u),
         NEW co2 \in Codes, Sized(now, co2, t, b.place, Len(now[t]) - b.place),
         NEW F2, Apart(s, b.begin - 1, F2), OpOf(b.kind) = "cadence" => s[b.begin - 1] \in Cadences
  PROVE  Closed(s, co2[t], b.place, b.begin - 1, F2)
<1> PICK p, o, c, n, size : p = b.place /\ o = b.begin - 1 /\ c = b.begin /\ n = Len(now[t]) /\ size = n - p
  OBVIOUS
<1>1. n \in Nat /\ \A l \in 1 .. n : now[t][l].lines \in SUBSET Nat
  BY CodesAre
<1>2. /\ p \in 1 .. n /\ now[t][p].op = OpOf(b.kind) /\ c \in Nat /\ o = c - 1
      /\ \A l \in 1 .. n : \A i \in now[t][l].lines : i >= c <=> l > p
  BY DEF Held
<1>3. size \in Nat /\ p + size = n
  <2>1. size = n - p /\ n \in Nat /\ p \in 1 .. n
    BY <1>1, <1>2
  <2> QED
    BY ONLY <2>1
<1>4. Len(co2[t]) = n /\ co2[t][p].op = now[t][p].op /\ \A l \in 1 .. n : co2[t][l].lines = now[t][l].lines
  BY <1>2, ZenonT(30), SMTT(30) DEF Sized, Relined
<1>5. co2[t][p].size = size
  BY <1>2 DEF Sized
<1>6. ASSUME NEW l \in 1 .. n, NEW i \in now[t][l].lines
      PROVE  Inner(s, o, i) <=> (p < l /\ l <= p + size)
  <2>1. i \in Nat /\ i < u /\ (i >= c <=> l > p) /\ l \in 1 .. n
    BY <1>1, <1>2 DEF Below
  <2>2. Inner(s, o, i) <=> o < i /\ i < u
    BY DEF Inner
  <2>3. o < i <=> i >= c
    BY ONLY <1>2, <2>1
  <2>4. l <= p + size /\ (l > p <=> p < l)
    BY ONLY <1>1, <1>2, <1>3, <2>1
  <2> QED
    BY <2>1, <2>2, <2>3, <2>4
<1>7. Spanned(s, co2[t], p, o)
  <2>1. p + size <= n
    BY ONLY <1>1, <1>3
  <2>2. Until(s, o) \in Nat
    OBVIOUS
  <2>3. co2[t][p].op = "cadence" => s[o] \in Cadences
    BY <1>2, <1>4
  <2> QED
    BY ONLY <1>3, <1>4, <1>5, <1>6, <2>1, <2>2, <2>3 DEF Spanned
<1>8. co2[t][p].op # "rewind"
  BY <1>2, <1>4 DEF OpOf
<1> QED
  BY <1>7, <1>8 DEF Closed, Apart

(* What is written, as the builders stand before the step. *)
Settled(co, H, F) ==
  /\ Written(script, co, threads, H, F) /\ HeldAll(co, builders)
  /\ Ready(script, threads, builders, Cursor, co) /\ Len(co) = Len(code)

LEMMA SizedOff ==
  ASSUME Working, Len(builders) > 1, Top.kind \notin SubThreads \cup {"thread"},
         NEW now \in Codes, Stay(script, now, threads), NEW H, NEW F, Settled(now, H, F),
         NEW u \in Nat, Until(script, Top.begin - 1) = u, Below(now[Top.thread], u),
         NEW H2, Frees(H, H2, <<Top.thread, Top.place>>), NEW F2 \in SUBSET F, Apart(script, Top.begin - 1, F2),
         NEW co2, co2 = Resized(now, Top, Size(now, Top))
  PROVE  co2 \in Codes /\ Relined(now, co2) /\ Settled(co2, H2, F2)
<1> PICK n, t, p, top : n = Len(builders) /\ t = Top.thread /\ p = Top.place /\ top = Top
  OBVIOUS
<1>0. /\ Written(script, now, threads, H, F) /\ HeldAll(now, builders) /\ Len(now) = Len(code)
      /\ Ready(script, threads, builders, Cursor, now) /\ Reaching(script, threads, builders, Cursor)
  BY DEF Settled, Ready
<1> PICK size : size = Size(now, Top)
  OBVIOUS
<1>1. /\ n \in Nat \ {0} /\ top = builders[n] /\ top \in Builders /\ top.begin \in Nat /\ t \in 1 .. Len(now)
      /\ \A d \in 1 .. n : builders[d].thread \in 1 .. Len(now)
  BY <1>0, StepFrom
<1>2. Held(now[t], top)
  BY <1>0, <1>1 DEF HeldAll
<1>3. top.count = p /\ p \in 1 .. Len(now[t]) /\ now[t][p].lines = {top.begin - 1}
  BY <1>2 DEF Held
<1>4. Len(now[t]) \in Nat /\ Len(now[t]) <= Inline
  BY <1>1, CodesAre DEF Stay
<1>5. size = Len(now[t]) - p /\ size \in Int
  BY <1>3, <1>4 DEF Size
<1>6. ~Moved(Top, now)
  BY <1>0, <1>4, Unmoves DEF Stay
<1>7. co2 = [now EXCEPT ![t][p].size = size]
  BY <1>6 DEF Resized
<1>8. co2 \in Codes /\ Sized(now, co2, t, p, size)
  <2>1. now \in Codes /\ t \in 1 .. Len(now) /\ size \in Int
    BY <1>1, <1>5
  <2> QED
    BY ONLY <1>7, <2>1, SizedBy
<1>9. Relined(now, co2)
  BY <1>8 DEF Sized
<1>10. Closed(script, co2[t], p, top.begin - 1, F2)
  <2>1. /\ now \in Codes /\ u \in Nat /\ Until(script, top.begin - 1) = u /\ p = top.place
        /\ Below(now[t], u) /\ Apart(script, top.begin - 1, F2)
    OBVIOUS
  <2>2. Sized(now, co2, t, top.place, Len(now[t]) - top.place)
    BY <1>5, <1>8, <2>1
  <2>3. OpOf(top.kind) = "cadence" => script[top.begin - 1] \in Cadences
    <3> SUFFICES ASSUME OpOf(top.kind) = "cadence" PROVE script[top.begin - 1] \in Cadences
      OBVIOUS
    <3>1. top.kind \in Kinds \cup {"thread"}
      BY <1>1 DEF Builders
    <3>2. n \in 2 .. n
      BY <1>1
    <3>3. Kindly(script, builders, n)
      BY <3>2 DEF Working, Good, Stacked
    <3>4. top.kind # "else"
      BY DEF OpOf
    <3>5. script[top.begin - 1] = top.kind
      BY <1>1, <3>3, <3>4 DEF Kindly, Opener
    <3>6. script[top.begin - 1] \in Openers
      <4>1. Nested(script, builders, At(builders, Len(builders)))
        BY DEF Working, Good, Stacked
      <4>2. Opener(builders, n) = top.begin - 1
        BY <1>1, <3>4 DEF Opener
      <4> QED
        BY <3>2, <4>1, <4>2 DEF Nested
    <3> QED
      BY <3>5, <3>6 DEF OpOf, Openers
  <2>4. Closed(script, co2[t], top.place, top.begin - 1, F2)
    BY ONLY <1>1, <1>2, <1>8, <2>1, <2>2, <2>3, SizedCloses
  <2> QED
    BY <2>1, <2>4
<1>11. Written(script, co2, threads, H2, F2)
  <2>1. now \in Codes /\ t \in 1 .. Len(now) /\ F2 \in SUBSET F /\ Written(script, now, threads, H, F)
    BY <1>0, <1>1
  <2>2. Frees(H, H2, <<t, p>>)
    OBVIOUS
  <2>3. Filled(script, now[t], co2[t], t, p, H2, F2)
    BY <1>3, <1>10 DEF Filled
  <2> QED
    BY ONLY <1>8, <2>1, <2>2, <2>3, WrittenSized
<1>12. HeldAll(co2, builders)
  <2>1. now \in Codes /\ HeldAll(now, builders) /\ \A d \in 2 .. Len(builders) : builders[d].thread \in 1 .. Len(now)
    BY <1>0, <1>1
  <2> QED
    BY ONLY <1>8, <1>9, <2>1, HeldAllRelined
<1>13. Len(co2) = Len(now) /\ Ready(script, threads, builders, Cursor, co2)
  BY <1>0, <1>8, <1>9 DEF Relined, Ready
<1> QED
  BY <1>0, <1>8, <1>9, <1>11, <1>12, <1>13 DEF Settled

LEMMA FinalFits ==
  ASSUME Working, NEW f, f = Final
  PROVE  /\ f \in Codes /\ Len(f) = Len(code) /\ Grown(code, f)
         /\ \A H : Settled(code, H, Fresh(builders, Cursor)) => Settled(f, H, Fresh(builders, Cursor))
<1> PICK c, F : c = Cursor /\ F = Fresh(builders, Cursor)
  OBVIOUS
<1>1. /\ code \in Codes /\ Top \in Builders /\ Top.thread \in 1 .. Len(code) /\ Len(builders) \in Nat \ {0}
      /\ Top = builders[Len(builders)] /\ c \in Nat /\ \A d \in 1 .. Len(builders) : builders[d] \in Builders
  BY StepFrom
<1>2. Replaced(code, Top.thread, code[Top.thread] \o Flushed(Top), f)
  BY DEF Final, Replaced
<1>3. f \in Codes /\ FlushedTo(code, f, Top) /\ Len(f) = Len(code)
  BY <1>1, <1>2, FlushShape
<1>4. Grown(code, f)
  BY <1>1, <1>3, GrownBy
<1>5. ASSUME NEW H, Settled(code, H, F) PROVE Settled(f, H, F)
  <2>1. /\ Written(script, code, threads, H, F) /\ HeldAll(code, builders)
        /\ Ready(script, threads, builders, c, code) /\ Reaching(script, threads, builders, c)
    BY <1>5 DEF Settled, Ready
  <2>2. Due(builders, c) \subseteq F
    BY <1>1, <2>1, DueIsFresh
  <2>3. FlushedTo(code, f, builders[Len(builders)]) /\ f \in Codes
    BY <1>1, <1>3
  <2>4. Written(script, f, threads, H, F) /\ HeldAll(f, builders)
    BY ONLY <2>1, <2>2, <2>3, FitsFlushed
  <2>5. Ready(script, threads, builders, c, f)
    BY <1>3, <2>1 DEF Ready
  <2> QED
    BY <1>3, <2>4, <2>5 DEF Settled
<1> QED
  BY <1>3, <1>4, <1>5

(* One instruction more, of a line that is due. *)
LEMMA AppendedFits ==
  ASSUME NEW H, NEW F, NEW now \in Codes, Settled(now, H, F), NEW t \in 1 .. Len(now), NEW x \in Instrs, NEW i \in Nat,
         x.lines = {i}, i \in F, i \in Due(builders, Cursor),
         NEW co2, Replaced(now, t, Append(now[t], x), co2),
         x.op \in Jumps => /\ ThreadOf(script, i) = threads[t].owner
                           /\ <<t, Len(now[t]) + 1>> \in H \/ Closed(script, co2[t], Len(now[t]) + 1, i, F)
  PROVE  Settled(co2, H, F)
<1> PICK c, xs : c = Cursor /\ xs = <<x>>
  OBVIOUS
<1>1. xs \in Seq(Instrs) /\ Len(xs) = 1 /\ \A k \in 1 .. Len(xs) : k = 1 /\ xs[k] = x
  OBVIOUS
<1>2. co2 \in Codes /\ Extended(now, co2, t, xs)
  BY AppendedBy
<1>3. LinesIn(xs, F) /\ LinesIn(xs, Due(builders, c))
  BY <1>1 DEF LinesIn
<1>4. JumpsIn(script, co2[t], Len(now[t]), t, threads[t].owner, H, F, xs)
  BY <1>1 DEF JumpsIn
<1>5. /\ Ready(script, threads, builders, c, now) /\ Written(script, now, threads, H, F) /\ HeldAll(now, builders)
      /\ t \in 1 .. Len(now)
  BY DEF Settled
<1>6. Written(script, co2, threads, H, F) /\ HeldAll(co2, builders)
  BY ONLY <1>1, <1>2, <1>3, <1>4, <1>5, FitsOn
<1>7. Len(co2) = Len(now)
  BY <1>2 DEF Extended
<1>8. Ready(script, threads, builders, c, co2)
  BY <1>2, <1>5, <1>7 DEF Ready
<1> QED
  BY <1>6, <1>7, <1>8 DEF Settled

(* The size is filled in at the end of the block. *)
LEMMA SizedFits ==
  ASSUME Working, Len(builders) > 1, Top.kind \notin SubThreads \cup {"thread"}, NEW now \in Codes,
         Settled(now, Places(builders), Fresh(builders, Cursor)), Stay(script, now, threads),
         NEW u \in Nat, Until(script, Top.begin - 1) = u, u <= Cursor + 1, Below(now[Top.thread], u),
         NEW bs2, Carries(builders, bs2, Len(builders) - 1, Cursor, Cursor + 1), Len(bs2) = Len(builders) - 1,
         \A d \in 1 .. Len(builders) - 1 : bs2[d].pending = builders[d].pending,
         NEW F2 \in SUBSET Fresh(builders, Cursor), \A i \in F2 : i \in Fresh(bs2, Cursor + 1) \/ i = u,
         NEW co2, co2 = Resized(now, Top, Size(now, Top))
  PROVE  co2 \in Codes /\ Relined(now, co2) /\ Settled(co2, Places(bs2), F2)
<1> PICK n, F : n = Len(builders) /\ F = Fresh(builders, Cursor)
  OBVIOUS
<1>1. n \in Nat \ {0} /\ Top = builders[n] /\ Len(bs2) # Len(builders) /\ (n - 1) + 1 = n /\ n .. n = {n}
  BY StepFrom, SMTT(60)
<1>2. /\ Written(script, now, threads, Places(builders), F) /\ HeldAll(now, builders)
      /\ Ready(script, threads, builders, Cursor, now) /\ Len(now) = Len(code)
  BY DEF Settled
<1>3. Reaching(script, threads, builders, Cursor)
  BY <1>2 DEF Ready
<1>4. Frees(Places(builders), Places(bs2), <<Top.thread, Top.place>>)
  <2>1. <<Top.thread, Top.place>> \in Places(builders)
    BY <1>1 DEF Places
  <2> PICK m, c, c2 : m = n - 1 /\ c = Cursor /\ c2 = Cursor + 1
    OBVIOUS
  <2>2. Carries(builders, bs2, m, c, c2) /\ Len(builders) \in Nat
    BY <1>1
  <2>3. \A d \in m + 1 .. Len(builders) : builders[d] = Top
    BY <1>1
  <2>4. ASSUME NEW h \in Places(builders) PROVE h \in Places(bs2) \/ h = <<Top.thread, Top.place>>
    <3>1. h \in Places(bs2) \/ \E d \in m + 1 .. Len(builders) :
            h = <<builders[d].thread, builders[d].place>> /\ builders[d].kind \notin SubThreads
      BY <2>2, PlacesCarried
    <3> QED
      BY <2>3, <3>1
  <2>5. \A h \in Places(builders) : h \in Places(bs2) \/ h = <<Top.thread, Top.place>>
    BY <2>4
  <2> QED
    BY <2>1, <2>5 DEF Frees
<1>5. Apart(script, Top.begin - 1, F2)
  <2> SUFFICES ASSUME NEW i \in F2 PROVE ~Inner(script, Top.begin - 1, i)
    BY DEF Apart
  <2>1. CASE i = u
    BY <2>1 DEF Inner
  <2>2. CASE i \in Fresh(bs2, Cursor + 1)
    BY <1>1, <1>3, <2>2, FreshApart
  <2> QED
    BY <2>1, <2>2
<1>6. /\ Top.kind \notin SubThreads \cup {"thread"} /\ Len(builders) > 1 /\ now \in Codes /\ Stay(script, now, threads)
      /\ u \in Nat /\ Until(script, Top.begin - 1) = u /\ F2 \in SUBSET F /\ co2 = Resized(now, Top, Size(now, Top))
      /\ Below(now[Top.thread], u) /\ Settled(now, Places(builders), F)
  OBVIOUS
<1> QED
  BY ONLY Working, <1>4, <1>5, <1>6, SizedOff

(* A builder that is done. *)
LEMMA ClosingFits ==
  ASSUME Working, Fit(script, code, threads, builders), Ended, Top.kind # "thread", NEW lines,
         lines = (IF Top.kind = "else" THEN Top.first + Top.done + 1 ELSE Top.done + 2), NEW bs2, bs2 = Return(lines),
         NEW co2 \in Codes, Grown(code, co2),
         Stay(script, co2, threads) /\ Settled(code, Places(builders), Fresh(builders, Cursor))
         => Written(script, co2, threads, Places(bs2), Fresh(bs2, Cursor + 1)) /\ HeldAll(co2, builders)
  PROVE  Fit(script, co2, threads, bs2)
<1> PICK m, c, c2 : m = Len(builders) - 1 /\ c = Cursor /\ c2 = Cursor + 1
  OBVIOUS
<1>1. Len(builders) \in Nat \ {0} /\ Len(code) = Len(threads) /\ Len(threads) \in Nat /\ c \in Nat \ {0}
  BY StepFrom
<1>2. Len(bs2) = m /\ Cur(bs2) = c2 /\ Carries(builders, bs2, m, c, c2)
  BY Returned
<1>3. script[c] = "end"
  BY Closes
<1>4. NoElse(script, builders, m, c, c2)
  <2>1. \A f \in c .. c2 - 1 : f = c
    BY <1>1
  <2> QED
    BY <1>3, <2>1 DEF NoElse
<1>5. MoreThreads(threads, threads, c)
  BY <1>1 DEF MoreThreads
<1>6. ASSUME Stay(script, co2, threads), Ready(script, threads, builders, c, code),
             Written(script, code, threads, Places(builders), Fresh(builders, c)), HeldAll(code, builders)
      PROVE  Written(script, co2, threads, Places(bs2), Fresh(bs2, c2)) /\ HeldAll(co2, bs2)
  <2>1. Settled(code, Places(builders), Fresh(builders, c))
    BY <1>6 DEF Settled
  <2>2. Written(script, co2, threads, Places(bs2), Fresh(bs2, c2)) /\ HeldAll(co2, builders)
    BY <1>6, <2>1
  <2>3. Len(bs2) # m + 1
    BY <1>1, <1>2
  <2>4. HeldAll(co2, bs2)
    BY <1>1, <1>2, <2>2, <2>3, HeldCarried
  <2> QED
    BY <2>2, <2>4
<1>7. /\ Len(bs2) = m + 1 /\ bs2[m + 1].kind \notin SubThreads => bs2[m + 1].known = Len(threads)
      /\ Carries(builders, bs2, m, Cursor, c2) /\ MoreThreads(threads, threads, Cursor) /\ NoElse(script, builders, m, Cursor, c2)
      /\ co2 \in Codes /\ Grown(code, co2)
  BY <1>1, <1>2, <1>4, <1>5
<1>8. /\ Stay(script, co2, threads) /\ Ready(script, threads, builders, Cursor, code)
      /\ Written(script, code, threads, Places(builders), Fresh(builders, Cursor)) /\ HeldAll(code, builders)
      => Written(script, co2, threads, Places(bs2), Fresh(bs2, c2)) /\ HeldAll(co2, bs2)
  BY <1>6
<1> QED
  BY ONLY Working, Fit(script, code, threads, builders), <1>2, <1>7, <1>8, FitNext

(* What is written has lines that were read. *)
LEMMA FinalBelow ==
  ASSUME Working, Ended, Top.kind # "thread", NEW f, f = Final, NEW t \in 1 .. Len(f), NEW u \in Nat, Cursor <= u
  PROVE  Below(f[t], u)
<1> PICK lines : lines = (IF Top.kind = "else" THEN Top.first + Top.done + 1 ELSE Top.done + 2)
  OBVIOUS
<1> PICK bs2 : bs2 = Return(lines)
  OBVIOUS
<1>1. Placed(script, f, threads, bs2, Cursor) /\ Cursor \in Nat
  BY Closes, StepFrom
<1>2. \A k \in 1 .. Len(f[t]) : \A i \in f[t][k].lines : i \in 1 .. Cursor - 1
  BY <1>1 DEF Placed
<1>3. \A i \in 1 .. Cursor - 1 : i < u
  BY <1>1
<1> QED
  BY <1>2, <1>3 DEF Below

LEMMA CloseIfFits ==
  ASSUME Working, Fit(script, code, threads, builders), CloseIf \/ CloseMulti
  PROVE  Fit(script, code', threads', builders')
<1> PICK bs2, co2, f : bs2 = builders' /\ co2 = code' /\ f = Final
  OBVIOUS
<1> PICK lines : lines = (IF Top.kind = "else" THEN Top.first + Top.done + 1 ELSE Top.done + 2)
  OBVIOUS
<1>1. /\ Ended /\ Top.kind \in {"if", "else", "multi"} /\ co2 = Resized(f, Top, Size(f, Top))
      /\ bs2 = Return(lines) /\ threads' = threads
  BY DEF CloseIf, CloseMulti
<1>2. Top.kind \notin SubThreads \cup {"thread"} /\ Top.kind # "thread" /\ Top.kind # "while"
  BY <1>1 DEF SubThreads
<1>3. f \in Codes /\ Len(f) = Len(code) /\ Grown(code, f)
  BY FinalFits
<1>4. Top \in Builders /\ Top.thread \in 1 .. Len(f) /\ Len(builders) > 1 /\ Cursor \in Lines(script) /\ script[Cursor] = "end"
      /\ Cursor \in Nat /\ code \in Codes
  BY <1>1, <1>2, <1>3, StepFrom, Closes
<1>5. co2 \in Codes /\ Relined(f, co2) /\ Grown(code, co2)
  <2>1. Size(f, Top) \in Int
    BY <1>3, <1>4, SizeIs
  <2>2. co2 \in Codes /\ Relined(f, co2)
    BY <1>1, <1>3, <1>4, <2>1, ResizedShape
  <2>3. Grown(f, co2)
    BY <1>3, <2>2, GrownBy
  <2> QED
    BY <1>3, <1>4, <2>2, <2>3, GrownBy
<1>6. ASSUME Stay(script, co2, threads), Settled(code, Places(builders), Fresh(builders, Cursor))
      PROVE  Written(script, co2, threads, Places(bs2), Fresh(bs2, Cursor + 1)) /\ HeldAll(co2, builders)
  <2>1. Settled(f, Places(builders), Fresh(builders, Cursor))
    BY <1>6, FinalFits
  <2>2. Stay(script, f, threads)
    <3>1. Grown(f, co2)
      BY <1>3, <1>5, GrownBy
    <3> QED
      BY <1>3, <1>5, <1>6, <3>1, StayBack
  <2> PICK u : u = Cursor
    OBVIOUS
  <2>3. Until(script, Top.begin - 1) = u /\ u \in Nat /\ u <= Cursor + 1
    <3>1. Reaching(script, threads, builders, Cursor)
      BY <1>6 DEF Settled, Ready
    <3> QED
      BY <1>2, <1>4, <3>1, UntilTop
  <2>4. Below(f[Top.thread], u)
    BY <1>1, <1>2, <1>4, FinalBelow
  <2>5. /\ Carries(builders, bs2, Len(builders) - 1, Cursor, Cursor + 1) /\ Len(bs2) = Len(builders) - 1
        /\ \A d \in 1 .. Len(builders) - 1 : bs2[d].pending = builders[d].pending
    BY <1>1, <1>2, Returned
  <2> PICK F2 : F2 = Fresh(bs2, Cursor + 1)
    OBVIOUS
  <2>6. F2 \in SUBSET Fresh(builders, Cursor) /\ \A i \in F2 : i \in Fresh(bs2, Cursor + 1) \/ i = u
    BY <1>4, <2>5, FreshCarried
  <2>7. Settled(co2, Places(bs2), F2)
    BY ONLY Working, <1>1, <1>2, <1>3, <1>4, <2>1, <2>2, <2>3, <2>4, <2>5, <2>6, SizedFits
  <2> QED
    BY <2>7 DEF Settled
<1>7. Fit(script, co2, threads, bs2)
  BY <1>1, <1>2, <1>5, <1>6, ClosingFits
<1> QED
  BY <1>1, <1>7

(* The block that the innermost builder builds is the one that ends. *)
LEMMA OpenerOfTop ==
  ASSUME Working, Cursor \in Lines(script), script[Cursor] = "end"
  PROVE  OpenerOf(script, Cursor) = Opener(builders, Len(builders))
<1> PICK n, c : n = Len(builders) /\ c = Cursor
  OBVIOUS
<1>1. Script(script) /\ Balanced(script) /\ n \in Nat \ {0} /\ c = Cur(builders)
  BY StepFrom
<1>2. Nested(script, builders, c)
  BY <1>1, CursorIs DEF Working, Good
<1>3. /\ n > 1 /\ EndOf(script, Opener(builders, n)) = c
      /\ \A d \in 2 .. n - 1 : c < EndOf(script, Opener(builders, d))
  BY <1>1, <1>2, TopEnds
<1> PICK o : o = Opener(builders, n)
  OBVIOUS
<1>4. Lines(script) = 1 .. Len(script) /\ Len(script) \in Nat /\ c \in Nat
  BY <1>1, LinesAre
<1>5. o \in Lines(script) /\ script[o] \in Openers /\ EndOf(script, o) = c
  BY <1>1, <1>2, <1>3, <1>4, SMTT(30), ZenonT(30) DEF Nested
<1>6. ASSUME NEW p \in Lines(script), script[p] \in Openers, EndOf(script, p) = c
      PROVE  p = o
  <2>1. p < c
    BY <1>1, <1>6, EndOfBlock DEF Ends
  <2>2. p \in 1 .. c - 1
    BY <1>4, <2>1
  <2>3. ~(EndOf(script, p) < c)
    BY <1>4, <1>6
  <2>4. PICK d \in 2 .. n : p = Opener(builders, d)
    BY <1>2, <1>6, <2>2, <2>3 DEF Nested
  <2>5. d \notin 2 .. n - 1
    BY <1>3, <1>4, <1>6, <2>4
  <2>6. d = n
    BY <1>1, <2>5
  <2> QED
    BY <2>4, <2>6
<1> QED
  BY <1>5, <1>6 DEF OpenerOf

LEMMA CursorIsDue ==
  ASSUME NEW c \in Nat, NEW bs
  PROVE  c \in Fresh(bs, c) /\ c \in Due(bs, c)
<1>1. c \in Due(bs, c)
  BY DEF Due
<1>2. c >= c
  OBVIOUS
<1> QED
  BY <1>1, <1>2 DEF Fresh

LEMMA CloseWhileFits ==
  ASSUME Working, Fit(script, code, threads, builders), CloseWhile
  PROVE  Fit(script, code', threads', builders')
<1> PICK bs2, co2, f, t : bs2 = builders' /\ co2 = code' /\ f = Final /\ t = Top.thread
  OBVIOUS
<1> PICK lines : lines = (IF Top.kind = "else" THEN Top.first + Top.done + 1 ELSE Top.done + 2)
  OBVIOUS
<1> PICK x : x = Instruction("rewind", {Cursor}, Size(f, Top) + 1, "update")
  OBVIOUS
<1> PICK now : now = [f EXCEPT ![t] = Append(@, x)]
  OBVIOUS
<1>1. /\ Ended /\ Top.kind = "while" /\ co2 = Resized(now, Top, Size(now, Top))
      /\ bs2 = Return(lines) /\ threads' = threads
  BY DEF CloseWhile
<1>2. Top.kind \notin SubThreads \cup {"thread"} /\ Top.kind # "thread"
  BY <1>1 DEF SubThreads
<1>3. f \in Codes /\ Len(f) = Len(code) /\ Grown(code, f)
  BY FinalFits
<1>4. Top \in Builders /\ t \in 1 .. Len(f) /\ Len(builders) > 1 /\ Cursor \in Lines(script) /\ script[Cursor] = "end"
      /\ Cursor \in Nat /\ code \in Codes
  BY <1>1, <1>2, <1>3, StepFrom, Closes
<1>5. Size(f, Top) \in Int /\ Len(f[t]) \in Nat
  BY <1>3, <1>4, SizeIs, CodesAre
<1>6. x \in Instrs /\ x.lines = {Cursor} /\ x.op = "rewind" /\ x.size = Size(f, Top) + 1
  BY <1>4, <1>5 DEF Instruction, Instrs, Ops, Flows
<1>7. Replaced(f, t, Append(f[t], x), now)
  BY DEF Replaced
<1> PICK xs : xs = <<x>>
  OBVIOUS
<1>8. now \in Codes /\ Extended(f, now, t, xs) /\ xs \in Seq(Instrs) /\ Len(xs) = 1 /\ xs[1] = x
  BY <1>3, <1>4, <1>6, <1>7, AppendedBy
<1>9. /\ Len(now) = Len(f) /\ Len(now[t]) = Len(f[t]) + 1 /\ now[t][Len(f[t]) + 1] = x
      /\ \A k \in 1 .. Len(f[t]) : now[t][k] = f[t][k]
  <2>1. 1 \in 1 .. Len(xs)
    BY <1>8
  <2>2. now[t][Len(f[t]) + 1] = xs[1]
    BY <1>8, <2>1 DEF Extended
  <2> QED
    BY <1>8, <2>2 DEF Extended
<1>10. Grown(code, now)
  <2>1. Grown(f, now)
    BY <1>3, <1>8, GrownExtended
  <2> QED
    BY <1>3, <1>4, <1>8, <2>1, GrownBy
<1>11. co2 \in Codes /\ Relined(now, co2) /\ Grown(now, co2) /\ Grown(code, co2)
  <2>1. Size(now, Top) \in Int
    BY <1>4, <1>8, <1>9, SizeIs
  <2> PICK size : size = Size(now, Top)
    OBVIOUS
  <2>0. now \in Codes /\ Top.thread \in 1 .. Len(now) /\ size \in Int /\ co2 = Resized(now, Top, size)
    BY <1>1, <1>4, <1>8, <1>9, <2>1
  <2>2. co2 \in Codes /\ Relined(now, co2)
    BY ONLY <2>0, ResizedShape
  <2>3. Grown(now, co2)
    BY <1>8, <2>2, GrownBy
  <2> QED
    BY <1>4, <1>8, <1>10, <2>2, <2>3, GrownBy
<1>12. ASSUME Stay(script, co2, threads), Settled(code, Places(builders), Fresh(builders, Cursor))
       PROVE  Written(script, co2, threads, Places(bs2), Fresh(bs2, Cursor + 1)) /\ HeldAll(co2, builders)
  <2> PICK H, F, c : H = Places(builders) /\ F = Fresh(builders, Cursor) /\ c = Cursor
    OBVIOUS
  <2>1. Settled(f, H, F)
    BY <1>12, FinalFits
  <2>2. Held(f[t], Top)
    BY <1>2, <1>4, <2>1, StepFrom, SMTT(60) DEF Settled, HeldAll
  <2>3. Closed(script, now[t], Len(f[t]) + 1, c, F)
    <3> PICK k, p : k = Len(f[t]) + 1 /\ p = Top.place
      OBVIOUS
    <3>1. p = Top.count /\ p \in 1 .. Len(f[t]) /\ f[t][p].lines = {Top.begin - 1} /\ f[t][p].op = "if"
      BY <1>1, <2>2 DEF Held, OpOf
    <3>2. now[t][k] = x /\ x.size = (Len(f[t]) - p) + 1
      BY <1>6, <1>9, <3>1 DEF Size
    <3>3. x.size \in Nat /\ k > x.size /\ k - x.size = p
      <4> PICK n : n = Len(f[t])
        OBVIOUS
      <4>1. n \in Nat /\ k = n + 1 /\ p \in 1 .. n /\ x.size = (n - p) + 1
        BY <1>5, <3>1, <3>2
      <4> QED
        BY ONLY <4>1
    <3>4. OpenerOf(script, c) = Top.begin - 1
      BY <1>1, <1>4, OpenerOfTop, StepFrom DEF Opener
    <3>5. now[t][p] = f[t][p]
      BY <1>9, <3>1
    <3> QED
      BY <1>6, <3>1, <3>2, <3>3, <3>4, <3>5, ZenonT(60) DEF Closed, Returns
  <2>4. ThreadOf(script, c) = threads[t].owner
    BY <1>1, <1>4, EndIsOfThread
  <2>5. c \in F /\ c \in Due(builders, Cursor) /\ c \in Nat /\ x.lines = {c}
    BY <1>4, <1>6, CursorIsDue
  <2>6. Settled(now, H, F)
    <3>1. /\ f \in Codes /\ t \in 1 .. Len(f) /\ x \in Instrs
          /\ x.op \in Jumps => /\ ThreadOf(script, c) = threads[t].owner
                               /\ <<t, Len(f[t]) + 1>> \in H \/ Closed(script, now[t], Len(f[t]) + 1, c, F)
      BY <1>3, <1>4, <1>6, <2>3, <2>4
    <3> QED
      BY ONLY <1>7, <2>1, <2>5, <3>1, AppendedFits
  <2>7. Stay(script, now, threads)
    BY <1>8, <1>11, <1>12, StayBack
  <2> PICK u : u = Cursor + 1
    OBVIOUS
  <2>8. Until(script, Top.begin - 1) = u /\ u \in Nat /\ u <= Cursor + 1
    <3>1. Reaching(script, threads, builders, Cursor)
      BY <2>1 DEF Settled, Ready
    <3> QED
      BY <1>1, <1>2, <1>4, <3>1, UntilTop
  <2>9. Below(now[t], u)
    <3>1. Below(f[t], u)
      BY <1>1, <1>2, <1>4, <2>8, FinalBelow
    <3>2. \A k \in 1 .. Len(now[t]) : k \in 1 .. Len(f[t]) \/ k = Len(f[t]) + 1
      BY <1>5, <1>9
    <3>3. \A i \in x.lines : i < u
      <4>1. c < u
        BY <1>4
      <4> QED
        BY <1>6, <4>1
    <3> QED
      BY <1>9, <3>1, <3>2, <3>3 DEF Below
  <2>10. /\ Carries(builders, bs2, Len(builders) - 1, Cursor, Cursor + 1) /\ Len(bs2) = Len(builders) - 1
         /\ \A d \in 1 .. Len(builders) - 1 : bs2[d].pending = builders[d].pending
    BY <1>1, <1>2, Returned
  <2> PICK F2 : F2 = Fresh(bs2, Cursor + 1)
    OBVIOUS
  <2>11. F2 \in SUBSET Fresh(builders, Cursor) /\ \A i \in F2 : i \in Fresh(bs2, Cursor + 1) \/ i = u
    BY <1>4, <2>10, FreshCarried
  <2>12. Settled(now, Places(builders), Fresh(builders, Cursor)) /\ Below(now[Top.thread], u)
    BY <2>6, <2>9
  <2>13. Settled(co2, Places(bs2), F2)
    BY ONLY Working, <1>1, <1>2, <1>4, <1>8, <2>7, <2>8, <2>10, <2>11, <2>12, SizedFits
  <2> QED
    BY <2>13 DEF Settled
<1>13. Fit(script, co2, threads, bs2)
  BY <1>1, <1>2, <1>11, <1>12, ClosingFits
<1> QED
  BY <1>1, <1>13

LEMMA CloseCadenceFits ==
  ASSUME Working, Fit(script, code, threads, builders), CloseCadence
  PROVE  Fit(script, code', threads', builders')
<1> PICK bs2, co2, f, t : bs2 = builders' /\ co2 = code' /\ f = Final /\ t = Top.thread
  OBVIOUS
<1> PICK lines : lines = (IF Top.kind = "else" THEN Top.first + Top.done + 1 ELSE Top.done + 2)
  OBVIOUS
<1> PICK x : x = Instruction("cadence", {Cursor}, 0, builders[Depth - 1].cadence)
  OBVIOUS
<1> PICK now : now = Resized(f, Top, Size(f, Top))
  OBVIOUS
<1>1. /\ Ended /\ Top.kind \in Cadences /\ co2 = [now EXCEPT ![t] = Append(@, x)]
      /\ bs2 = Return(lines) /\ threads' = threads
  BY DEF CloseCadence, Cadences
<1>2. Top.kind \notin SubThreads \cup {"thread"} /\ Top.kind # "thread" /\ Top.kind # "while"
  BY <1>1 DEF SubThreads, Cadences
<1>3. f \in Codes /\ Len(f) = Len(code) /\ Grown(code, f)
  BY FinalFits
<1>4. Top \in Builders /\ t \in 1 .. Len(f) /\ Len(builders) > 1 /\ Cursor \in Lines(script) /\ script[Cursor] = "end"
      /\ Cursor \in Nat /\ code \in Codes
  BY <1>1, <1>2, <1>3, StepFrom, Closes
<1>5. now \in Codes /\ Relined(f, now) /\ Len(now) = Len(f)
  <2> PICK size : size = Size(f, Top)
    OBVIOUS
  <2>1. f \in Codes /\ Top.thread \in 1 .. Len(f) /\ size \in Int /\ now = Resized(f, Top, size)
    BY <1>3, <1>4, SizeIs
  <2>2. now \in Codes /\ Relined(f, now)
    BY ONLY <2>1, ResizedShape
  <2> QED
    BY <2>2 DEF Relined
<1>6. x \in Instrs /\ x.lines = {Cursor} /\ x.op = "cadence" /\ x.size = 0
  <2>1. Depth - 1 \in 1 .. Depth
    BY <1>4, StepFrom, SMTT(60)
  <2>2. builders[Depth - 1].cadence \in Flows
    BY <2>1, StepFrom DEF Builders
  <2> QED
    BY <1>4, <2>2 DEF Instruction, Instrs, Ops
<1>7. Replaced(now, t, Append(now[t], x), co2)
  BY <1>1 DEF Replaced
<1> PICK xs : xs = <<x>>
  OBVIOUS
<1>8. co2 \in Codes /\ Extended(now, co2, t, xs) /\ xs \in Seq(Instrs)
  BY <1>4, <1>5, <1>6, <1>7, AppendedBy
<1>9. Grown(f, now) /\ Grown(now, co2) /\ Grown(code, co2) /\ Grown(f, co2)
  <2>1. Grown(f, now)
    BY <1>3, <1>5, GrownBy
  <2>2. Grown(now, co2)
    BY <1>5, <1>8, GrownExtended
  <2>3. Grown(f, co2)
    BY <1>3, <1>5, <1>8, <2>1, <2>2, GrownBy
  <2> QED
    BY <1>3, <1>4, <1>8, <2>1, <2>2, <2>3, GrownBy
<1>10. ASSUME Stay(script, co2, threads), Settled(code, Places(builders), Fresh(builders, Cursor))
       PROVE  Written(script, co2, threads, Places(bs2), Fresh(bs2, Cursor + 1)) /\ HeldAll(co2, builders)
  <2>1. Settled(f, Places(builders), Fresh(builders, Cursor))
    BY <1>10, FinalFits
  <2>2. Stay(script, f, threads)
    BY <1>3, <1>8, <1>9, <1>10, StayBack
  <2> PICK u, c : u = Cursor /\ c = Cursor
    OBVIOUS
  <2>3. Until(script, Top.begin - 1) = u /\ u \in Nat /\ u <= Cursor + 1
    <3>1. Reaching(script, threads, builders, Cursor)
      BY <1>10 DEF Settled, Ready
    <3> QED
      BY <1>2, <1>4, <3>1, UntilTop
  <2>4. Below(f[Top.thread], u)
    BY <1>1, <1>2, <1>4, FinalBelow
  <2>5. /\ Carries(builders, bs2, Len(builders) - 1, Cursor, Cursor + 1) /\ Len(bs2) = Len(builders) - 1
        /\ \A d \in 1 .. Len(builders) - 1 : bs2[d].pending = builders[d].pending
    BY <1>1, <1>2, Returned
  <2> PICK F1, F2, H2 : F1 = Fresh(bs2, Cursor + 1) /\ F2 = F1 \cup {c} /\ H2 = Places(bs2)
    OBVIOUS
  <2>6. F2 \in SUBSET Fresh(builders, Cursor) /\ \A i \in F2 : i \in Fresh(bs2, Cursor + 1) \/ i = u
    <3>1. F1 \subseteq Fresh(builders, Cursor)
      BY <1>4, <2>5, FreshCarried
    <3>2. c \in Fresh(builders, Cursor)
      BY <1>4, CursorIsDue
    <3> QED
      BY <3>1, <3>2
  <2>7. now = Resized(f, Top, Size(f, Top)) /\ H2 = Places(bs2)
    OBVIOUS
  <2>8. Settled(now, H2, F2)
    BY ONLY Working, <1>1, <1>2, <1>3, <1>4, <2>1, <2>2, <2>3, <2>4, <2>5, <2>6, <2>7, SizedFits
  <2>9. ThreadOf(script, c) = threads[t].owner
    BY <1>1, <1>4, EndIsOfThread
  <2>10. c \in F2 /\ c \in Due(builders, Cursor) /\ c \in Nat /\ x.lines = {c}
    BY <1>4, <1>6, CursorIsDue
  <2>11. Closed(script, co2[t], Len(now[t]) + 1, c, F2)
    <3>1. 1 \in 1 .. Len(xs) /\ xs[1] = x
      OBVIOUS
    <3>2. co2[t][Len(now[t]) + 1] = x
      BY <1>8, <3>1 DEF Extended
    <3> QED
      BY <1>4, <1>6, <3>2 DEF Closed, Cadences
  <2>12. Settled(co2, H2, F2)
    <3>1. /\ now \in Codes /\ t \in 1 .. Len(now) /\ x \in Instrs
          /\ x.op \in Jumps => /\ ThreadOf(script, c) = threads[t].owner
                               /\ <<t, Len(now[t]) + 1>> \in H2 \/ Closed(script, co2[t], Len(now[t]) + 1, c, F2)
      BY <1>4, <1>5, <1>6, <2>9, <2>11
    <3> QED
      BY ONLY <1>7, <2>8, <2>10, <3>1, AppendedFits
  <2>13. Written(script, co2, threads, H2, F2) /\ HeldAll(co2, builders)
    BY <2>12 DEF Settled
  <2>14. F1 \in SUBSET F2 /\ H2 \subseteq H2
    OBVIOUS
  <2>15. Written(script, co2, threads, H2, F1)
    BY ONLY <2>13, <2>14, WrittenLess
  <2> QED
    BY <2>13, <2>15
<1>11. Fit(script, co2, threads, bs2)
  BY <1>1, <1>2, <1>8, <1>9, <1>10, ClosingFits
<1> QED
  BY <1>1, <1>11

LEMMA CloseThreadFits ==
  ASSUME Working, Fit(script, code, threads, builders), CloseThread
  PROVE  Fit(script, code', threads', builders')
<1> PICK bs2, co2, f, t : bs2 = builders' /\ co2 = code' /\ f = Final /\ t = builders[Depth - 1].thread
  OBVIOUS
<1> PICK lines, i : lines = (IF Top.kind = "else" THEN Top.first + Top.done + 1 ELSE Top.done + 2) /\ i = Top.begin - 1
  OBVIOUS
<1> PICK x : x = Bare("spawn", i)
  OBVIOUS
<1>1. /\ Ended /\ Top.kind \in SubThreads /\ co2 = [f EXCEPT ![t] = Append(@, x)]
      /\ bs2 = Return(lines) /\ threads' = threads
  BY DEF CloseThread, SubThreads
<1>2. Top.kind # "thread" /\ Top.kind # "else"
  BY <1>1 DEF SubThreads
<1>3. f \in Codes /\ Len(f) = Len(code) /\ Grown(code, f)
  BY FinalFits
<1>4. /\ Len(builders) > 1 /\ Cursor \in Nat /\ code \in Codes /\ Len(builders) \in Nat /\ Top = builders[Len(builders)]
      /\ Depth = Len(builders) /\ \A d \in 1 .. Len(builders) : builders[d].thread \in 1 .. Len(f) /\ builders[d] \in Builders
  BY <1>1, <1>2, <1>3, StepFrom, Closes
<1>5. t \in 1 .. Len(f) /\ Len(builders) \in 2 .. Len(builders)
  <2>1. Depth - 1 \in 1 .. Len(builders)
    BY <1>4
  <2> QED
    BY <1>4, <2>1, SMTT(30), ZenonT(30)
<1>6. i \in Nat
  <2>0. Script(script) /\ Balanced(script) /\ Cursor = Cur(builders) /\ Stacked(script, builders)
    BY StepFrom DEF Working, Good
  <2>1. Nested(script, builders, Cursor)
    BY <2>0, CursorIs
  <2>2. Opener(builders, Len(builders)) \in 1 .. Cursor - 1
    BY <1>5, <2>1 DEF Nested
  <2>3. Opener(builders, Len(builders)) = i
    BY <1>2, <1>4 DEF Opener
  <2> QED
    BY <2>2, <2>3
<1>7. x \in Instrs /\ x.lines = {i} /\ x.op = "spawn"
  BY <1>6 DEF Bare, Instruction, Instrs, Ops, Flows
<1>8. Replaced(f, t, Append(f[t], x), co2)
  BY <1>1 DEF Replaced
<1> PICK xs : xs = <<x>>
  OBVIOUS
<1>9. co2 \in Codes /\ Extended(f, co2, t, xs) /\ xs \in Seq(Instrs)
  BY <1>3, <1>5, <1>7, <1>8, AppendedBy
<1>10. Grown(code, co2)
  <2>1. Grown(f, co2)
    BY <1>3, <1>9, GrownExtended
  <2> QED
    BY <1>3, <1>4, <1>9, <2>1, GrownBy
<1>11. ASSUME Stay(script, co2, threads), Settled(code, Places(builders), Fresh(builders, Cursor))
       PROVE  Written(script, co2, threads, Places(bs2), Fresh(bs2, Cursor + 1)) /\ HeldAll(co2, builders)
  <2> PICK H, F, m, c, c2 : H = Places(builders) /\ F = Fresh(builders, Cursor) /\ m = Len(builders) - 1
                            /\ c = Cursor /\ c2 = Cursor + 1
    OBVIOUS
  <2>1. Settled(f, H, F) /\ Reaching(script, threads, builders, c)
    BY <1>11, FinalFits DEF Settled, Ready
  <2>2. i \in Due(builders, c)
    <3>1. i \in {j \in Nat : j = Top.begin - 1 /\ Len(builders) > 1 /\ Top.kind \in SubThreads}
      BY <1>1, <1>4, <1>6
    <3> QED
      BY <1>4, <3>1, SMTT(30), ZenonT(30) DEF Due
  <2>3. i \in F /\ i \in Due(builders, Cursor) /\ i \in Nat /\ x.lines = {i}
    <3>1. c \in Nat /\ Len(builders) \in Nat \ {0} /\ \A d \in 1 .. Len(builders) : builders[d] \in Builders
      BY <1>4
    <3>2. i \in Fresh(builders, c)
      BY ONLY <2>1, <2>2, <3>1, DueIsFresh
    <3> QED
      BY <1>6, <1>7, <2>2, <3>2
  <2>4. Settled(co2, H, F)
    <3>1. /\ f \in Codes /\ t \in 1 .. Len(f) /\ x \in Instrs
          /\ x.op \in Jumps => /\ ThreadOf(script, i) = threads[t].owner
                               /\ <<t, Len(f[t]) + 1>> \in H \/ Closed(script, co2[t], Len(f[t]) + 1, i, F)
      BY <1>3, <1>5, <1>7, SMTT(30), ZenonT(60) DEF Jumps
    <3> QED
      BY ONLY <1>8, <2>1, <2>3, <3>1, AppendedFits
  <2>5. Written(script, co2, threads, H, F) /\ HeldAll(co2, builders)
    BY <2>4 DEF Settled
  <2>6. Carries(builders, bs2, m, c, c2) /\ Len(builders) \in Nat
    BY <1>1, <1>2, <1>4, Returned
  <2>7. Fresh(bs2, c2) \in SUBSET F
    BY <2>6, FreshCarried
  <2>8. H \subseteq Places(bs2)
    <3>1. \A d \in m + 1 .. Len(builders) : builders[d] = Top
      BY <1>4
    <3>2. ASSUME NEW h \in Places(builders) PROVE h \in Places(bs2)
      <4>1. h \in Places(bs2) \/ \E d \in m + 1 .. Len(builders) :
              h = <<builders[d].thread, builders[d].place>> /\ builders[d].kind \notin SubThreads
        BY ONLY <2>6, PlacesCarried, ZenonT(60)
      <4> QED
        BY <1>1, <3>1, <4>1
    <3> QED
      BY <3>2
  <2>9. Written(script, co2, threads, Places(bs2), Fresh(bs2, c2))
    BY ONLY <2>5, <2>7, <2>8, WrittenLess
  <2> QED
    BY <2>5, <2>9
<1>12. Fit(script, co2, threads, bs2)
  BY <1>1, <1>2, <1>9, <1>10, <1>11, ClosingFits
<1> QED
  BY <1>1, <1>12

LEMMA ElseFits ==
  ASSUME Working, Fit(script, code, threads, builders), Else
  PROVE  Fit(script, code', threads', builders')
<1> PICK bs2, co2, f, t, p : bs2 = builders' /\ co2 = code' /\ f = Final /\ t = Top.thread /\ p = Top.place
  OBVIOUS
<1>sized. PICK x, sized : x = Bare("skip", Cursor) /\ sized = Resized(f, Top, Size(f, Top))
  OBVIOUS
<1>now. PICK now : now = [sized EXCEPT ![t] = Append(@, x)]
  OBVIOUS
<1>at. PICK at, known : at = Len(now[t]) /\ known = Len(code)
  OBVIOUS
<1>b. PICK b : b = Builder("else", t, Top.begin + Top.done + 1, at, at, known, Top.cadence, Top.done + 2)
  OBVIOUS
<1> PICK n, m, c, c2 : n = Len(builders) /\ m = Len(builders) - 1 /\ c = Cursor /\ c2 = Cursor + 1
  OBVIOUS
<1>1. /\ Reading /\ Line = "else" /\ Top.kind = "if" /\ threads' = threads
      /\ co2 = IF Moved(Top, now) THEN now ELSE [now EXCEPT ![t][p].size = @ + 1]
      /\ Replaced(builders, Depth, b, bs2)
  BY <1>sized, <1>now, <1>at, <1>b, SMTT(30), ZenonT(60) DEF Else, Replaced
<1>2. /\ Top \in Builders /\ n \in Nat \ {0} /\ Top = builders[n] /\ t \in 1 .. Len(code) /\ code \in Codes
      /\ Depth = n /\ builders \in Seq(Builders) /\ Len(builders) > 0 /\ Len(code) \in Nat /\ c = Cur(builders)
      /\ Script(script) /\ Balanced(script) /\ Top.done \in Nat /\ Top.begin \in Nat /\ c = Top.begin + Top.done /\ c \in Nat
      /\ Len(code) = Len(threads) /\ \A d \in 1 .. n : builders[d].thread \in 1 .. Len(code) /\ builders[d] \in Builders
  BY StepFrom
<1>3. c \in Lines(script) /\ script[c] = "else" /\ ThreadOf(script, c) = threads[t].owner
  BY <1>1, Reads
<1>4. n > 1 /\ Innermost(script, c, Openers) = Opener(builders, n)
  BY <1>3, ElseIsOfTop
<1>5. c2 \in Nat /\ c2 = c + 1 /\ m \in Nat /\ m + 1 = n /\ m > 0 /\ n \in 2 .. n
  BY <1>2, <1>4
<1>6. f \in Codes /\ Len(f) = Len(code) /\ Grown(code, f)
  BY FinalFits
<1>7. sized \in Codes /\ Relined(f, sized) /\ Len(sized) = Len(f)
  <2> PICK size : size = Size(f, Top)
    OBVIOUS
  <2>1. f \in Codes /\ Top.thread \in 1 .. Len(f) /\ size \in Int /\ sized = Resized(f, Top, size)
    BY <1>2, <1>6, <1>sized, SizeIs
  <2>2. sized \in Codes /\ Relined(f, sized)
    BY ONLY <2>1, ResizedShape
  <2> QED
    BY <2>2 DEF Relined
<1>8. x \in Instrs /\ x.lines = {c} /\ x.op = "skip"
  <2>1. x = Bare("skip", c) /\ c \in Nat
    BY <1>2, <1>sized
  <2> QED
    BY ONLY <2>1 DEF Bare, Instruction, Instrs, Ops, Flows
<1>9. Replaced(sized, t, Append(sized[t], x), now) /\ t \in 1 .. Len(sized)
  BY <1>2, <1>6, <1>7, <1>now DEF Replaced
<1>xs. PICK xs : xs = <<x>>
  OBVIOUS
<1>10. now \in Codes /\ Extended(sized, now, t, xs) /\ xs \in Seq(Instrs) /\ 1 \in 1 .. Len(xs) /\ xs[1] = x /\ Len(xs) = 1
  BY <1>7, <1>8, <1>9, <1>xs, AppendedBy
<1>11. /\ Len(now) = Len(f) /\ at = Len(sized[t]) + 1 /\ now[t][at] = x /\ Len(sized[t]) = Len(f[t]) /\ Len(f[t]) \in Nat
       /\ \A k \in 1 .. Len(f[t]) : now[t][k] = sized[t][k] /\ sized[t][k].lines = f[t][k].lines
  <2>1. Len(now) = Len(f) /\ at = Len(sized[t]) + 1
    BY <1>7, <1>10, <1>at DEF Extended
  <2>2. Len(sized[t]) = Len(f[t]) /\ \A k \in 1 .. Len(f[t]) : sized[t][k].lines = f[t][k].lines
    BY <1>7, <1>9 DEF Relined
  <2>3. now[t][Len(sized[t]) + 1] = xs[1]
    BY <1>10 DEF Extended
  <2>4. \A k \in 1 .. Len(sized[t]) : now[t][k] = sized[t][k]
    BY <1>10 DEF Extended
  <2>5. Len(f[t]) \in Nat
    BY <1>6, <1>7, <1>9, CodesAre
  <2> QED
    BY <1>10, <2>1, <2>2, <2>3, <2>4, <2>5
<1> PICK e : e = Len(f[t])
  OBVIOUS
<1>12. /\ e \in Nat /\ at = e + 1 /\ at \in Nat /\ at \in 1 .. at /\ Len(now[t]) = at /\ t \in 1 .. Len(now) /\ t \in Nat
       /\ \A k \in 1 .. at : k \in 1 .. e \/ k = at
  <2>1. e \in Nat /\ at = e + 1
    BY <1>11
  <2>2. at \in Nat /\ at \in 1 .. at /\ \A k \in 1 .. at : k \in 1 .. e \/ k = at
    BY ONLY <2>1
  <2>3. t \in 1 .. Len(now) /\ Len(now) = Len(code)
    BY <1>2, <1>6, <1>11
  <2> QED
    BY ONLY <1>2, <1>at, <2>1, <2>2, <2>3, SMTT(60)
<1>13. co2 \in Codes /\ Relined(now, co2)
  <2>1. CASE Moved(Top, now)
    <3>1. co2 = now
      BY <1>1, <2>1
    <3> QED
      BY <1>10, <3>1 DEF Relined
  <2>2. CASE ~Moved(Top, now)
    <3> PICK size : size = now[t][p].size + 1
      OBVIOUS
    <3>1. co2 = [now EXCEPT ![t][p].size = size]
      BY <1>1, <2>2
    <3>2. now \in Codes /\ t \in 1 .. Len(now)
      BY <1>10, <1>12
    <3>3. p \in 1 .. Len(now[t]) => size \in Int
      <4>1. p \in 1 .. Len(now[t]) => now[t][p] \in Instrs
        BY ONLY <3>2, CodesAre
      <4> QED
        BY <4>1, SMTT(60) DEF Instrs
    <3> QED
      BY ONLY <3>1, <3>2, <3>3, RelinedBy
  <2> QED
    BY <2>1, <2>2
<1>14. Grown(code, co2) /\ Grown(f, co2) /\ Grown(sized, co2) /\ Grown(now, co2)
  <2>1. Grown(f, sized) /\ Grown(now, co2)
    BY <1>6, <1>7, <1>10, <1>13, GrownBy
  <2>2. Grown(sized, now)
    BY <1>7, <1>10, GrownExtended
  <2>3. Grown(sized, co2)
    BY <1>7, <1>10, <1>13, <2>1, <2>2, GrownBy
  <2>4. Grown(f, co2)
    BY <1>6, <1>7, <1>13, <2>1, <2>3, GrownBy
  <2>5. Grown(code, co2)
    BY <1>2, <1>6, <1>13, <2>4, GrownBy
  <2> QED
    BY <2>1, <2>3, <2>4, <2>5
<1>15. /\ b \in Builders /\ b.kind = "else" /\ b.thread = t /\ b.begin = c2 /\ b.done = 0 /\ b.pending = {}
       /\ b.place = at /\ b.count = at /\ b.known = known
  <2>1. "else" \in Kinds /\ Top.cadence \in Flows
    BY <1>2 DEF Kinds, Builders
  <2>2. at \in Nat /\ known \in Nat /\ t \in Nat /\ Top.begin + Top.done + 1 = c2 /\ Top.done + 2 \in Nat
    <3> PICK b0, d0 : b0 = Top.begin /\ d0 = Top.done
      OBVIOUS
    <3>1. b0 \in Nat /\ d0 \in Nat /\ c = b0 + d0 /\ c2 = c + 1
      BY <1>2, <1>5
    <3>2. b0 + d0 + 1 = c2 /\ d0 + 2 \in Nat
      BY ONLY <3>1, SMTT(60)
    <3> QED
      BY <1>2, <1>12, <1>at, <3>2
  <2> QED
    BY <1>5, <1>b, <2>1, <2>2 DEF Builder, Builders
<1>16. Onto(builders, bs2, b)
  BY <1>1, <1>2, <1>15, OntoBy
<1>17. Len(bs2) = n /\ bs2[n] = b /\ \A d \in 1 .. m : bs2[d] = builders[d]
  BY <1>16 DEF Onto
<1>18. Carries(builders, bs2, m, c, c2)
  <2>1. Len(builders) \in Nat \ {0} /\ c \in Nat /\ b.begin = c + 1 /\ b.pending = {}
    BY <1>2, <1>5, <1>15
  <2>2. Carries(builders, bs2, Len(builders) - 1, c, c + 1)
    BY ONLY <1>16, <2>1, CarriesElse
  <2> QED
    BY <1>5, <2>2
<1>19. Cur(bs2) = c2
  BY <1>5, <1>15, <1>17 DEF Cur, At
<1>20. NoElse(script, builders, m, c, c2)
  <2> SUFFICES ASSUME NEW fl \in c .. c2 - 1, NEW d \in 2 .. m PROVE Innermost(script, fl, Openers) # Opener(builders, d)
    BY DEF NoElse
  <2>1. fl = c /\ n \in d + 1 .. n /\ d \in 2 .. n
    BY <1>2, <1>5, SMTT(60)
  <2>2. Stacked(script, builders) /\ Nested(script, builders, c)
    BY <1>2, CursorIs DEF Working, Good
  <2>3. Opener(builders, d) < Opener(builders, n) /\ Opener(builders, n) \in 1 .. c - 1
    BY <1>5, <2>1, <2>2 DEF Nested
  <2>4. Opener(builders, d) \in 1 .. c - 1
    BY <2>1, <2>2 DEF Nested
  <2> QED
    BY <1>4, <2>1, <2>3, <2>4
<1>21. MoreThreads(threads, threads, c)
  BY <1>2 DEF MoreThreads
<1>22. ASSUME Stay(script, co2, threads), Ready(script, threads, builders, c, code),
              Written(script, code, threads, Places(builders), Fresh(builders, c)), HeldAll(code, builders)
       PROVE  Written(script, co2, threads, Places(bs2), Fresh(bs2, c2)) /\ HeldAll(co2, bs2)
  <2> PICK H2, H, F, F2 : H2 = Places(bs2) /\ H = Places(builders) \cup Places(bs2) /\ F = Fresh(builders, Cursor)
                          /\ F2 = Fresh(bs2, c2)
    OBVIOUS
  <2>1. Settled(f, H, F) /\ Reaching(script, threads, builders, Cursor)
    <3>1. Places(builders) \subseteq H /\ F \in SUBSET F
      OBVIOUS
    <3>2. Written(script, code, threads, H, F)
      BY <1>22, <3>1, WrittenLess
    <3>3. Settled(code, H, F)
      BY <1>22, <3>2 DEF Settled
    <3> QED
      BY <1>22, <3>3, FinalFits DEF Ready
  <2>2. Stay(script, f, threads) /\ Stay(script, sized, threads) /\ Stay(script, now, threads)
    BY <1>6, <1>7, <1>10, <1>13, <1>14, <1>22, StayBack
  <2>3. /\ Written(script, f, threads, H, F) /\ HeldAll(f, builders) /\ Ready(script, threads, builders, c, f)
    BY <2>1 DEF Settled
  <2>4. "if" \notin SubThreads \cup {"thread"} /\ "else" \notin SubThreads
    BY SMTT(30), ZenonT(60) DEF SubThreads
  <2>5. <<t, p>> \in Places(builders)
    BY <1>1, <1>2, <1>5, <2>4 DEF Places
  <2>6. <<t, at>> \in H2
    <3>1. Len(builders) \in Nat /\ Len(bs2) = m + 1 /\ bs2[m + 1] = b
      BY <1>2, <1>5, <1>17
    <3>2. <<bs2[m + 1].thread, bs2[m + 1].place>> \in Places(bs2)
      <4>1. m + 1 \in {d \in 2 .. Len(bs2) : bs2[d].kind \notin SubThreads}
        BY <1>5, <1>15, <2>4, <3>1, SMTT(30), ZenonT(60)
      <4> QED
        BY <4>1 DEF Places
    <3> QED
      BY <1>15, <3>1, <3>2
  <2>7. Held(f[t], Top)
    BY <1>1, <1>2, <1>5, <2>3, <2>4 DEF HeldAll
  <2>8. Top.count = p /\ p \in 1 .. Len(f[t])
    BY <2>7 DEF Held
  <2>9. ~Moved(Top, f) /\ ~Moved(Top, now)
    <3>1. /\ Top.kind \notin SubThreads \cup {"thread"} /\ Len(f) = Len(code) /\ Len(now) = Len(code)
          /\ \A v \in 1 .. Len(code) : threads[v].owner # 0 => Shelters(script, threads[v].owner) = {}
      BY <1>1, <1>6, <1>11, <2>2, <2>4 DEF Stay
    <3>2. Len(f[Top.thread]) <= Inline /\ Len(now[Top.thread]) <= Inline
      BY <1>2, <1>6, <1>12, <2>2 DEF Stay
    <3> QED
      BY <1>6, <1>10, <2>1, <3>1, <3>2, Unmoves
  <2> PICK size : size = Len(f[t]) - p
    OBVIOUS
  <2>10. size = Size(f, Top) /\ size \in Nat /\ size + 1 = at - p /\ at - p = Size(now, Top)
    <3>1. size = Size(f, Top) /\ at - p = Size(now, Top)
      BY <1>12, <2>8 DEF Size
    <3>2. size = e - p /\ p \in 1 .. e
      BY <2>8
    <3>3. size \in Nat /\ size + 1 = at - p
      BY ONLY <1>12, <3>2
    <3> QED
      BY <3>1, <3>3
  <2>11. Sized(f, sized, t, p, size)
    <3>1. sized = [f EXCEPT ![t][p].size = size]
      BY <1>sized, <2>9, <2>10 DEF Resized
    <3>2. f \in Codes /\ t \in 1 .. Len(f) /\ size \in Int
      BY <1>2, <1>6, <2>10
    <3> QED
      BY ONLY <3>1, <3>2, SizedBy
  <2>12. Settled(sized, H, F)
    <3>1. /\ f \in Codes /\ sized \in Codes /\ F \in SUBSET F /\ t \in 1 .. Len(f)
          /\ Frees(H, H, <<t, p>>) /\ Filled(script, f[t], sized[t], t, p, H, F)
      BY <1>2, <1>6, <1>7, <2>5 DEF Frees, Filled
    <3>2. Written(script, sized, threads, H, F)
      BY ONLY <2>3, <2>11, <3>1, WrittenSized
    <3>3. \A d \in 2 .. Len(builders) : builders[d].thread \in 1 .. Len(f)
      BY <1>2, <1>6
    <3>4. HeldAll(sized, builders)
      BY ONLY <1>6, <1>7, <2>3, <3>3, HeldAllRelined
    <3>5. Ready(script, threads, builders, c, sized)
      BY <1>7, <2>3 DEF Ready
    <3> QED
      BY <1>6, <1>7, <3>2, <3>4, <3>5, SMTT(30), ZenonT(60) DEF Settled
  <2>13. Settled(now, H, F)
    <3>1. c \in Nat /\ x.lines = {c} /\ c \in F /\ c \in Due(builders, Cursor)
      BY <1>2, <1>8, CursorIsDue
    <3>2. /\ sized \in Codes /\ t \in 1 .. Len(sized) /\ x \in Instrs
          /\ x.op \in Jumps => /\ ThreadOf(script, c) = threads[t].owner
                               /\ <<t, Len(sized[t]) + 1>> \in H \/ Closed(script, now[t], Len(sized[t]) + 1, c, F)
      BY <1>3, <1>7, <1>8, <1>9, <1>11, <2>6
    <3> QED
      BY ONLY <1>9, <2>12, <3>1, <3>2, AppendedFits
  <2>14. co2 = Resized(now, Top, Size(now, Top))
    <3>1. now[t][p].size = size
      <4>1. now[t][p] = sized[t][p] /\ t \in 1 .. Len(f)
        BY <1>2, <1>6, <1>11, <2>8
      <4>2. sized[t][p].size = size
        BY <2>8, <2>11, <4>1 DEF Sized
      <4> QED
        BY <4>1, <4>2, SMTT(30), ZenonT(60)
    <3> PICK s2 : s2 = Size(now, Top)
      OBVIOUS
    <3>2. now[t][p].size + 1 = s2
      BY <2>10, <3>1
    <3>3. co2 = [now EXCEPT ![t][p].size = now[t][p].size + 1]
      BY <1>1, <2>9
    <3>4. co2 = [now EXCEPT ![t][p].size = s2]
      BY ONLY <3>2, <3>3
    <3> QED
      BY <2>9, <3>4 DEF Resized
  <2>15. Until(script, Top.begin - 1) = c2
    BY <1>1, <1>2, <1>3, <1>4, <2>1, <2>4, UntilTop
  <2>16. Below(now[t], c2)
    <3>1. \A k \in 1 .. Len(f[t]) : \A i \in f[t][k].lines : i \in 1 .. c - 1
      <4> PICK bs1 : bs1 = [builders EXCEPT ![Depth] = Flush(Top)]
        OBVIOUS
      <4>1. Replaced(builders, Depth, Flush(Top), bs1)
        BY DEF Replaced
      <4>2. Placed(script, f, threads, bs1, c)
        BY <4>1, FinalStep
      <4> QED
        BY ONLY <1>2, <1>6, <4>2, SMTT(30), ZenonT(60) DEF Placed
    <3>2. ASSUME NEW k \in 1 .. Len(now[t]), NEW i \in now[t][k].lines PROVE i < c2
      <4>1. k \in 1 .. Len(f[t]) \/ k = at
        BY <1>12
      <4>2. i \in 1 .. c - 1 \/ i = c
        <5>1. CASE k = at
          BY <1>8, <1>11, <5>1
        <5>2. CASE k \in 1 .. Len(f[t])
          <6>1. now[t][k].lines = f[t][k].lines
            BY <1>11, <5>2
          <6> QED
            BY <3>1, <5>2, <6>1
        <5> QED
          BY <4>1, <5>1, <5>2
      <4> QED
        BY ONLY <1>2, <1>5, <4>2, SMTT(30), ZenonT(30)
    <3> QED
      BY <3>2 DEF Below
  <2>17. F2 \in SUBSET F
    BY <1>2, <1>18, FreshCarried
  <2>18. Apart(script, Top.begin - 1, F2)
    <3>1. /\ \A d \in 1 .. Len(builders) - 1 : bs2[d].pending = builders[d].pending
          /\ Len(bs2) = Len(builders) => bs2[Len(builders)].kind \notin SubThreads
          /\ Carries(builders, bs2, Len(builders) - 1, Cursor, Cursor + 1)
          /\ c2 \in Nat /\ c2 <= Cursor + 1 /\ Len(builders) > 1
      BY <1>4, <1>5, <1>15, <1>17, <1>18, <2>4
    <3>2. ASSUME NEW i \in Fresh(bs2, Cursor + 1) PROVE ~Inner(script, Top.begin - 1, i)
      BY ONLY Working, <2>1, <2>15, <3>1, <3>2, FreshApart
    <3> QED
      BY <3>2 DEF Apart
  <2>19. Frees(H, H2, <<t, p>>)
    <3>1. \A d \in m + 1 .. Len(builders) : builders[d] = Top
      BY <1>2, <1>5
    <3>2. ASSUME NEW h \in Places(builders) PROVE h \in H2 \/ h = <<t, p>>
      <4>0. Len(builders) \in Nat
        BY <1>2
      <4>1. h \in Places(bs2) \/ \E d \in m + 1 .. Len(builders) :
              h = <<builders[d].thread, builders[d].place>> /\ builders[d].kind \notin SubThreads
        BY <1>18, <4>0, PlacesCarried, ZenonT(60)
      <4> QED
        BY <3>1, <4>1
    <3> QED
      BY <2>5, <3>2 DEF Frees
  <2>20. Settled(co2, H2, F2)
    <3>1. /\ Top.kind \notin SubThreads \cup {"thread"} /\ Len(builders) > 1 /\ now \in Codes
          /\ Below(now[Top.thread], c2) /\ Frees(H, H2, <<Top.thread, Top.place>>) /\ c2 \in Nat
      BY <1>1, <1>4, <1>5, <1>10, <2>4, <2>16, <2>19
    <3> QED
      BY ONLY Working, <2>2, <2>13, <2>14, <2>15, <2>17, <2>18, <3>1, SizedOff
  <2>21. Held(co2[t], b)
    <3>1. /\ t \in 1 .. Len(now) /\ Len(co2[t]) = at /\ at \in 1 .. at
          /\ \A k \in 1 .. at : co2[t][k].lines = now[t][k].lines /\ co2[t][k].op = now[t][k].op
      BY ONLY <1>13, <1>12, SMTT(30), ZenonT(60) DEF Relined
    <3>2. co2[t][at].lines = {b.begin - 1} /\ co2[t][at].op = "skip"
      <4>0. b.begin = c2 /\ c2 = c + 1 /\ c \in Nat
        BY <1>2, <1>5, <1>15
      <4>1. b.begin - 1 = c
        BY ONLY <4>0
      <4> QED
        BY <1>8, <1>11, <3>1, <4>1
    <3>3. ASSUME NEW l \in 1 .. at, NEW i \in co2[t][l].lines PROVE i >= b.begin <=> l > at
      <4>1. i < c2
        BY <1>12, <2>16, <3>1 DEF Below
      <4>2. i \in Nat
        <5>1. now \in Codes /\ t \in 1 .. Len(now) /\ l \in 1 .. Len(now[t]) /\ i \in now[t][l].lines
          BY <1>10, <1>12, <3>1
        <5>2. now[t][l].lines \in SUBSET Nat
          BY ONLY <5>1, CodesAre
        <5> QED
          BY ONLY <5>1, <5>2
      <4>3. b.begin = c2 /\ at \in Nat /\ l \in 1 .. at
        BY <1>15, <1>12
      <4> QED
        BY ONLY <1>5, <4>1, <4>2, <4>3
    <3>4. OpOf(b.kind) = "skip"
      BY <1>15 DEF OpOf
    <3>5. /\ b.place \in 1 .. Len(co2[t]) /\ b.count = b.place
          /\ co2[t][b.place].lines = {b.begin - 1} /\ co2[t][b.place].op = OpOf(b.kind)
      BY <1>15, <3>1, <3>2, <3>4
    <3>6. \A l \in 1 .. Len(co2[t]) : \A i \in co2[t][l].lines : i >= b.begin <=> l > b.place
      <4>1. b.place = at /\ Len(co2[t]) = at
        BY <1>15, <3>1
      <4>2. \A l \in 1 .. at : \A i \in co2[t][l].lines : i >= b.begin <=> l > at
        BY ONLY <3>3
      <4> QED
        BY ONLY <4>1, <4>2, Zenon
    <3> QED
      BY ONLY <1>15, <3>5, <3>6 DEF Held
  <2>22. HeldAll(co2, bs2)
    <3>1. HeldAll(co2, builders) /\ Len(builders) \in Nat
      BY <1>2, <2>20 DEF Settled
    <3>2. Len(bs2) = m + 1 /\ bs2[m + 1].kind \notin SubThreads => Held(co2[bs2[m + 1].thread], bs2[m + 1])
      BY <1>5, <1>15, <1>17, <2>21
    <3> QED
      BY ONLY <1>18, <3>1, <3>2, HeldCarried
  <2> QED
    BY <2>20, <2>22 DEF Settled
<1>23. /\ Len(bs2) = m + 1 /\ bs2[m + 1].kind \notin SubThreads => bs2[m + 1].known = Len(threads)
       /\ Carries(builders, bs2, m, Cursor, c2) /\ MoreThreads(threads, threads, Cursor) /\ NoElse(script, builders, m, Cursor, c2)
       /\ co2 \in Codes /\ Grown(code, co2)
  BY <1>2, <1>at, <1>5, <1>13, <1>14, <1>15, <1>17, <1>18, <1>20, <1>21
<1>24. /\ Stay(script, co2, threads) /\ Ready(script, threads, builders, Cursor, code)
       /\ Written(script, code, threads, Places(builders), Fresh(builders, Cursor)) /\ HeldAll(code, builders)
       => Written(script, co2, threads, Places(bs2), Fresh(bs2, c2)) /\ HeldAll(co2, bs2)
  BY <1>22
<1>25. Fit(script, co2, threads, bs2)
  BY ONLY Working, Fit(script, code, threads, builders), <1>19, <1>23, <1>24, FitNext
<1> QED
  BY <1>1, <1>25

LEMMA CompleteFits ==
  ASSUME Working, Fit(script, code, threads, builders), Complete
  PROVE  Stay(script, code', threads) => Written(script, code', threads, {}, {})
<1> PICK f, F, H : f = Final /\ F = Fresh(builders, Cursor) /\ H = Places(builders)
  OBVIOUS
<1>1. code' = f /\ Top.kind = "thread"
  BY DEF Complete
<1>2. /\ Len(builders) \in Nat \ {0} /\ Top = builders[Len(builders)] /\ Cursor = Cur(builders) /\ Cursor \in Nat
      /\ code \in Codes /\ \A d \in 1 .. Len(builders) : builders[d] \in Builders /\ builders[d].thread \in 1 .. Len(code)
  BY StepFrom
<1>3. Len(builders) = 1
  <2>1. Stacked(script, builders) /\ Len(builders) \in 1 .. Len(builders)
    BY <1>2 DEF Working, Good
  <2> QED
    BY <1>1, <1>2, <2>1, KindOfBuilder
<1>4. H = {} /\ {} \in SUBSET F /\ H \subseteq {}
  <2>1. \A e \in 2 .. Len(builders) : FALSE
    BY <1>3
  <2> QED
    BY <2>1 DEF Places
<1> SUFFICES ASSUME Stay(script, f, threads) PROVE Written(script, f, threads, {}, {})
  BY <1>1
<1>5. f \in Codes /\ Len(f) = Len(code) /\ Grown(code, f)
  BY FinalFits
<1>6. Stay(script, code, threads)
  BY <1>2, <1>5, StayBack
<1>7. /\ Reaching(script, threads, builders, Cursor) /\ Written(script, code, threads, H, F) /\ HeldAll(code, builders)
  BY <1>2, <1>6 DEF Fit, Fits
<1>8. Settled(code, H, F)
  BY <1>2, <1>7 DEF Settled, Ready
<1>9. Settled(f, H, F)
  BY <1>8, FinalFits
<1>10. Written(script, f, threads, H, F)
  BY <1>9 DEF Settled
<1> QED
  BY ONLY <1>4, <1>10, WrittenLess
-----------------------------------------------------------------------------
(* The invariant.  While no reference dangles, what the builders have not  *)
(* written the size of is all that may lack it.                            *)
FitInv ==
  Clean(script) =>
    IF Built THEN Stay(script, code, threads) => Written(script, code, threads, {}, {})
    ELSE Fit(script, code, threads, builders)

LEMMA FitInit ==
  ASSUME BuildInit
  PROVE  FitInv
<1> PICK b : b = Builder("thread", 1, 1, 0, 0, 1, "update", 0)
  OBVIOUS
<1>1. code = <<<<>>>> /\ builders = <<b>>
  BY DEF BuildInit
<1>2. b.begin = 1 /\ b.done = 0 /\ b.pending = {}
  BY DEF Builder
<1>3. Len(builders) = 1 /\ builders[1] = b /\ (\A d \in 1 .. Len(builders) : d = 1)
      /\ (\A d \in 2 .. Len(builders) : FALSE) /\ (\A e \in 1 + 1 .. Len(builders) : FALSE)
  BY <1>1
<1>4. Cur(builders) = 1
  BY <1>2, <1>3 DEF At, Cur
<1>5. Reaching(script, threads, builders, 1)
  <2>1. \A d \in 1 .. Len(builders) :
          /\ builders[d].begin <= 1
          /\ \A i \in builders[d].pending : builders[d].begin <= i /\ i < 1
          /\ \A e \in d + 1 .. Len(builders) :
               builders[d].begin < builders[e].begin /\ \A i \in builders[d].pending : i < builders[e].begin - 1
    BY <1>2, <1>3
  <2> QED
    BY <1>3, <2>1 DEF Reaching
<1>6. Fits(script, code, threads, builders, 1)
  <2>1. \A t \in 1 .. Len(code) : \A k \in 1 .. Len(code[t]) : FALSE
    BY <1>1
  <2>2. Written(script, code, threads, Places(builders), Fresh(builders, 1))
    BY <2>1 DEF Written
  <2>3. HeldAll(code, builders)
    BY <1>3 DEF HeldAll
  <2> QED
    BY <2>2, <2>3 DEF Fits
<1>7. ~Built
  BY <1>3 DEF Built
<1> QED
  BY <1>4, <1>5, <1>6, <1>7 DEF FitInv, Fit

LEMMA FitStep ==
  ASSUME BuilderInv, FitInv, [StepsNext]_stepsVars
  PROVE  FitInv'
<1>1. CASE UNCHANGED building
  <2>1. script' = script /\ code' = code /\ threads' = threads /\ builders' = builders
    BY <1>1 DEF building
  <2> QED
    BY <2>1 DEF FitInv, Built
<1>2. CASE Build
  <2>1. script' = script /\ script \in Scripts
    BY <1>2, SMTT(30), ZenonT(60) DEF Build, Blank, Update, Simple, Include, Open, Else, CloseIf, CloseWhile, CloseMulti,
       CloseCadence, OpenThread, CloseThread, CloseNothing, Complete, BuilderInv
  <2>2. ~Built
    BY <1>2 DEF Build, Blank, Update, Simple, Include, Open, Else, CloseIf, CloseWhile, CloseMulti, CloseCadence,
               OpenThread, CloseThread, CloseNothing, Complete, Built, Reading, Ended
  <2>3. CASE ~Clean(script)
    BY <2>1, <2>3 DEF FitInv
  <2>4. CASE Clean(script)
    <3>1. Working /\ Fit(script, code, threads, builders)
      BY <2>1, <2>2, <2>4 DEF BuilderInv, FitInv, Working
    <3>2. CASE Complete
      <4>1. builders' = <<>> /\ threads' = threads
        BY <3>2 DEF Complete
      <4>2. Stay(script, code', threads) => Written(script, code', threads, {}, {})
        BY <3>1, <3>2, CompleteFits
      <4> QED
        BY <2>1, <4>1, <4>2 DEF FitInv, Built
    <3>3. CASE ~Complete
      <4>1. Fit(script, code', threads', builders')
        BY <1>2, <3>1, <3>3, BlankFits, UpdateFits, SimpleFits, IncludeFits, OpenFits, ElseFits, CloseIfFits,
           CloseWhileFits, CloseCadenceFits, OpenThreadFits, CloseThreadFits, NothingIsEmpty DEF Build
      <4>2. ~Built'
        <5>1. Good(script, code', threads', builders')
          BY <1>2, <3>1, <3>3, BlankStep, UpdateStep, SimpleStep, IncludeStep, OpenStep, ElseStep, CloseIfStep,
             CloseWhileStep, CloseCadenceStep, OpenThreadStep, CloseThreadStep, NothingIsEmpty DEF Build
        <5>2. Len(builders') > 0
          BY <5>1 DEF Good, Stacked
        <5> QED
          BY <5>2 DEF Built
      <4> QED
        BY <2>1, <4>1, <4>2 DEF FitInv
    <3> QED
      BY <3>2, <3>3
  <2> QED
    BY <2>3, <2>4, SMTT(30), ZenonT(60)
<1>3. Build \/ UNCHANGED building
  BY DEF StepsNext, Building, StartThread, Begin, Resume, Wake, Unlink, StepBeyond, StepInto, Step, stepsVars
<1> QED
  BY <1>1, <1>2, <1>3

LEMMA BlocksAreRight ==
  ASSUME BuilderInv, FitInv
  PROVE  BlocksSpanTheirLines
<1> SUFFICES ASSUME Unmoved, Built, Clean(script), NEW t \in DOMAIN code, NEW k \in DOMAIN code[t]
             PROVE  Spans(t, k)
  BY DEF BlocksSpanTheirLines, BlocksAreSized
<1>1. /\ Script(script) /\ Placed(script, code, threads, <<>>, Len(script) + 1) /\ Threaded(script, code, threads)
      /\ Stay(script, code, threads) => Written(script, code, threads, {}, {})
  BY ScriptsAssumption DEF BuilderInv, FitInv, Arranged, Script
<1>2. code \in Codes
  BY <1>1 DEF Placed
<1>3. DOMAIN code = 1 .. Len(code) /\ \A u \in 1 .. Len(code) : DOMAIN code[u] = 1 .. Len(code[u])
  BY <1>2, CodesAre
<1>4. Written(script, code, threads, {}, {})
  <2>1. Stay(script, code, threads)
    BY <1>3 DEF Unmoved, Stay
  <2> QED
    BY <1>1, <2>1
<1> PICK q, w : q = code[t] /\ w = threads[t].owner
  OBVIOUS
<1>5. /\ t \in 1 .. Len(code) /\ k \in 1 .. Len(q) /\ DOMAIN q = 1 .. Len(q) /\ Len(q) \in Nat
      /\ \A l \in 1 .. Len(q) : q[l].lines # {} /\ q[l].lines \in SUBSET Nat
  BY <1>2, <1>3, <1>4, CodesAre DEF Written
<1>6. CASE q[k].op \notin Jumps
  BY <1>6 DEF Spans, Jumps
<1>7. CASE q[k].op \in Jumps
  <2>1. PICK o \in Nat : q[k].lines = {o} /\ ThreadOf(script, o) = w /\ Closed(script, q, k, o, {})
    BY <1>4, <1>5, <1>7 DEF Written
  <2>2. (CHOOSE i \in q[k].lines : TRUE) = o
    BY <2>1
  <2>3. CASE q[k].op = "rewind"
    BY <2>1, <2>2, <2>3 DEF Spans, Closed, Returns
  <2>4. CASE q[k].op # "rewind" /\ q[k].op = "cadence" /\ script[o] \notin Cadences
    BY <2>2, <2>4 DEF Spans
  <2>5. CASE q[k].op # "rewind" /\ Spanned(script, q, k, o)
    <3> PICK u, size, part : u = Until(script, o) /\ size = q[k].size /\ part = Part(o, PartEnd(o))
      OBVIOUS
    <3>1. /\ u \in Nat /\ size \in Nat
          /\ \A l \in 1 .. Len(q) : \A i \in q[l].lines : Inner(script, o, i) <=> (k < l /\ l <= k + size)
      BY <2>5 DEF Spanned
    <3>2. part = {i \in o + 1 .. u - 1 : ThreadOf(script, i) = w}
      <4>1. PartEnd(o) = u
        BY DEF PartEnd, Until
      <4> QED
        BY <2>1, <4>1 DEF Part
    <3>3. ASSUME NEW l \in 1 .. Len(q) PROVE (k < l /\ l <= k + size) <=> q[l].lines \cap part # {}
      <4>1. ASSUME k < l /\ l <= k + size PROVE q[l].lines \cap part # {}
        <5>1. PICK i \in q[l].lines : Inner(script, o, i)
          BY <1>5, <3>1, <4>1
        <5>2. i \in Nat /\ o < i /\ i < u
          BY <1>5, <5>1 DEF Inner
        <5>3. i \in o + 1 .. u - 1
          BY ONLY <2>1, <3>1, <5>2
        <5>4. ThreadOf(script, i) = w \/ i = w
          BY <1>1, <1>5 DEF Threaded
        <5>5. w = 0 \/ w \in 1 .. o - 1
          BY <1>1, <2>1, InnermostCases DEF ThreadOf, Around
        <5>6. i # w
          BY ONLY <2>1, <5>2, <5>5
        <5> QED
          BY <3>2, <5>3, <5>4, <5>6
      <4>2. ASSUME q[l].lines \cap part # {} PROVE k < l /\ l <= k + size
        <5>1. PICK i \in q[l].lines : i \in o + 1 .. u - 1
          BY <3>2, <4>2
        <5>2. o < i /\ i < u
          BY ONLY <2>1, <3>1, <5>1
        <5> QED
          BY <3>1, <5>2 DEF Inner
      <4> QED
        BY <4>1, <4>2
    <3>4. Covered(t, k) = Within(t, part)
      BY <1>5, <3>3 DEF Covered, Within
    <3> QED
      BY <2>2, <2>5, <3>4 DEF Spans
  <2> QED
    BY <2>1, <2>3, <2>4, <2>5 DEF Closed
<1> QED
  BY <1>6, <1>7

(* Whatever the script, as long as it is clean: when it is built and no    *)
(* reference to a control block dangled, every if, else, multi and cadence *)
(* block covers the instructions of its own lines and no others, and a     *)
(* while goes back to its own condition.                                   *)
THEOREM BlocksSpan == StepsSpec => []BlocksSpanTheirLines
<1>1. StepsInit => BuilderInv /\ FitInv
  BY BuilderInit, FitInit DEF StepsInit
<1>2. BuilderInv /\ FitInv /\ [StepsNext]_stepsVars => (BuilderInv /\ FitInv)'
  BY BuilderStep, FitStep
<1>3. BuilderInv /\ FitInv => BlocksSpanTheirLines
  BY BlocksAreRight
<1> QED
  BY <1>1, <1>2, <1>3, PTL DEF StepsSpec
-----------------------------------------------------------------------------
(* What an instruction does tells the line that it stands for. *)
OfLine(s, op, i, w) ==
  /\ op = "pause" => s[i] = "pause"
  /\ op = "yield" => i = w
  /\ op = "if" => s[i] \in {"if", "while"}
  /\ op = "skip" => s[i] = "else"
  /\ op = "multi" => s[i] = "multi"
  /\ op = "rewind" => s[OpenerOf(s, i)] = "while"
ToldBy(s, x, w) == \A i \in x.lines : OfLine(s, x.op, i, w)
Told(s, xs, w) == \A k \in 1 .. Len(xs) : ToldBy(s, xs[k], w)
Telling(s, co, ths) == \A t \in 1 .. Len(co) : Told(s, co[t], ths[t].owner)

LEMMA TellingExtended ==
  ASSUME NEW s, NEW co \in Codes, NEW co2 \in Codes, NEW ths, NEW t \in 1 .. Len(co), NEW xs \in Seq(Instrs),
         Extended(co, co2, t, xs), Telling(s, co, ths), Told(s, xs, ths[t].owner)
  PROVE  Telling(s, co2, ths) /\ Len(co2) = Len(co)
<1>1. /\ Len(co2) = Len(co) /\ Longer(co[t], co2[t]) /\ \A u \in 1 .. Len(co) : u # t => co2[u] = co[u]
      /\ \A l \in Len(co[t]) + 1 .. Len(co2[t]) : l - Len(co[t]) \in 1 .. Len(xs) /\ co2[t][l] = xs[l - Len(co[t])]
      /\ Len(co2[t]) \in Nat /\ Len(co[t]) \in Nat
  BY ExtendedLonger, CodesAre, SMTT(60)
<1>2. Told(s, co2[t], ths[t].owner)
  <2>1. ASSUME NEW k \in 1 .. Len(co2[t]), NEW i \in co2[t][k].lines PROVE OfLine(s, co2[t][k].op, i, ths[t].owner)
    <3>1. CASE k \in 1 .. Len(co[t])
      <4>1. co2[t][k] = co[t][k]
        BY <1>1, <3>1 DEF Longer
      <4> QED
        BY <2>1, <3>1, <4>1 DEF Telling, Told, ToldBy
    <3>2. CASE k \notin 1 .. Len(co[t])
      <4>1. k \in Len(co[t]) + 1 .. Len(co2[t])
        BY <1>1, <3>2
      <4> QED
        BY <1>1, <2>1, <4>1 DEF Told, ToldBy
    <3> QED
      BY <3>1, <3>2
  <2> QED
    BY <2>1 DEF Told, ToldBy
<1>3. ASSUME NEW u \in 1 .. Len(co), u # t PROVE Told(s, co2[u], ths[u].owner)
  BY <1>1, <1>3 DEF Telling
<1> QED
  BY <1>1, <1>2, <1>3 DEF Telling

LEMMA TellingRelined ==
  ASSUME NEW s, NEW co, NEW co2, NEW ths, Relined(co, co2), Telling(s, co, ths)
  PROVE  Telling(s, co2, ths)
BY SMTT(30), ZenonT(60) DEF Telling, Told, ToldBy, Relined

LEMMA TellingFlushed ==
  ASSUME NEW s, NEW co \in Codes, NEW co2 \in Codes, NEW ths, NEW b, b.thread \in 1 .. Len(co), FlushedTo(co, co2, b),
         Telling(s, co, ths)
  PROVE  Telling(s, co2, ths)
<1>1. CASE b.pending = {}
  BY <1>1 DEF FlushedTo
<1>2. CASE b.pending # {}
  <2>1. PICK x \in Instrs : x.op = "set" /\ Extended(co, co2, b.thread, <<x>>)
    BY <1>2 DEF FlushedTo
  <2>2. <<x>> \in Seq(Instrs) /\ Len(<<x>>) = 1 /\ <<x>>[1] = x
    OBVIOUS
  <2>3. Told(s, <<x>>, ths[b.thread].owner)
    BY <2>1 DEF Told, ToldBy, OfLine
  <2> QED
    BY <2>1, <2>2, <2>3, TellingExtended
<1> QED
  BY <1>1, <1>2

LEMMA TellingEmits ==
  ASSUME NEW s, code \in Codes, NEW ths, NEW b \in Builders, b.thread \in 1 .. Len(code), NEW kind, NEW xs \in Seq(Instrs),
         NEW co2, co2 = Emit(b.thread, b, kind, xs), Telling(s, code, ths), Told(s, xs, ths[b.thread].owner)
  PROVE  Telling(s, co2, ths) /\ co2 \in Codes /\ Len(co2) = Len(code)
<1>1. PICK mid \in Codes : EmittedTo(code, mid, b, kind) /\ Len(mid) = Len(code) /\ Extended(mid, co2, b.thread, xs)
  BY EmitShape
<1>2. co2 \in Codes
  BY EmitShape
<1>3. Telling(s, mid, ths)
  BY <1>1, TellingFlushed DEF EmittedTo
<1> QED
  BY <1>1, <1>2, <1>3, TellingExtended

LEMMA TellingAppended ==
  ASSUME NEW s, NEW co \in Codes, NEW ths, NEW t \in 1 .. Len(co), NEW x \in Instrs, NEW co2, Replaced(co, t, Append(co[t], x), co2),
         Telling(s, co, ths), ToldBy(s, x, ths[t].owner)
  PROVE  Telling(s, co2, ths) /\ co2 \in Codes /\ Len(co2) = Len(co)
<1>1. co2 \in Codes /\ Extended(co, co2, t, <<x>>)
  BY AppendedBy
<1>2. <<x>> \in Seq(Instrs) /\ Len(<<x>>) = 1 /\ <<x>>[1] = x
  OBVIOUS
<1>3. Told(s, <<x>>, ths[t].owner)
  BY <1>2 DEF Told, ToldBy
<1> QED
  BY <1>1, <1>2, <1>3, TellingExtended

LEMMA TellingFinal ==
  ASSUME Working, NEW f, f = Final, Telling(script, code, threads)
  PROVE  /\ Telling(script, f, threads) /\ f \in Codes /\ Len(f) = Len(code) /\ Top.thread \in 1 .. Len(f) /\ Size(f, Top) \in Int
         /\ Telling(script, Resized(f, Top, Size(f, Top)), threads) /\ Resized(f, Top, Size(f, Top)) \in Codes
         /\ Len(Resized(f, Top, Size(f, Top))) = Len(code)
<1>1. code \in Codes /\ Top \in Builders /\ Top.thread \in 1 .. Len(code)
  BY StepFrom
<1>2. Replaced(code, Top.thread, code[Top.thread] \o Flushed(Top), f)
  BY DEF Final, Replaced
<1>3. f \in Codes /\ FlushedTo(code, f, Top) /\ Len(f) = Len(code)
  BY <1>1, <1>2, FlushShape
<1>4. Telling(script, f, threads)
  BY <1>1, <1>3, TellingFlushed
<1> PICK size, now : size = Size(f, Top) /\ now = Resized(f, Top, size)
  OBVIOUS
<1>5. size \in Int
  BY <1>1, <1>3, SizeIs
<1>6. now \in Codes /\ Relined(f, now)
  BY <1>1, <1>3, <1>5, ResizedShape
<1>7. Telling(script, now, threads)
  BY ONLY <1>4, <1>6, TellingRelined
<1>8. Len(now) = Len(code)
  BY ONLY <1>3, <1>6 DEF Relined
<1>9. /\ Telling(script, f, threads) /\ f \in Codes /\ Len(f) = Len(code) /\ Top.thread \in 1 .. Len(f)
      /\ size \in Int /\ Telling(script, now, threads) /\ now \in Codes /\ Len(now) = Len(code)
  BY ONLY <1>1, <1>3, <1>4, <1>5, <1>6, <1>7, <1>8
<1> QED
  BY <1>9, Zenon

LEMMA TellingEmit ==
  ASSUME Working, Telling(script, code, threads), Simple \/ Include \/ Open
  PROVE  Telling(script, code', threads)
<1> PICK co2, c : co2 = code' /\ c = Cursor
  OBVIOUS
<1>1. code \in Codes /\ Top \in Builders /\ Top.thread \in 1 .. Len(code) /\ c \in Nat
  BY StepFrom
<1>2. Line = script[c]
  BY DEF Line
<1>3. CASE Simple
  <2> PICK x : x = Bare(IF Line = "do" THEN "act" ELSE "pause", Cursor)
    OBVIOUS
  <2>1. co2 = Emit(Top.thread, Top, Line, <<x>>) /\ Line \in {"do", "pause"}
    BY <1>3 DEF Simple
  <2>2. x \in Instrs /\ x.lines = {c} /\ (x.op = "act" \/ (x.op = "pause" /\ script[c] = "pause"))
    BY <1>1, <1>2, <2>1 DEF Bare, Instruction, Instrs, Ops, Flows
  <2>3. <<x>> \in Seq(Instrs) /\ Len(<<x>>) = 1 /\ <<x>>[1] = x
    BY <2>2
  <2>4. Told(script, <<x>>, threads[Top.thread].owner)
    BY <2>2, <2>3 DEF Told, ToldBy, OfLine
  <2> QED
    BY <1>1, <2>1, <2>3, <2>4, TellingEmits
<1>4. CASE Include
  <2> PICK xs : xs = [i \in 1 .. FileLines |-> Bare("act", Cursor)]
    OBVIOUS
  <2>1. co2 = Emit(Top.thread, Top, Line, xs)
    BY <1>4 DEF Include
  <2>2. FileLines \in Nat
    BY SizesAssumption
  <2>3. Bare("act", Cursor) \in Instrs /\ Bare("act", Cursor).op = "act"
    BY <1>1 DEF Bare, Instruction, Instrs, Ops, Flows
  <2>4. xs \in Seq(Instrs) /\ \A k \in 1 .. Len(xs) : xs[k].op = "act"
    BY <2>2, <2>3
  <2>5. Told(script, xs, threads[Top.thread].owner)
    BY <2>4 DEF Told, ToldBy, OfLine
  <2> QED
    BY <1>1, <2>1, <2>4, <2>5, TellingEmits
<1>5. CASE Open
  <2> PICK x : x = Control(Line, Cursor)
    OBVIOUS
  <2>1. co2 = Emit(Top.thread, Top, Line, <<x>>) /\ Line \in {"if", "while", "multi"} \cup Cadences
    BY <1>5 DEF Open
  <2>2. x \in Instrs /\ x.lines = {c}
    BY <1>1, <2>1 DEF Control, Bare, Instruction, Instrs, Ops, Flows, Cadences
  <2>3. x.op \in {"if", "multi", "cadence"} /\ (x.op = "if" => script[c] \in {"if", "while"}) /\ (x.op = "multi" => script[c] = "multi")
    BY <1>2, <2>1 DEF Control, Bare, Instruction, Cadences
  <2>4. <<x>> \in Seq(Instrs) /\ Len(<<x>>) = 1 /\ <<x>>[1] = x
    BY <2>2
  <2>5. Told(script, <<x>>, threads[Top.thread].owner)
    BY <2>2, <2>3, <2>4 DEF Told, ToldBy, OfLine
  <2> QED
    BY <1>1, <2>1, <2>4, <2>5, TellingEmits
<1> QED
  BY <1>3, <1>4, <1>5

LEMMA TellingElse ==
  ASSUME Working, Telling(script, code, threads), Else
  PROVE  Telling(script, code', threads)
<1> PICK co2, c, t, f : co2 = code' /\ c = Cursor /\ t = Top.thread /\ f = Final
  OBVIOUS
<1> PICK sized, x : sized = Resized(f, Top, Size(f, Top)) /\ x = Bare("skip", Cursor)
  OBVIOUS
<1> PICK now : now = [sized EXCEPT ![t] = Append(@, x)]
  OBVIOUS
<1>1. /\ Line = "else" /\ co2 = IF Moved(Top, now) THEN now ELSE [now EXCEPT ![t][Top.place].size = @ + 1]
  BY DEF Else
<1>2. Cursor \in Nat /\ script[c] = "else" /\ Top.thread \in 1 .. Len(code)
  BY <1>1, StepFrom DEF Line
<1>3. x \in Instrs /\ x.lines = {c} /\ x.op = "skip"
  BY <1>2 DEF Bare, Instruction, Instrs, Ops, Flows
<1>4. Telling(script, sized, threads) /\ sized \in Codes /\ Len(sized) = Len(code) /\ t \in 1 .. Len(sized)
  BY <1>2, TellingFinal
<1>5. Replaced(sized, t, Append(sized[t], x), now)
  BY DEF Replaced
<1>6. ToldBy(script, x, threads[t].owner)
  BY <1>2, <1>3 DEF ToldBy, OfLine
<1>7. Telling(script, now, threads) /\ now \in Codes /\ Len(now) = Len(sized)
  <2>1. x \in Instrs /\ sized \in Codes /\ t \in 1 .. Len(sized) /\ Telling(script, sized, threads)
    BY <1>3, <1>4
  <2> QED
    BY ONLY <1>5, <1>6, <2>1, TellingAppended
<1>8. Relined(now, co2)
  <2>1. CASE Moved(Top, now)
    BY <1>1, <2>1 DEF Relined
  <2>2. CASE ~Moved(Top, now)
    <3> PICK p, size : p = Top.place /\ size = now[t][p].size + 1
      BY SMTT(30), ZenonT(60)
    <3>1. co2 = [now EXCEPT ![t][p].size = size]
      BY <1>1, <2>2, SMTT(30), ZenonT(60)
    <3>2. t \in 1 .. Len(now)
      BY <1>4, <1>7
    <3>3. p \in 1 .. Len(now[t]) => size \in Int
      BY <1>7, <3>2, CodesAre, SMTT(30), ZenonT(30) DEF Instrs
    <3> QED
      BY ONLY <1>7, <3>1, <3>2, <3>3, RelinedBy
  <2> QED
    BY <2>1, <2>2
<1> QED
  BY <1>7, <1>8, TellingRelined

LEMMA TellingClose ==
  ASSUME Working, Telling(script, code, threads), CloseIf \/ CloseMulti \/ CloseWhile \/ CloseCadence
  PROVE  Telling(script, code', threads)
<1> PICK co2, c, t, f : co2 = code' /\ c = Cursor /\ t = Top.thread /\ f = Final
  OBVIOUS
<1>1. /\ Telling(script, f, threads) /\ f \in Codes /\ t \in 1 .. Len(f) /\ Size(f, Top) \in Int /\ Len(f) = Len(code)
      /\ Telling(script, Resized(f, Top, Size(f, Top)), threads) /\ Resized(f, Top, Size(f, Top)) \in Codes
      /\ Len(Resized(f, Top, Size(f, Top))) = Len(code)
  BY TellingFinal
<1>2. c \in Nat /\ Depth \in Nat \ {0} /\ (\A d \in 1 .. Depth : builders[d] \in Builders) /\ Top = builders[Depth] /\ Depth = Len(builders)
      /\ Top \in Builders /\ Top.thread \in 1 .. Len(code)
  BY StepFrom
<1>3. CASE CloseIf \/ CloseMulti
  BY <1>1, <1>3 DEF CloseIf, CloseMulti
<1>4. CASE CloseWhile
  <2> PICK x : x = Instruction("rewind", {Cursor}, Size(f, Top) + 1, "update")
    OBVIOUS
  <2> PICK now : now = [f EXCEPT ![t] = Append(@, x)]
    OBVIOUS
  <2>1. Ended /\ Top.kind = "while" /\ co2 = Resized(now, Top, Size(now, Top))
    BY <1>4 DEF CloseWhile
  <2>2. x \in Instrs /\ x.lines = {c} /\ x.op = "rewind"
    BY <1>1, <1>2 DEF Instruction, Instrs, Ops, Flows
  <2>3. Top.kind # "thread" /\ Cursor \in Lines(script) /\ script[Cursor] = "end" /\ Len(builders) > 1
    BY <2>1, Closes
  <2>4. script[OpenerOf(script, c)] = "while"
    <3>1. OpenerOf(script, c) = Opener(builders, Depth)
      BY <1>2, <2>3, OpenerOfTop
    <3>2. Depth \in 2 .. Len(builders)
      BY <1>2, <2>3
    <3>3. Kindly(script, builders, Depth)
      BY <3>2 DEF Working, Good, Stacked
    <3> QED
      BY <1>2, <2>1, <3>1, <3>3 DEF Kindly
  <2>5. Replaced(f, t, Append(f[t], x), now)
    BY DEF Replaced
  <2>6. ToldBy(script, x, threads[t].owner)
    BY <2>2, <2>4 DEF ToldBy, OfLine
  <2>7. Telling(script, now, threads) /\ now \in Codes /\ Len(now) = Len(f)
    BY ONLY <1>1, <2>2, <2>5, <2>6, TellingAppended
  <2>8. Relined(now, co2)
    <3> PICK size : size = Size(now, Top)
      OBVIOUS
    <3>1. Top.thread \in 1 .. Len(now) /\ co2 = Resized(now, Top, size)
      BY <1>1, <2>1, <2>7, SMTT(30), ZenonT(60)
    <3>2. size \in Int
      BY <1>2, <2>7, <3>1, SizeIs
    <3> QED
      BY ONLY <2>7, <3>1, <3>2, ResizedShape
  <2> QED
    BY <2>7, <2>8, TellingRelined
<1>5. CASE CloseCadence
  <2> PICK x : x = Instruction("cadence", {Cursor}, 0, builders[Depth - 1].cadence)
    OBVIOUS
  <2> PICK now : now = Resized(f, Top, Size(f, Top))
    OBVIOUS
  <2>1. Ended /\ Top.kind \in Cadences /\ co2 = [now EXCEPT ![t] = Append(@, x)]
    BY <1>5 DEF CloseCadence
  <2>2. Top.kind # "thread" /\ Len(builders) > 1
    BY <2>1, Closes DEF Cadences
  <2>3. x \in Instrs /\ x.op = "cadence"
    <3>1. Depth - 1 \in 1 .. Depth
      BY <1>2, <2>2
    <3>2. builders[Depth - 1].cadence \in Flows
      BY <1>2, <3>1 DEF Builders
    <3> QED
      BY <1>2, <3>2 DEF Instruction, Instrs, Ops
  <2>4. Replaced(now, t, Append(now[t], x), co2)
    BY <2>1 DEF Replaced
  <2>5. ToldBy(script, x, threads[t].owner)
    BY <2>3 DEF ToldBy, OfLine
  <2>6. Telling(script, now, threads) /\ now \in Codes /\ t \in 1 .. Len(now)
    BY <1>1, <1>2
  <2>7. Telling(script, co2, threads)
    BY ONLY <2>3, <2>4, <2>5, <2>6, TellingAppended
  <2> QED
    BY <2>7
<1> QED
  BY <1>3, <1>4, <1>5

LEMMA TellingOpenThread ==
  ASSUME Working, Telling(script, code, threads), OpenThread
  PROVE  Telling(script, code', threads')
<1> PICK co2, ths2, c, n : co2 = code' /\ ths2 = threads' /\ c = Cursor /\ n = Len(code)
  OBVIOUS
<1> PICK xs, p, w : xs = <<>> /\ p = Prologue(Line, Cursor) /\ w = [owner |-> Cursor, cadence |-> Top.cadence]
  OBVIOUS
<1> PICK co1 : co1 = Emit(Top.thread, Top, Line, xs)
  OBVIOUS
<1>1. ths2 = Append(threads, w) /\ co2 = Append(co1, p)
  BY DEF OpenThread
<1>2. code \in Codes /\ Top \in Builders /\ Top.thread \in 1 .. Len(code) /\ c \in Nat /\ n = Len(threads) /\ n \in Nat
  BY StepFrom
<1>3. xs \in Seq(Instrs) /\ Len(xs) = 0
  OBVIOUS
<1>4. Told(script, xs, threads[Top.thread].owner)
  BY <1>3 DEF Told, ToldBy
<1>5. Telling(script, co1, threads) /\ co1 \in Codes /\ Len(co1) = n
  BY <1>2, <1>3, <1>4, TellingEmits
<1>6. threads \in Seq(Threads)
  BY DEF Working, Good, Owned
<1>7. w.owner = c
  OBVIOUS
<1>8. Told(script, p, c)
  <2>1. CASE p = <<>>
    BY <2>1 DEF Told, ToldBy
  <2>2. CASE p # <<>>
    <3>1. p = <<Bare("yield", c)>>
      BY <2>2 DEF Prologue
    <3>2. Bare("yield", c).op = "yield" /\ Bare("yield", c).lines = {c}
      BY DEF Bare, Instruction
    <3>3. Len(p) = 1 /\ p[1] = Bare("yield", c)
      BY <3>1
    <3> QED
      BY <3>2, <3>3 DEF Told, ToldBy, OfLine
  <2> QED
    BY <2>1, <2>2
<1>9. Len(co2) = n + 1 /\ co2[n + 1] = p /\ \A u \in 1 .. n : co2[u] = co1[u]
  BY <1>1, <1>5, AppendProperties DEF Codes
<1>10. ths2[n + 1] = w /\ \A u \in 1 .. n : ths2[u] = threads[u]
  BY <1>1, <1>2, <1>6, AppendProperties
<1>11. ASSUME NEW u \in 1 .. Len(co2) PROVE Told(script, co2[u], ths2[u].owner)
  <2>1. CASE u = n + 1
    BY <1>7, <1>8, <1>9, <1>10, <2>1
  <2>2. CASE u # n + 1
    <3>1. u \in 1 .. n
      BY <1>2, <1>9, <2>2
    <3> QED
      BY <1>5, <1>9, <1>10, <3>1 DEF Telling
  <2> QED
    BY <2>1, <2>2
<1> QED
  BY <1>11 DEF Telling

LEMMA TellingCloseThread ==
  ASSUME Working, Telling(script, code, threads), CloseThread
  PROVE  Telling(script, code', threads)
<1> PICK co2, f, t, x : co2 = code' /\ f = Final /\ t = builders[Depth - 1].thread /\ x = Bare("spawn", Top.begin - 1)
  OBVIOUS
<1>1. Ended /\ Top.kind # "thread" /\ co2 = [f EXCEPT ![t] = Append(@, x)] /\ Top.done > 0
  BY DEF CloseThread, SubThreads
<1>2. Telling(script, f, threads) /\ f \in Codes /\ Len(f) = Len(code)
  BY TellingFinal
<1>3. Len(builders) > 1
  BY <1>1, Closes
<1>4. /\ Depth \in Nat \ {0} /\ Depth = Len(builders) /\ \A d \in 1 .. Depth : builders[d].thread \in 1 .. Len(code)
  BY StepFrom
<1>5. Depth - 1 \in 1 .. Depth
  BY <1>3, <1>4
<1>6. t \in 1 .. Len(f)
  BY <1>2, <1>4, <1>5
<1>7. x \in Instrs /\ x.op = "spawn"
  <2>1. Top.begin - 1 \in Nat
    <3>1. Opener(builders, Depth) \in Nat
      <4>1. Depth \in 2 .. Len(builders)
        BY <1>3, <1>4
      <4>2. Nested(script, builders, At(builders, Len(builders)))
        BY DEF Working, Good, Stacked
      <4> QED
        BY <4>1, <4>2 DEF Nested
    <3>2. Top.kind # "else" /\ Top = builders[Depth]
      BY DEF CloseThread, SubThreads, Top
    <3> QED
      BY <3>1, <3>2 DEF Opener
  <2> QED
    BY <2>1 DEF Bare, Instruction, Instrs, Ops, Flows
<1>8. Replaced(f, t, Append(f[t], x), co2)
  BY <1>1 DEF Replaced
<1>9. ToldBy(script, x, threads[t].owner)
  BY <1>7 DEF ToldBy, OfLine
<1>10. Telling(script, co2, threads)
  BY ONLY <1>2, <1>6, <1>7, <1>8, <1>9, TellingAppended
<1> QED
  BY <1>10

TellInv == Clean(script) => Telling(script, code, threads)

LEMMA TellInit ==
  ASSUME BuildInit
  PROVE  TellInv
<1>1. Len(code) = 1 /\ code[1] = <<>>
  BY DEF BuildInit
<1> QED
  BY <1>1 DEF TellInv, Telling, Told

LEMMA TellStep ==
  ASSUME BuilderInv, TellInv, [StepsNext]_stepsVars
  PROVE  TellInv'
<1>1. CASE UNCHANGED building
  BY <1>1 DEF building, TellInv
<1>2. CASE Build
  <2>1. script' = script /\ script \in Scripts
    BY <1>2 DEF Build, Blank, Update, Simple, Include, Open, Else, CloseIf, CloseWhile, CloseMulti, CloseCadence,
               OpenThread, CloseThread, CloseNothing, Complete, BuilderInv
  <2>2. ~Built
    BY <1>2 DEF Build, Blank, Update, Simple, Include, Open, Else, CloseIf, CloseWhile, CloseMulti, CloseCadence,
               OpenThread, CloseThread, CloseNothing, Complete, Built, Reading, Ended
  <2> SUFFICES ASSUME Clean(script) PROVE Telling(script, code', threads')
    BY <2>1 DEF TellInv
  <2>3. Working /\ Telling(script, code, threads)
    BY <2>1, <2>2 DEF BuilderInv, TellInv, Working
  <2>4. CASE Blank \/ Update
    BY <2>3, <2>4 DEF Blank, Update
  <2>5. CASE Simple \/ Include \/ Open
    <3>1. threads' = threads
      BY <2>5 DEF Simple, Include, Open
    <3> QED
      BY <2>3, <2>5, <3>1, TellingEmit
  <2>6. CASE Else
    <3>1. threads' = threads
      BY <2>6 DEF Else
    <3> QED
      BY <2>3, <2>6, <3>1, TellingElse
  <2>7. CASE CloseIf \/ CloseMulti \/ CloseWhile \/ CloseCadence
    <3>1. threads' = threads
      BY <2>7 DEF CloseIf, CloseMulti, CloseWhile, CloseCadence
    <3> QED
      BY <2>3, <2>7, <3>1, TellingClose
  <2>8. CASE OpenThread
    BY <2>3, <2>8, TellingOpenThread
  <2>9. CASE CloseThread
    <3>1. threads' = threads
      BY <2>9 DEF CloseThread
    <3> QED
      BY <2>3, <2>9, <3>1, TellingCloseThread
  <2>10. CASE CloseNothing
    BY <2>3, <2>10, NothingIsEmpty
  <2>11. CASE Complete
    <3>1. threads' = threads /\ code' = Final
      BY <2>11 DEF Complete
    <3> QED
      BY <2>3, <3>1, TellingFinal
  <2> QED
    BY <1>2, <2>4, <2>5, <2>6, <2>7, <2>8, <2>9, <2>10, <2>11 DEF Build
<1>3. Build \/ UNCHANGED building
  BY DEF StepsNext, Building, StartThread, Begin, Resume, Wake, Unlink, StepBeyond, StepInto, Step, stepsVars
<1> QED
  BY <1>1, <1>2, <1>3

-----------------------------------------------------------------------------
(* A multi block that is one update. *)

LEMMA BlocksNest ==
  ASSUME NEW s, Script(s), Balanced(s), NEW o \in Lines(s), NEW p \in Lines(s), s[o] \in Openers, s[p] \in Openers,
         o < p, p < EndOf(s, o)
  PROVE  EndOf(s, p) < EndOf(s, o)
<1> PICK e, f : e = EndOf(s, o) /\ f = EndOf(s, p)
  OBVIOUS
<1>1. Ends(s, o, e) /\ Ends(s, p, f) /\ e \in Lines(s) /\ f \in Lines(s)
  BY EndOfBlock
<1>2. Lines(s) = 1 .. Len(s) /\ Len(s) \in Nat
  BY LinesAre
<1>3. Level(s, p - 1) \in Int /\ Level(s, o - 1) \in Int /\ Level(s, e) \in Int
  BY <1>1, <1>2, LevelType
<1>4. p - 1 \in o .. e - 1
  BY <1>1, <1>2
<1>5. Level(s, p - 1) > Level(s, o - 1) /\ Level(s, e) = Level(s, o - 1)
  BY <1>1, <1>4 DEF Ends
<1>6. f # e
  BY <1>1, <1>3, <1>5 DEF Ends
<1>7. ~(e < f)
  <2>1. ASSUME e < f PROVE FALSE
    <3>1. e \in p .. f - 1
      BY <1>1, <1>2, <2>1
    <3>2. Level(s, e) > Level(s, p - 1)
      BY <1>1, <3>1 DEF Ends
    <3> QED
      BY <1>3, <1>5, <3>2
  <2> QED
    BY <2>1
<1> QED
  BY <1>1, <1>2, <1>6, <1>7

(* A block inside of the part of an if, of an else or of a while is all    *)
(* inside of it.                                                           *)
LEMMA PartsNest ==
  ASSUME NEW s, Script(s), Balanced(s), NEW p \in Lines(s), NEW o \in Lines(s), NEW i \in Lines(s),
         s[p] \in {"if", "while", "else"}, s[o] \in {"multi"} \cup Cadences, Inner(s, p, o), Inner(s, o, i)
  PROVE  Inner(s, p, i)
<1>1. Lines(s) = 1 .. Len(s) /\ Len(s) \in Nat
  BY LinesAre
<1>2. s[o] \in Openers /\ Until(s, o) = EndOf(s, o)
  BY DEF Openers, Cadences, Until
<1> PICK e : e = EndOf(s, o)
  OBVIOUS
<1>3. p < o /\ o < Until(s, p) /\ o < i /\ i < e
  BY <1>2 DEF Inner
<1>4. e \in Lines(s)
  BY <1>2, EndOfBlock
<1>5. CASE s[p] = "while" \/ (s[p] = "if" /\ ~HasElse(s, p))
  <2> PICK f : f = EndOf(s, p)
    OBVIOUS
  <2>1. f \in Lines(s) /\ s[f] = "end" /\ s[p] \in Openers
    BY <1>5, EndOfBlock DEF Ends, Openers
  <2>2. Until(s, p) = f \/ Until(s, p) = f + 1
    BY <1>5 DEF Until
  <2>3. o # f
    BY <1>2, <2>1 DEF Openers, Cadences, SubThreads
  <2>4. o < f
    BY <1>1, <1>3, <2>1, <2>2, <2>3
  <2>5. e < f
    BY <1>2, <1>3, <2>1, <2>4, BlocksNest
  <2> QED
    BY <1>1, <1>3, <1>4, <2>1, <2>2, <2>5 DEF Inner
<1>6. CASE s[p] = "if" /\ HasElse(s, p)
  <2> PICK f : f = ElseOf(s, p)
    OBVIOUS
  <2>1. f \in p .. EndOf(s, p) /\ s[f] = "else" /\ Innermost(s, f, Openers) = p /\ Until(s, p) = f + 1
    BY <1>6 DEF HasElse, ElseOf, Until
  <2>2. EndOf(s, p) \in Lines(s)
    BY <1>6, EndOfBlock DEF Openers
  <2>3. f \in Nat /\ f # o
    BY <1>1, <1>2, <2>1, <2>2 DEF Openers, Cadences, SubThreads
  <2>4. o < f
    BY <1>1, <1>3, <2>1, <2>3
  <2>5. ~(o \in Around(s, f))
    <3>1. p # 0
      BY <1>1
    <3>2. \A q \in Around(s, f) : s[q] \in Openers => q <= p
      BY <2>1, <2>3, <3>1, InnermostCases
    <3> QED
      BY <1>1, <1>2, <1>3, <3>2
  <2>6. ~(f < e)
    BY <1>1, <1>2, <2>3, <2>4, <2>5 DEF Around
  <2> QED
    BY <1>1, <1>3, <1>4, <2>1, <2>3, <2>6 DEF Inner
<1>7. CASE s[p] = "else"
  <2> PICK m, f : m = Innermost(s, p, Openers) /\ f = EndOf(s, m)
    OBVIOUS
  <2>1. m # 0
    BY <1>7 DEF Balanced
  <2>2. m \in Around(s, p) /\ s[m] \in Openers
    BY <1>1, <2>1, InnermostCases
  <2>3. m \in 1 .. p - 1 /\ m \in Lines(s)
    BY <1>1, <2>2 DEF Around
  <2>4. Until(s, p) = f
    BY <1>7 DEF Until
  <2>5. f \in Lines(s)
    BY <2>2, <2>3, EndOfBlock
  <2>6. e < f
    BY <1>1, <1>2, <1>3, <2>2, <2>3, <2>4, BlocksNest
  <2> QED
    BY <1>1, <1>3, <1>4, <2>4, <2>5, <2>6 DEF Inner
<1> QED
  BY <1>5, <1>6, <1>7

(* The instructions q of a thread of line w, as the builder leaves them. *)
Sound(s, q, w) ==
  /\ Script(s) /\ Balanced(s) /\ q \in Seq(Instrs)
  /\ \A k \in 1 .. Len(q) : q[k].lines # {} /\ q[k].lines \subseteq Lines(s)
  /\ \A k \in 1 .. Len(q) : q[k].op \in Jumps =>
       \E o \in Nat : q[k].lines = {o} /\ ThreadOf(s, o) = w /\ Closed(s, q, k, o, {})
  /\ Told(s, q, w)

(* Instruction k is a block of line o that is one update. *)
Firm(s, q, k, o, w) ==
  /\ k \in 1 .. Len(q) /\ Inside(q[k]) /\ q[k].lines = {o} /\ o \in Lines(s)
  /\ s[o] \in {"multi"} \cup Cadences /\ Until(s, o) = EndOf(s, o) /\ ThreadOf(s, o) = w
  /\ q[k].size \in Nat /\ k + q[k].size <= Len(q)
  /\ \A l \in 1 .. Len(q) : \A i \in q[l].lines : Inner(s, o, i) <=> (k < l /\ l <= k + q[k].size)
  /\ \A i \in Lines(s) : Inner(s, o, i) => s[i] \notin {"while", "pause"}
Into(q, k, l) == k < l /\ l <= k + q[k].size

LEMMA Soundly ==
  ASSUME BuilderInv, FitInv, TellInv, Built, Clean(script), Unmoved, NEW t \in DOMAIN code
  PROVE  Sound(script, code[t], threads[t].owner) /\ t \in 1 .. Len(code) /\ DOMAIN code[t] = 1 .. Len(code[t])
<1>1. /\ Script(script) /\ Placed(script, code, threads, <<>>, Len(script) + 1) /\ Balanced(script)
      /\ Stay(script, code, threads) => Written(script, code, threads, {}, {})
  BY ScriptsAssumption DEF BuilderInv, FitInv, Arranged, Script, Clean
<1>2. code \in Codes
  BY <1>1 DEF Placed
<1>3. DOMAIN code = 1 .. Len(code) /\ \A u \in 1 .. Len(code) : DOMAIN code[u] = 1 .. Len(code[u]) /\ code[u] \in Seq(Instrs)
  BY <1>2, CodesAre
<1>4. Written(script, code, threads, {}, {})
  <2>1. Stay(script, code, threads)
    BY <1>3 DEF Unmoved, Stay
  <2> QED
    BY <1>1, <2>1
<1> PICK q, w : q = code[t] /\ w = threads[t].owner
  OBVIOUS
<1>5. t \in 1 .. Len(code) /\ DOMAIN q = 1 .. Len(q) /\ q \in Seq(Instrs)
  BY <1>3
<1>6. \A k \in 1 .. Len(q) : q[k].lines # {} /\ q[k].lines \subseteq Lines(script)
  <2>1. Lines(script) = 1 .. (Len(script) + 1) - 1
    BY <1>1, LinesAre
  <2> QED
    BY <1>1, <1>4, <1>5, <2>1 DEF Placed, Written
<1>7. \A k \in 1 .. Len(q) : q[k].op \in Jumps =>
        \E o \in Nat : q[k].lines = {o} /\ ThreadOf(script, o) = w /\ Closed(script, q, k, o, {})
  BY <1>4, <1>5 DEF Written
<1>8. Told(script, q, w)
  BY <1>5 DEF TellInv, Telling
<1> QED
  BY <1>1, <1>5, <1>6, <1>7, <1>8 DEF Sound

LEMMA Firmly ==
  ASSUME NEW q, NEW w, Sound(script, q, w), NEW k \in 1 .. Len(q), Inside(q[k]), q[k].size > 0, Straight(LineOf(q[k]))
  PROVE  \E o \in Nat : Firm(script, q, k, o, w)
<1>1. q[k].op \in Jumps /\ q[k].op # "rewind"
  BY DEF Inside, Jumps
<1>2. PICK o \in Nat : q[k].lines = {o} /\ ThreadOf(script, o) = w /\ Closed(script, q, k, o, {})
  BY <1>1 DEF Sound
<1>3. Spanned(script, q, k, o) /\ (q[k].op = "cadence" => script[o] \in Cadences)
  <2>1. ~(q[k].op = "cadence" /\ script[o] \notin Cadences /\ q[k].size = 0)
    OBVIOUS
  <2>2. Spanned(script, q, k, o)
    BY <1>1, <1>2, <2>1 DEF Closed
  <2> QED
    BY <2>2 DEF Spanned
<1>4. o \in Lines(script) /\ script[o] \in {"multi"} \cup Cadences
  <2>1. q[k].lines \subseteq Lines(script)
    BY DEF Sound
  <2>2. q[k].op = "multi" => script[o] = "multi"
    BY <1>2 DEF Sound, Told, ToldBy, OfLine
  <2> QED
    BY <1>2, <1>3, <2>1, <2>2 DEF Inside
<1>5. Until(script, o) = EndOf(script, o)
  BY <1>4 DEF Until, Cadences
<1>6. LineOf(q[k]) = o
  <2>1. \A l \in {o} : (\A m \in {o} : l <= m) => l = o
    OBVIOUS
  <2>2. o <= o
    OBVIOUS
  <2> QED
    BY <1>2, <2>1, <2>2 DEF LineOf
<1>7. ASSUME NEW i \in Lines(script), Inner(script, o, i) PROVE script[i] \notin {"while", "pause"}
  <2>1. Script(script) /\ Balanced(script)
    BY DEF Sound
  <2>2. EndOf(script, o) \in Lines(script)
    BY <1>4, <2>1, EndOfBlock DEF Openers
  <2>3. i \in o .. EndOf(script, o)
    BY <1>4, <1>5, <1>7, <2>1, <2>2, LinesAre DEF Inner
  <2> QED
    BY <1>6, <2>3 DEF Straight
<1> QED
  BY <1>2, <1>3, <1>4, <1>5, <1>7 DEF Firm, Spanned

LEMMA Strides ==
  ASSUME NEW s, NEW q, NEW w, Sound(s, q, w), NEW k \in 1 .. Len(q)
  PROVE  /\ q[k] \in Instrs /\ Len(q) \in Nat
         /\ q[k].op \in {"if", "skip"} => q[k].size \in Nat
         /\ q[k].op = "rewind" =>
              /\ q[k].size \in Nat /\ k > q[k].size
              /\ \E o \in Nat : q[k - q[k].size].lines = {o} /\ s[o] = "while"
<1>1. q[k] \in Instrs /\ Len(q) \in Nat
  BY LenProperties DEF Sound
<1>2. ASSUME q[k].op \in {"if", "skip"} PROVE q[k].size \in Nat
  <2>1. PICK o \in Nat : Closed(s, q, k, o, {})
    BY <1>2 DEF Sound, Jumps
  <2> QED
    BY <1>2, <2>1 DEF Closed, Spanned
<1>3. ASSUME q[k].op = "rewind"
      PROVE  /\ q[k].size \in Nat /\ k > q[k].size
             /\ \E o \in Nat : q[k - q[k].size].lines = {o} /\ s[o] = "while"
  <2>1. PICK e \in Nat : q[k].lines = {e} /\ Closed(s, q, k, e, {})
    BY <1>3 DEF Sound, Jumps
  <2>2. Returns(s, q, k, e)
    BY <1>3, <2>1 DEF Closed
  <2> PICK l, o : l = k - q[k].size /\ o = OpenerOf(s, e)
    OBVIOUS
  <2>3. s[o] = "while"
    BY <1>3, <2>1 DEF Sound, Told, ToldBy, OfLine
  <2>4. l \in 1 .. Len(q)
    BY <1>1, <2>2 DEF Returns
  <2>5. q[l].lines = {o} /\ q[l].lines \subseteq Lines(s) /\ Script(s)
    BY <2>2, <2>4 DEF Sound, Returns
  <2>6. o \in Nat
    BY <2>5, LinesAre
  <2> QED
    BY <2>2, <2>3, <2>5, <2>6 DEF Returns
<1> QED
  BY <1>1, <1>2, <1>3

(* Inside of such a block nothing stops the thread, nothing goes back to   *)
(* a line of it, and a jump from before it does not end in it.             *)
LEMMA FirmInside ==
  ASSUME NEW s, NEW q, NEW w, Sound(s, q, w), NEW k, NEW o, Firm(s, q, k, o, w), NEW n \in 1 .. Len(q), Into(q, k, n)
  PROVE  q[n].op \notin {"pause", "yield"} /\ ~\E p \in Nat : q[n].lines = {p} /\ s[p] = "while"
<1>1. Script(s) /\ Lines(s) = 1 .. Len(s) /\ Len(s) \in Nat
  BY LinesAre DEF Sound
<1>2. PICK i \in q[n].lines : i \in Lines(s)
  BY DEF Sound
<1>3. Inner(s, o, i) /\ s[i] \notin {"while", "pause"} /\ o \in Lines(s)
  BY <1>2 DEF Firm, Into
<1>4. q[n].op # "pause"
  BY <1>2, <1>3 DEF Sound, Told, ToldBy, OfLine
<1>5. q[n].op # "yield"
  <2> SUFFICES ASSUME q[n].op = "yield" PROVE FALSE
    OBVIOUS
  <2>1. i = w
    BY <1>2 DEF Sound, Told, ToldBy, OfLine
  <2>2. w = 0 \/ w \in Around(s, o)
    BY <1>1, <1>3, InnermostCases DEF Firm, ThreadOf
  <2>3. w < o
    BY <1>1, <1>3, <2>2 DEF Around
  <2> QED
    BY <1>1, <1>2, <1>3, <2>1, <2>3 DEF Inner
<1> QED
  BY <1>2, <1>3, <1>4, <1>5

LEMMA FirmOver ==
  ASSUME NEW s, NEW q, NEW w, Sound(s, q, w), NEW k, NEW o, Firm(s, q, k, o, w), NEW n \in 1 .. Len(q),
         q[n].op \in {"if", "skip"}, n < k, NEW to, to = n + 1 + q[n].size
  PROVE  ~Into(q, k, to)
<1>1. Script(s) /\ Balanced(s) /\ Lines(s) = 1 .. Len(s) /\ Len(s) \in Nat
  BY LinesAre DEF Sound
<1>2. q[n].size \in Nat /\ Len(q) \in Nat
  BY Strides
<1>3. PICK p \in Nat : q[n].lines = {p} /\ Closed(s, q, n, p, {})
  BY DEF Sound, Jumps
<1>4. /\ p \in Lines(s) /\ s[p] \in {"if", "while", "else"}
      /\ \A l \in 1 .. Len(q) : \A i \in q[l].lines : Inner(s, p, i) <=> (n < l /\ l <= n + q[n].size)
  <2>1. p \in Lines(s)
    BY <1>3 DEF Sound
  <2>2. s[p] \in {"if", "while", "else"}
    BY <1>3 DEF Sound, Told, ToldBy, OfLine
  <2>3. Spanned(s, q, n, p)
    BY <1>3 DEF Closed
  <2> QED
    BY <2>1, <2>2, <2>3 DEF Spanned
<1> SUFFICES ASSUME Into(q, k, to) PROVE FALSE
  OBVIOUS
<1> PICK last, size : last = k + q[k].size /\ size = q[k].size
  OBVIOUS
<1>5. k \in 1 .. Len(q) /\ size \in Nat /\ last <= Len(q) /\ q[k].lines = {o} /\ o \in Lines(s)
  BY DEF Firm
<1>6. k < to /\ to <= last
  BY DEF Into
<1>7. last \in 1 .. Len(q) /\ k < last /\ k <= n + q[n].size
  BY <1>2, <1>5, <1>6, SMTT(60)
<1>8. Inner(s, p, o)
  BY <1>4, <1>5, <1>7
<1>9. PICK i \in q[last].lines : i \in Lines(s)
  BY <1>7 DEF Sound
<1>10. Inner(s, o, i)
  BY <1>7, <1>9 DEF Firm
<1>11. s[o] \in {"multi"} \cup Cadences
  BY DEF Firm
<1>12. Inner(s, p, i)
  BY <1>1, <1>4, <1>5, <1>8, <1>9, <1>10, <1>11, PartsNest
<1>13. last <= n + q[n].size
  BY <1>4, <1>7, <1>9, <1>12
<1>14. n \in 1 .. Len(q) /\ to = n + 1 + q[n].size
  OBVIOUS
<1> QED
  BY ONLY <1>2, <1>5, <1>6, <1>7, <1>13, <1>14

(* How the thread runs. *)
FlagSet == [paused : BOOLEAN, yielding : BOOLEAN, complete : BOOLEAN, linked : BOOLEAN]
LoopSet == [at : Nat, target : Int, realtime : BOOLEAN]

(* The loops are blocks before the next instruction, one inside of the     *)
(* other; and the thread is in no block that is one update without a loop. *)
Looping(q, n, ls) ==
  /\ ls \in Seq(LoopSet)
  /\ \A l \in 1 .. Len(ls) :
       ls[l].at \in 1 .. Len(q) /\ ls[l].at < n /\ ls[l].target = ls[l].at + 1 + q[ls[l].at].size
  /\ \A l, m \in 1 .. Len(ls) : l < m => ls[l].at < ls[m].at
Entered(s, q, w, n, ls) ==
  \A k \in 1 .. Len(q) : \A o \in Nat :
    Firm(s, q, k, o, w) /\ n \in 1 .. Len(q) /\ Into(q, k, n) => \E l \in 1 .. Len(ls) : ls[l].at = k
Stirred(f, q, n) == f.yielding => n \in 1 .. Len(q) /\ q[n].op = "yield"

(* What an instruction makes of the thread. *)
Moving(o, q, n) ==
  /\ o.flags \in FlagSet /\ ~o.flags.complete
  /\ o.from \in Nat \ {0} /\ o.from + o.stride \in Nat \ {0}
  /\ o.flags.linked = flags.linked
  /\ o.flags.yielding => o.from + o.stride = n /\ q[n].op = "yield"

LEMMA Moves1 ==
  ASSUME NEW w, NEW q, q = Instructions, Sound(script, q, w), next \in 1 .. Len(q), flags \in FlagSet, ~Suspended(flags),
         NEW o, o \in Executed(q[next])
  PROVE  Moving(o, q, next)
<1> PICK x, n : x = q[next] /\ n = next
  OBVIOUS
<1>1. x \in Instrs /\ n \in Nat \ {0} /\ ~flags.yielding /\ ~flags.complete /\ ~flags.paused
  BY Strides DEF Suspended
<1>2. /\ Plainly.from = n /\ Plainly.stride = 1 /\ Plainly.flags = flags /\ Plainly = [from |-> n, stride |-> 1, flags |-> flags, cadence |-> cadence]
  BY DEF Plainly, Outcome
<1>3. n + 1 \in Nat \ {0}
  BY <1>1
<1>4. CASE x.op \in {"act", "set", "spawn", "multi"}
  <2>1. o = Plainly
    BY <1>4 DEF Executed
  <2> QED
    BY <1>1, <1>2, <1>3, <2>1 DEF Moving
<1>5. CASE x.op = "pause"
  <2>1. o = [Plainly EXCEPT !.flags.paused = flags.linked]
    BY <1>5 DEF Executed
  <2>2. o.from = n /\ o.stride = 1 /\ o.flags = [flags EXCEPT !.paused = flags.linked]
    BY <1>2, <2>1
  <2> QED
    BY <1>1, <1>3, <2>2 DEF Moving, FlagSet
<1>6. CASE x.op = "yield"
  <2>1. o = Plainly \/ o = [Plainly EXCEPT !.stride = 0, !.flags.yielding = TRUE]
    BY <1>6 DEF Executed
  <2>2. o = Plainly \/ (o.from = n /\ o.stride = 0 /\ o.flags = [flags EXCEPT !.yielding = TRUE])
    BY <1>2, <2>1
  <2>3. n + 0 = n
    BY <1>1
  <2> QED
    BY <1>1, <1>2, <1>3, <1>6, <2>2, <2>3, ZenonT(60) DEF Moving, FlagSet
<1>7. CASE x.op = "if"
  <2>1. o = Plainly \/ o = [Plainly EXCEPT !.stride = 1 + x.size]
    BY <1>7 DEF Executed
  <2>2. o = Plainly \/ (o.from = n /\ o.stride = 1 + x.size /\ o.flags = flags)
    BY <1>2, <2>1
  <2>3. x.size \in Nat
    BY <1>7, Strides
  <2>4. n + (1 + x.size) \in Nat \ {0}
    BY <1>1, <2>3
  <2> QED
    BY <1>1, <1>2, <1>3, <2>2, <2>4 DEF Moving
<1>8. CASE x.op = "skip"
  <2>1. o = [Plainly EXCEPT !.from = IF flags.linked THEN next + x.size ELSE next]
    BY <1>8 DEF Executed
  <2>2. (o.from = n \/ o.from = n + x.size) /\ o.stride = 1 /\ o.flags = flags
    BY <1>2, <2>1
  <2>3. x.size \in Nat
    BY <1>8, Strides
  <2>4. n + x.size \in Nat \ {0} /\ (n + x.size) + 1 \in Nat \ {0}
    BY <1>1, <2>3
  <2> QED
    BY <1>1, <1>3, <2>2, <2>4 DEF Moving
<1>9. CASE x.op = "rewind"
  <2>1. o = [Plainly EXCEPT !.stride = 0, !.from = IF flags.linked THEN next - x.size ELSE next]
    BY <1>9 DEF Executed
  <2>2. (o.from = n \/ o.from = n - x.size) /\ o.stride = 0 /\ o.flags = flags
    BY <1>2, <2>1
  <2>3. x.size \in Nat /\ n > x.size
    BY <1>9, Strides
  <2>4. n - x.size \in Nat \ {0} /\ (n - x.size) + 0 \in Nat \ {0} /\ n + 0 \in Nat \ {0}
    BY <1>1, <2>3
  <2> QED
    BY <1>1, <2>2, <2>4 DEF Moving
<1>10. CASE x.op = "cadence"
  <2>1. o = [Plainly EXCEPT !.cadence = x.cadence]
    BY <1>10 DEF Executed
  <2>2. o.from = n /\ o.stride = 1 /\ o.flags = flags
    BY <1>2, <2>1
  <2> QED
    BY <1>1, <1>3, <2>2 DEF Moving
<1> QED
  BY <1>1, <1>4, <1>5, <1>6, <1>7, <1>8, <1>9, <1>10 DEF Instrs, Ops

(* A step that ends in a block that is one update goes on in its loop. *)
LEMMA GoesInside ==
  ASSUME NEW w, NEW q, q = Instructions, Sound(script, q, w), next \in 1 .. Len(q), flags \in FlagSet, ~Suspended(flags), flags.linked,
         Looping(q, next, loops), Entered(script, q, w, next, loops), ~(Inside(q[next]) /\ q[next].size > 0),
         NEW o, o \in Executed(q[next]), NEW to, to = o.from + o.stride,
         NEW k \in 1 .. Len(q), NEW line \in Nat, Firm(script, q, k, line, w), to \in 1 .. Len(q), Into(q, k, to)
  PROVE  ~Suspended(o.flags) /\ \E l \in 1 .. Len(loops) : loops[l].at = k /\ GoesOn(loops[l], Active(l), to, o.flags)
<1> PICK x, n : x = q[next] /\ n = next
  OBVIOUS
<1>1. x \in Instrs /\ n \in 1 .. Len(q) /\ Len(q) \in Nat /\ n \in Nat \ {0}
  BY Strides
<1>2. q[k].size \in Nat /\ k < to /\ to <= k + q[k].size /\ k # n
  <2>1. q[k].size \in Nat /\ Inside(q[k])
    BY DEF Firm
  <2>2. k < to /\ to <= k + q[k].size
    BY DEF Into
  <2>3. q[k].size > 0
    BY <2>1, <2>2
  <2> QED
    BY <2>1, <2>2, <2>3
<1>3. /\ Plainly.from = n /\ Plainly.stride = 1 /\ Plainly.flags = flags /\ Plainly = [from |-> n, stride |-> 1, flags |-> flags, cadence |-> cadence]
  BY DEF Plainly, Outcome
<1>4. Into(q, k, n) => \E l \in 1 .. Len(loops) : loops[l].at = k
  BY <1>1 DEF Entered
<1>5. ASSUME o.flags = flags, to >= n + 1, Into(q, k, n)
      PROVE  ~Suspended(o.flags) /\ \E l \in 1 .. Len(loops) : loops[l].at = k /\ GoesOn(loops[l], Active(l), to, o.flags)
  <2>1. PICK l \in 1 .. Len(loops) : loops[l].at = k
    BY <1>4, <1>5
  <2>2. loops[l].target = k + 1 + q[k].size
    BY <2>1 DEF Looping
  <2>3. to < loops[l].target
    BY <1>2, <2>2
  <2>4. Active(l) <= to
    <3>1. CASE l = Len(loops)
      BY <1>1, <1>5, <3>1 DEF Active
    <3>2. CASE l # Len(loops)
      <4>1. Len(loops) \in Nat
        BY LenProperties DEF Looping
      <4>2. l + 1 \in 1 .. Len(loops)
        BY <3>2, <4>1
      <4>3. loops[l + 1].at < n /\ loops[l + 1].at \in 1 .. Len(q)
        BY <4>2 DEF Looping
      <4>4. Active(l) = loops[l + 1].at
        BY <3>2 DEF Active
      <4> QED
        BY <1>1, <1>5, <4>3, <4>4
    <3> QED
      BY <3>1, <3>2
  <2> QED
    BY <1>5, <2>1, <2>3, <2>4 DEF GoesOn
<1>6. ASSUME to = n + 1 PROVE Into(q, k, n)
  BY <1>1, <1>2, <1>6 DEF Into
<1>7. CASE x.op \in {"act", "set", "spawn", "multi"}
  <2>1. o = Plainly
    BY <1>7 DEF Executed
  <2>2. to = n + 1 /\ o.flags = flags
    BY <1>3, <2>1
  <2> QED
    BY <1>1, <1>5, <1>6, <2>2
<1>8. CASE x.op = "cadence"
  <2>1. o = [Plainly EXCEPT !.cadence = x.cadence]
    BY <1>8 DEF Executed
  <2>2. to = n + 1 /\ o.flags = flags
    BY <1>3, <2>1
  <2> QED
    BY <1>1, <1>5, <1>6, <2>2
<1>9. CASE x.op = "pause"
  <2>1. o = [Plainly EXCEPT !.flags.paused = flags.linked]
    BY <1>9 DEF Executed
  <2>2. to = n + 1
    BY <1>3, <2>1
  <2> QED
    BY <1>6, <1>9, <2>2, FirmInside
<1>10. CASE x.op = "yield"
  <2>1. o = Plainly \/ o = [Plainly EXCEPT !.stride = 0, !.flags.yielding = TRUE]
    BY <1>10 DEF Executed
  <2>2. to = n + 1 \/ to = n + 0
    BY <1>3, <2>1
  <2>3. Into(q, k, n)
    BY <1>1, <1>6, <2>2
  <2> QED
    BY <1>10, <2>3, FirmInside
<1>11. CASE x.op \in {"if", "skip"} /\ to # n + 1
  <2>1. x.size \in Nat
    BY <1>11, Strides
  <2>2. o.flags = flags /\ to = n + 1 + x.size
    <3>1. CASE x.op = "if"
      <4>1. o = Plainly \/ o = [Plainly EXCEPT !.stride = 1 + x.size]
        BY <3>1 DEF Executed
      <4>2. o.stride = 1 + x.size /\ o.from = n /\ o.flags = flags
        BY <1>3, <1>11, <4>1
      <4> QED
        BY <1>1, <2>1, <4>2, SMTT(60)
    <3>2. CASE x.op = "skip"
      <4>1. o = [Plainly EXCEPT !.from = IF flags.linked THEN next + x.size ELSE next]
        BY <3>2 DEF Executed
      <4>2. o.stride = 1 /\ o.from = n + x.size /\ o.flags = flags
        BY <1>3, <4>1
      <4> QED
        <5>1. to = (n + x.size) + 1
          BY <4>2
        <5>2. (n + x.size) + 1 = n + 1 + x.size
          BY ONLY <1>1, <2>1
        <5> QED
          BY <4>2, <5>1, <5>2
    <3> QED
      BY <1>11, <3>1, <3>2
  <2>3. ~(n < k)
    BY <1>11, <2>2, FirmOver
  <2>4. Into(q, k, n) /\ to >= n + 1
    BY <1>1, <1>2, <2>1, <2>2, <2>3, SMTT(60) DEF Into
  <2> QED
    BY <1>5, <2>2, <2>4
<1>12. CASE x.op \in {"if", "skip"} /\ to = n + 1
  <2>1. o.flags = flags
    <3>1. CASE x.op = "if"
      <4>1. o = Plainly \/ o = [Plainly EXCEPT !.stride = 1 + x.size]
        BY <3>1 DEF Executed
      <4> QED
        BY <1>3, <4>1
    <3>2. CASE x.op = "skip"
      <4>1. o = [Plainly EXCEPT !.from = IF flags.linked THEN next + x.size ELSE next]
        BY <3>2 DEF Executed
      <4> QED
        BY <1>3, <4>1
    <3> QED
      BY <1>12, <3>1, <3>2
  <2> QED
    BY <1>1, <1>5, <1>6, <1>12, <2>1
<1>13. CASE x.op = "rewind"
  <2>1. o = [Plainly EXCEPT !.stride = 0, !.from = IF flags.linked THEN next - x.size ELSE next]
    BY <1>13 DEF Executed
  <2>2. o.from = n - x.size /\ o.stride = 0
    BY <1>3, <2>1
  <2>3. x.size \in Nat /\ \E p \in Nat : q[n - x.size].lines = {p} /\ script[p] = "while"
    BY <1>13, Strides, SMTT(60)
  <2>4. to = n - x.size
    BY <1>1, <2>2, <2>3
  <2> QED
    BY <2>3, <2>4, FirmInside
<1> QED
  BY <1>1, <1>7, <1>8, <1>9, <1>10, <1>11, <1>12, <1>13 DEF Instrs, Ops

-----------------------------------------------------------------------------
(* Where the thread is, with the loops it is in. *)
Runs(s, q, w, n, f, u, ls) ==
  /\ f \in FlagSet /\ n \in Nat \ {0} /\ (u # Nowhere => ~Suspended(f))
  /\ f.linked =>
       /\ u = Nowhere => ls = <<>>
       /\ Looping(q, n, ls)
       /\ ~f.complete => Entered(s, q, w, n, ls) /\ Stirred(f, q, n)

LEMMA KeptIs ==
  ASSUME loops \in Seq(LoopSet), NEW to, NEW f, NEW kept, kept = Kept(to, f)
  PROVE  /\ kept \in 0 .. Len(loops)
         /\ kept # 0 => GoesOn(loops[kept], Active(kept), to, f)
         /\ \A l \in 1 .. Len(loops) : GoesOn(loops[l], Active(l), to, f) => l <= kept
<1> DEFINE going == {l \in DOMAIN loops : GoesOn(loops[l], Active(l), to, f)}
<1>1. DOMAIN loops = 1 .. Len(loops) /\ Len(loops) \in Nat
  BY LenProperties
<1>2. kept = IF going = {} THEN 0 ELSE CHOOSE l \in going : \A m \in going : m <= l
  BY DEF Kept
<1>3. going \subseteq 1 .. Len(loops) /\ \A l \in 1 .. Len(loops) : l \in going <=> GoesOn(loops[l], Active(l), to, f)
  BY <1>1
<1> HIDE DEF going
<1>4. CASE going = {}
  BY <1>1, <1>2, <1>3, <1>4
<1>5. CASE going # {}
  <2> DEFINE T == {Len(loops) - l : l \in going}
  <2>1. T \in SUBSET Nat /\ T # {}
    <3>1. \A l \in going : Len(loops) - l \in Nat
      BY <1>1, <1>3
    <3> QED
      BY <1>5, <3>1
  <2>2. PICK m \in T : \A n \in T : m <= n
    <3> HIDE DEF T
    <3> QED
      BY <2>1, Least
  <2>3. PICK l \in going : m = Len(loops) - l
    OBVIOUS
  <2>4. ASSUME NEW p \in going PROVE p <= l
    <3>1. Len(loops) - p \in T
      OBVIOUS
    <3> QED
      <4>1. m <= Len(loops) - p
        <5> HIDE DEF T
        <5> QED
          BY <2>2, <3>1
      <4>2. p \in 1 .. Len(loops) /\ l \in 1 .. Len(loops)
        BY <1>3
      <4> QED
        BY ONLY <1>1, <2>3, <4>1, <4>2
  <2>5. kept \in going /\ \A p \in going : p <= kept
    BY <1>2, <1>5, <2>4
  <2> QED
    BY <1>1, <1>3, <2>5
<1> QED
  BY <1>4, <1>5

LEMMA Prefix ==
  ASSUME NEW S, NEW s \in Seq(S), NEW n \in 0 .. Len(s)
  PROVE  SubSeq(s, 1, n) \in Seq(S) /\ Len(SubSeq(s, 1, n)) = n /\ \A i \in 1 .. n : SubSeq(s, 1, n)[i] = s[i]
<1>1. Len(s) \in Nat /\ n \in Nat /\ n <= Len(s)
  BY LenProperties
<1>2. \A i \in 1 .. n : s[i] \in S
  <2> TAKE i \in 1 .. n
  <2>1. i \in 1 .. Len(s)
    BY <1>1
  <2> QED
    BY <2>1, ElementOfSeq
<1>3. /\ SubSeq(s, 1, n) \in Seq(S)
      /\ Len(SubSeq(s, 1, n)) = IF 1 <= n THEN n - 1 + 1 ELSE 0
      /\ \A i \in 1 .. n - 1 + 1 : SubSeq(s, 1, n)[i] = s[1 + i - 1]
  BY <1>1, <1>2, SubSeqProperties
<1> QED
  BY <1>1, <1>3

LEMMA LoopsKept ==
  ASSUME NEW q, NEW n, NEW ls, Looping(q, n, ls), NEW kept \in 0 .. Len(ls), NEW rest, \A l \in 1 .. kept : ls[l].at < rest
  PROVE  Looping(q, rest, SubSeq(ls, 1, kept))
<1> PICK short : short = SubSeq(ls, 1, kept)
  OBVIOUS
<1>1. short \in Seq(LoopSet) /\ Len(short) = kept /\ \A l \in 1 .. kept : short[l] = ls[l]
  BY Prefix DEF Looping
<1>2. \A l \in 1 .. kept : l \in 1 .. Len(ls)
  OBVIOUS
<1>3. ASSUME NEW l \in 1 .. Len(short)
      PROVE  /\ short[l].at \in 1 .. Len(q) /\ short[l].at < rest /\ short[l].target = short[l].at + 1 + q[short[l].at].size
             /\ \A m \in 1 .. Len(short) : l < m => short[l].at < short[m].at
  <2>1. l \in 1 .. kept /\ l \in 1 .. Len(ls)
    BY <1>1, <1>2, <1>3
  <2>2. short[l] = ls[l] /\ short[l].at < rest
    BY <1>1, <2>1
  <2>3. ls[l].at \in 1 .. Len(q) /\ ls[l].target = ls[l].at + 1 + q[ls[l].at].size
    BY <2>1 DEF Looping
  <2>4. ASSUME NEW m \in 1 .. Len(short), l < m PROVE short[l].at < short[m].at
    <3>1. m \in 1 .. kept /\ m \in 1 .. Len(ls)
      BY <1>1, <1>2
    <3>2. ls[l].at < ls[m].at /\ short[m] = ls[m]
      BY <1>1, <2>1, <2>4, <3>1 DEF Looping
    <3> QED
      BY <2>2, <3>2
  <2> QED
    BY <2>2, <2>3, <2>4
<1> QED
  BY <1>1, <1>3 DEF Looping

LEMMA NoneKept == ASSUME NEW to, NEW f, Suspended(f) PROVE Kept(to, f) = 0
<1>1. {l \in DOMAIN loops : GoesOn(loops[l], Active(l), to, f)} = {}
  BY DEF GoesOn
<1> QED
  BY <1>1 DEF Kept

(* A step that stays within the thread. *)
LEMMA StepRuns ==
  ASSUME NEW q, NEW w, q = Instructions, Sound(script, q, w), Runs(script, q, w, next, flags, update, loops), Step
  PROVE  Runs(script, q, w, next', flags', update', loops')
<1>1. /\ InUpdate /\ next \in Nat \ {0} /\ next <= Len(q) /\ ~(Inside(q[next]) /\ q[next].size > 0)
      /\ flags \in FlagSet /\ ~Suspended(flags)
  BY DEF Step, CurrentInstruction, InUpdate, Runs
<1>2. PICK o \in Executed(q[next]) : Settle(o)
  BY DEF Step, CurrentInstruction
<1>3. Len(q) \in Nat /\ next \in 1 .. Len(q)
  BY <1>1, LenProperties DEF Sound
<1>4. Moving(o, q, next)
  BY <1>1, <1>3, Moves1
<1> PICK to, ends : to = o.from + o.stride /\ ends = (~Suspended(o.flags) /\ to > Len(q))
  OBVIOUS
<1> PICK f, rest : f = (IF ends THEN [o.flags EXCEPT !.complete = TRUE] ELSE o.flags) /\ rest = (IF ends /\ loops # <<>> THEN o.from ELSE to)
  OBVIOUS
<1> PICK kept, first : kept = Kept(rest, f) /\ first = (IF loops = <<>> THEN next ELSE loops[1].at)
  OBVIOUS
<1>5. /\ next' = rest /\ flags' = f /\ loops' = SubSeq(loops, 1, kept)
      /\ update' = IF kept > 0 \/ NextOfMany(first, rest, f) THEN update ELSE Nowhere
  BY <1>2 DEF Settle
<1>6. f \in FlagSet /\ f.linked = flags.linked /\ (ends => f.complete) /\ (~ends => f = o.flags)
  BY <1>4 DEF Moving, FlagSet
<1>7. rest \in Nat \ {0}
  BY <1>4 DEF Moving
<1>8. update' # Nowhere => ~Suspended(f)
  <2>1. CASE Suspended(f)
    <3>1. kept = 0 /\ ~NextOfMany(first, rest, f)
      BY <2>1, NoneKept DEF NextOfMany
    <3> QED
      BY <1>5, <3>1
  <2> QED
    BY <2>1
<1>9. ASSUME flags.linked
      PROVE  /\ update' = Nowhere => loops' = <<>>
             /\ Looping(q, rest, loops')
             /\ ~f.complete => Entered(script, q, w, rest, loops') /\ Stirred(f, q, rest)
  <2>1. Looping(q, next, loops) /\ Entered(script, q, w, next, loops)
    BY <1>1, <1>9 DEF Runs, Suspended
  <2>2. loops \in Seq(LoopSet) /\ Len(loops) \in Nat
    BY <2>1, LenProperties DEF Looping
  <2>3. /\ kept \in 0 .. Len(loops)
        /\ kept # 0 => GoesOn(loops[kept], Active(kept), rest, f)
        /\ \A l \in 1 .. Len(loops) : GoesOn(loops[l], Active(l), rest, f) => l <= kept
    BY <2>2, KeptIs
  <2> PICK ls : ls = SubSeq(loops, 1, kept)
    OBVIOUS
  <2>4. ls \in Seq(LoopSet) /\ Len(ls) = kept /\ \A l \in 1 .. kept : ls[l] = loops[l]
    <3>1. kept \in 0 .. Len(loops) /\ loops \in Seq(LoopSet)
      BY <2>2, <2>3
    <3> QED
      BY ONLY <3>1, Prefix, ls = SubSeq(loops, 1, kept)
  <2>5. update' = Nowhere => ls = <<>>
    <3>1. update' = Nowhere => kept = 0
      BY <1>1, <1>5, <2>3 DEF InUpdate
    <3>2. kept = 0 => ls = <<>>
      BY <2>4
    <3> QED
      BY <3>1, <3>2
  <2>6. ASSUME NEW l \in 1 .. kept PROVE loops[l].at < rest
    <3>1. Active(kept) <= rest /\ kept \in 1 .. Len(loops)
      BY <2>3 DEF GoesOn
    <3>2. loops[kept].at < Active(kept) /\ Active(kept) \in Nat
      <4>1. CASE kept = Len(loops)
        BY <1>1, <2>1, <3>1, <4>1 DEF Active, Looping
      <4>2. CASE kept # Len(loops)
        <5>1. kept + 1 \in 1 .. Len(loops) /\ kept < kept + 1
          BY <2>2, <3>1, <4>2
        <5>2. Active(kept) = loops[kept + 1].at
          BY <4>2 DEF Active
        <5>3. loops[kept + 1].at \in 1 .. Len(q) /\ loops[kept].at < loops[kept + 1].at
          BY <2>1, <3>1, <5>1 DEF Looping
        <5> QED
          BY <5>2, <5>3
      <4> QED
        BY <4>1, <4>2, SMTT(30), ZenonT(30)
    <3>3. loops[l].at <= loops[kept].at /\ loops[l].at \in Nat /\ loops[kept].at \in Nat
      <4>1. loops[l].at \in 1 .. Len(q) /\ loops[kept].at \in 1 .. Len(q)
        BY ONLY <2>1, <3>1, SMTT(60) DEF Looping
      <4>2. l # kept => loops[l].at < loops[kept].at
        BY <2>1, <3>1, SMTT(60) DEF Looping
      <4> QED
        BY <4>1, <4>2
    <3> QED
      BY ONLY <1>7, <3>1, <3>2, <3>3, SMTT(60)
  <2>7. Looping(q, rest, ls)
    BY ONLY <2>1, <2>3, <2>6, LoopsKept, ls = SubSeq(loops, 1, kept)
  <2>8. ASSUME ~f.complete PROVE Entered(script, q, w, rest, ls) /\ Stirred(f, q, rest)
    <3>1. f = o.flags /\ rest = to
      BY <1>6, <2>8
    <3>2. ASSUME NEW k \in 1 .. Len(q), NEW line \in Nat, Firm(script, q, k, line, w), rest \in 1 .. Len(q), Into(q, k, rest)
          PROVE  \E l \in 1 .. Len(ls) : ls[l].at = k
      <4>1. PICK l \in 1 .. Len(loops) : loops[l].at = k /\ GoesOn(loops[l], Active(l), rest, f)
        <5>1. /\ q = Instructions /\ Sound(script, q, w) /\ next \in 1 .. Len(q) /\ flags \in FlagSet /\ ~Suspended(flags)
              /\ flags.linked /\ Looping(q, next, loops) /\ Entered(script, q, w, next, loops)
              /\ ~(Inside(q[next]) /\ q[next].size > 0)
          BY <1>1, <1>3, <1>9, <2>1
        <5>2. /\ o \in Executed(q[next]) /\ to = o.from + o.stride /\ k \in 1 .. Len(q) /\ line \in Nat
              /\ Firm(script, q, k, line, w) /\ to \in 1 .. Len(q) /\ Into(q, k, to)
          BY <3>1, <3>2
        <5>3. \E l \in 1 .. Len(loops) : loops[l].at = k /\ GoesOn(loops[l], Active(l), to, o.flags)
          BY ONLY <5>1, <5>2, GoesInside
        <5> QED
          BY <3>1, <5>3
      <4>2. l \in 1 .. kept
        <5>1. l <= kept
          BY <2>3, <4>1
        <5> QED
          BY ONLY <2>2, <2>3, <4>1, <5>1
      <4> QED
        BY <2>4, <4>1, <4>2
    <3>3. Stirred(f, q, rest)
      BY <1>3, <1>4, <3>1 DEF Moving, Stirred
    <3> QED
      BY <3>2, <3>3 DEF Entered
  <2> QED
    BY <1>5, <2>5, <2>7, <2>8
<1> QED
  BY <1>5, <1>6, <1>7, <1>8, <1>9 DEF Runs

(* The other steps of an update. *)
LEMMA IntoRuns ==
  ASSUME NEW q, NEW w, q = Instructions, Sound(script, q, w), Runs(script, q, w, next, flags, update, loops), StepInto
  PROVE  Runs(script, q, w, next', flags', update', loops')
<1> PICK n, x, loop : n = next /\ x = q[n] /\ loop = [at |-> n, target |-> n + 1 + x.size, realtime |-> x.op = "cadence"]
  OBVIOUS
<1>1. /\ InUpdate /\ n \in Nat \ {0} /\ n <= Len(q) /\ flags' = flags /\ update' = update
      /\ next' = n + 1 /\ loops' = Append(loops, loop)
      /\ flags \in FlagSet /\ ~Suspended(flags)
  BY DEF StepInto, CurrentInstruction, InUpdate, Runs
<1>2. Len(q) \in Nat /\ n \in 1 .. Len(q) /\ x \in Instrs
  <2>1. Len(q) \in Nat
    BY LenProperties DEF Sound
  <2>2. n \in 1 .. Len(q)
    BY <1>1, <2>1
  <2> QED
    BY <2>1, <2>2, Strides
<1>3. loop \in LoopSet
  BY <1>1, <1>2 DEF Instrs, LoopSet
<1>4. ASSUME flags.linked
      PROVE  loops' # <<>> /\ Looping(q, n + 1, loops') /\ Entered(script, q, w, n + 1, loops') /\ Stirred(flags, q, n + 1)
  <2>1. Looping(q, n, loops) /\ Entered(script, q, w, n, loops) /\ ~flags.yielding
    BY <1>1, <1>4 DEF Runs, Suspended
  <2>2. loops \in Seq(LoopSet) /\ Len(loops) \in Nat
    BY <2>1, LenProperties DEF Looping
  <2> PICK more, m : more = loops' /\ m = Len(loops) + 1
    OBVIOUS
  <2>3. /\ more \in Seq(LoopSet) /\ Len(more) = m /\ more[m] = loop /\ \A l \in 1 .. Len(loops) : more[l] = loops[l]
    BY <1>1, <1>3, <2>2, AppendProperties
  <2>4. more # <<>>
    BY <2>2, <2>3
  <2>5. \A l \in 1 .. m : l \in 1 .. Len(loops) \/ l = m
    BY <2>2
  <2>6. \A l \in 1 .. Len(loops) : loops[l].at \in 1 .. Len(q) /\ loops[l].at < n /\ loops[l].target = loops[l].at + 1 + q[loops[l].at].size
    BY <2>1 DEF Looping
  <2>7. Looping(q, n + 1, more)
    <3>1. ASSUME NEW l \in 1 .. m
          PROVE  more[l].at \in 1 .. Len(q) /\ more[l].at < n + 1 /\ more[l].target = more[l].at + 1 + q[more[l].at].size
      <4>1. CASE l = m
        BY <1>1, <1>2, <2>3, <4>1
      <4>2. CASE l \in 1 .. Len(loops)
        <5>1. more[l] = loops[l]
          BY <2>3, <4>2
        <5>2. loops[l].at \in 1 .. Len(q) /\ loops[l].at < n /\ loops[l].target = loops[l].at + 1 + q[loops[l].at].size
          BY <2>6, <4>2
        <5>3. loops[l].at < n + 1
          BY ONLY <1>2, <5>2
        <5> QED
          BY ONLY <5>1, <5>2, <5>3
      <4> QED
        BY <2>5, <4>1, <4>2
    <3>2. ASSUME NEW l \in 1 .. m, NEW j \in 1 .. m, l < j PROVE more[l].at < more[j].at
      <4>1. l \in 1 .. Len(loops) /\ more[l] = loops[l]
        BY <2>2, <2>3, <3>2
      <4>2. CASE j = m
        BY <2>3, <2>6, <4>1, <4>2
      <4>3. CASE j \in 1 .. Len(loops)
        <5>1. loops[l].at < loops[j].at
          BY <2>1, <3>2, <4>1, <4>3 DEF Looping
        <5> QED
          BY <2>3, <4>1, <4>3, <5>1
      <4> QED
        BY <2>5, <4>2, <4>3
    <3> QED
      BY <2>3, <3>1, <3>2 DEF Looping
  <2>8. ASSUME NEW k \in 1 .. Len(q), NEW o \in Nat, Firm(script, q, k, o, w), Into(q, k, n + 1)
        PROVE  \E l \in 1 .. Len(more) : more[l].at = k
    <3>1. CASE k = n
      <4>1. m \in 1 .. Len(more) /\ more[m].at = k
        BY <2>2, <2>3, <3>1
      <4> QED
        BY <4>1
    <3>2. CASE k # n
      <4>1. q[k].size \in Nat
        BY <2>8 DEF Firm
      <4>2. Into(q, k, n)
        <5>1. k < n + 1 /\ n + 1 <= k + q[k].size /\ k \in 1 .. Len(q)
          BY <2>8 DEF Into
        <5>2. k < n /\ n <= k + q[k].size
          BY ONLY <1>2, <3>2, <4>1, <5>1
        <5> QED
          BY <5>2 DEF Into
      <4>3. PICK l \in 1 .. Len(loops) : loops[l].at = k
        BY <1>2, <2>1, <2>8, <4>2 DEF Entered
      <4>4. l \in 1 .. Len(more) /\ more[l].at = k
        BY <2>2, <2>3, <4>3
      <4> QED
        BY <4>4
    <3> QED
      BY <3>1, <3>2
  <2> QED
    BY <2>1, <2>4, <2>7, <2>8 DEF Entered, Stirred
<1>5. n + 1 \in Nat \ {0}
  BY <1>1
<1> QED
  BY <1>1, <1>4, <1>5 DEF Runs, InUpdate

LEMMA BeyondRuns ==
  ASSUME NEW q, NEW w, q = Instructions, q \in Seq(Instrs), Runs(script, q, w, next, flags, update, loops), StepBeyond
  PROVE  Runs(script, q, w, next', flags', update', loops')
<1>1. /\ flags \in FlagSet /\ next \in Nat \ {0} /\ flags' = [flags EXCEPT !.complete = TRUE] /\ update' = Nowhere /\ loops' = <<>>
      /\ next' = IF q = <<>> THEN next ELSE Len(q)
  BY DEF StepBeyond, Runs
<1>2. flags' \in FlagSet /\ flags'.complete
  BY <1>1 DEF FlagSet
<1>3. next' \in Nat \ {0}
  <2>1. Len(q) \in Nat /\ (Len(q) = 0 => q = <<>>)
    BY LenProperties
  <2> QED
    BY <1>1, <2>1
<1>4. Looping(q, next', loops')
  BY <1>1 DEF Looping
<1> QED
  BY <1>1, <1>2, <1>3, <1>4 DEF Runs

(* What others do between updates. *)
LEMMA OthersRun ==
  ASSUME NEW q, NEW w, q = Instructions, Sound(script, q, w), Runs(script, q, w, next, flags, update, loops),
         Begin \/ Resume \/ Wake \/ Unlink
  PROVE  Runs(script, q, w, next', flags', update', loops')
<1>1. update = Nowhere /\ loops' = loops /\ flags \in FlagSet /\ next \in Nat \ {0}
  BY DEF Begin, Resume, Wake, Unlink, Between, InUpdate, Runs
<1>2. flags.linked => loops = <<>> /\ Looping(q, next, loops) /\
        (~flags.complete => Entered(script, q, w, next, loops) /\ Stirred(flags, q, next))
  BY <1>1 DEF Runs
<1>3. CASE Begin
  <2>1. next' = next /\ flags' = flags /\ ~Suspended(flags)
    BY <1>3 DEF Begin
  <2> QED
    BY <1>1, <1>2, <2>1 DEF Runs
<1>4. CASE Resume
  <2>1. next' = next /\ update' = Nowhere /\ flags' = [flags EXCEPT !.paused = FALSE]
    BY <1>1, <1>4 DEF Resume
  <2>2. flags' \in FlagSet /\ flags'.linked = flags.linked /\ flags'.complete = flags.complete /\ flags'.yielding = flags.yielding
    BY <1>1, <2>1 DEF FlagSet
  <2> QED
    BY <1>1, <1>2, <2>1, <2>2 DEF Runs, Stirred
<1>5. CASE Unlink
  <2>1. next' = next /\ update' = Nowhere /\ flags' = [flags EXCEPT !.linked = FALSE]
    BY <1>1, <1>5 DEF Unlink
  <2>2. flags' \in FlagSet /\ ~flags'.linked
    BY <1>1, <2>1 DEF FlagSet
  <2> QED
    BY <1>1, <2>1, <2>2 DEF Runs
<1>6. CASE Wake
  <2>1. next' = next + 1 /\ update' = Nowhere /\ flags' = [flags EXCEPT !.yielding = FALSE] /\ flags.yielding
    BY <1>1, <1>6 DEF Wake
  <2>2. flags' \in FlagSet /\ flags'.linked = flags.linked /\ flags'.complete = flags.complete /\ ~flags'.yielding
    BY <1>1, <2>1 DEF FlagSet
  <2>3. flags.linked => Looping(q, next + 1, loops)
    BY <1>2 DEF Looping
  <2>4. ASSUME flags.linked, ~flags.complete,
               NEW k \in 1 .. Len(q), NEW o \in Nat, Firm(script, q, k, o, w), Into(q, k, next + 1)
        PROVE  FALSE
    <3>1. next \in 1 .. Len(q) /\ q[next].op = "yield" /\ Entered(script, q, w, next, <<>>)
      BY <1>2, <2>1, <2>4 DEF Stirred
    <3>2. Inside(q[k]) /\ q[k].size \in Nat
      BY <2>4 DEF Firm
    <3>3. k # next
      BY <3>1, <3>2 DEF Inside
    <3>4. Into(q, k, next)
      BY <1>1, <2>4, <3>2, <3>3 DEF Into
    <3>5. \E l \in 1 .. Len(<<>>) : <<>>[l].at = k
      BY <2>4, <3>1, <3>4 DEF Entered
    <3> QED
      BY <3>5
  <2>5. next + 1 \in Nat \ {0}
    BY <1>1
  <2> QED
    BY <1>1, <1>2, <2>1, <2>2, <2>3, <2>4, <2>5 DEF Runs, Entered, Stirred
<1> QED
  BY <1>3, <1>4, <1>5, <1>6

(* The script has no line that the builder reads otherwise than it is      *)
(* meant, and the thread is where the builder put it.                      *)
Sure == run # Nowhere /\ Clean(script) /\ Unmoved
RunInv ==
  /\ run = Nowhere => next = 1 /\ loops = <<>> /\ update = Nowhere /\ flags = NewFlags
  /\ run # Nowhere => Built /\ run \in DOMAIN code
  /\ Sure => Runs(script, Instructions, threads[run].owner, next, flags, update, loops)

LEMMA RunInit ==
  ASSUME StepsInit
  PROVE  RunInv
BY DEF StepsInit, RunInv, Sure

(* A thread that starts is before its first instruction, and no block is   *)
(* around that.                                                            *)
LEMMA StartRuns ==
  ASSUME NEW q, NEW w, q \in Seq(Instrs), next = 1, loops = <<>>, update = Nowhere, flags = NewFlags
  PROVE  Runs(script, q, w, next, flags, update, loops)
<1>1. flags \in FlagSet /\ ~flags.yielding /\ next \in Nat \ {0}
  BY DEF NewFlags, FlagSet
<1>2. Looping(q, 1, <<>>)
  BY DEF Looping
<1>3. \A k \in 1 .. Len(q) : ~Into(q, k, 1)
  <2> TAKE k \in 1 .. Len(q)
  <2>1. ~(k < 1)
    BY LenProperties
  <2> QED
    BY <2>1 DEF Into
<1> QED
  BY <1>1, <1>2, <1>3 DEF Runs, Entered, Stirred

LEMMA RunStep ==
  ASSUME BuilderInv, FitInv, TellInv, RunInv, [StepsNext]_stepsVars
  PROVE  RunInv'
<1>1. CASE UNCHANGED stepsVars
  <2>1. UNCHANGED <<script, code, threads, builders, run, next, flags, update, loops>>
    BY <1>1 DEF stepsVars, building, running
  <2> QED
    BY <2>1, SMTT(30), ZenonT(60) DEF RunInv, Sure, Runs, Built, Unmoved, Instructions, Looping, Entered, Stirred
<1>2. CASE Building
  <2>1. ~Built
    BY <1>2, ZenonT(30), SMTT(30) DEF Building, Build, Blank, Update, Simple, Include, Open, Else, CloseIf, CloseWhile,
       CloseMulti, CloseCadence, OpenThread, CloseThread, CloseNothing, Complete, Built, Reading, Ended
  <2>2. run = Nowhere /\ UNCHANGED <<run, next, flags, update, loops>>
    BY <1>2, <2>1 DEF RunInv, Building, running
  <2> QED
    BY <2>2, SMTT(30), ZenonT(30) DEF RunInv, Sure
<1>3. CASE StartThread
  <2>1. /\ Built /\ run = Nowhere /\ run' \in DOMAIN code /\ UNCHANGED <<script, code, threads, builders, next, flags, update, loops>>
    BY <1>3 DEF StartThread, building
  <2>2. next = 1 /\ loops = <<>> /\ update = Nowhere /\ flags = NewFlags
    BY <2>1 DEF RunInv
  <2>3. Built'
    BY <2>1 DEF Built
  <2>4. ASSUME Sure' PROVE Runs(script, Instructions, threads[run].owner, next, flags, update, loops)'
    <3>1. Clean(script) /\ Unmoved
      BY <2>1, <2>4 DEF Sure, Unmoved
    <3> PICK t, q, w : t = run' /\ q = code[t] /\ w = threads[t].owner
      OBVIOUS
    <3>2. q \in Seq(Instrs)
      <4>1. t \in DOMAIN code
        BY <2>1
      <4>2. Sound(script, code[t], threads[t].owner)
        BY <2>1, <3>1, <4>1, Soundly
      <4> QED
        BY <4>2 DEF Sound
    <3>3. Runs(script, q, w, next, flags, update, loops)
      BY <2>2, <3>2, StartRuns
    <3>4. Instructions' = q /\ (threads[run].owner)' = w
      BY <2>1 DEF Instructions
    <3> QED
      BY <2>1, <3>3, <3>4 DEF Runs, Looping, Entered, Stirred
  <2> QED
    BY <2>1, <2>2, <2>3, <2>4 DEF RunInv
<1>4. CASE Begin \/ Resume \/ Wake \/ Unlink \/ StepBeyond \/ StepInto \/ Step
  <2>1. run # Nowhere /\ UNCHANGED <<script, code, threads, builders, run>>
    <3>1. run # Nowhere
      BY <1>4 DEF Begin, Resume, Wake, Unlink, StepBeyond, StepInto, Step, Between, InUpdate, RunInv
    <3>2. UNCHANGED <<building, run>>
      BY <1>4 DEF Begin, Resume, Wake, Unlink, StepBeyond, StepInto, Step
    <3> QED
      BY <3>1, <3>2 DEF building
  <2>2. Built /\ run \in DOMAIN code
    BY <2>1 DEF RunInv
  <2>3. Built' /\ (run \in DOMAIN code)'
    BY <2>1, <2>2 DEF Built
  <2>4. ASSUME Sure' PROVE Runs(script, Instructions, threads[run].owner, next, flags, update, loops)'
    <3>1. Clean(script) /\ Unmoved /\ Sure
      BY <2>1, <2>4 DEF Sure, Unmoved
    <3> PICK q, w : q = code[run] /\ w = threads[run].owner
      OBVIOUS
    <3>2. q = Instructions /\ Sound(script, q, w)
      <4>1. Sound(script, code[run], threads[run].owner)
        BY <2>2, <3>1, Soundly
      <4> QED
        BY <4>1 DEF Instructions
    <3>3. Runs(script, q, w, next, flags, update, loops)
      BY <3>1, <3>2 DEF RunInv
    <3>4. q \in Seq(Instrs)
      BY <3>2 DEF Sound
    <3>5. Runs(script, q, w, next', flags', update', loops')
      BY <1>4, <3>2, <3>3, <3>4, OthersRun, BeyondRuns, IntoRuns, StepRuns
    <3>6. Instructions' = q /\ (threads[run].owner)' = w /\ script' = script
      BY <2>1 DEF Instructions
    <3> QED
      BY <3>5, <3>6
  <2> QED
    BY <2>1, <2>3, <2>4 DEF RunInv
<1> QED
  BY <1>1, <1>2, <1>3, <1>4 DEF StepsNext

(* Between updates the thread is in no loop, so in no block that is one    *)
(* update.                                                                 *)
LEMMA MultiIsOneUpdateHolds ==
  ASSUME BuilderInv, FitInv, TellInv, RunInv
  PROVE  MultiIsOneUpdate
<1> SUFFICES ASSUME Between, Faithful, ~flags.complete, NEW k \in DOMAIN Instructions,
                    Inside(Instructions[k]), Instructions[k].size > 0, Straight(LineOf(Instructions[k])),
                    next \in Covered(run, k)
             PROVE  FALSE
  BY DEF MultiIsOneUpdate
<1>1. Sure /\ Clean(script) /\ Unmoved /\ flags.linked /\ run # Nowhere /\ update = Nowhere
  BY DEF Sure, Faithful, Between, InUpdate
<1>2. Built /\ run \in DOMAIN code
  BY <1>1 DEF RunInv
<1> PICK q, w : q = code[run] /\ w = threads[run].owner
  OBVIOUS
<1>3. q = Instructions /\ Sound(script, q, w) /\ DOMAIN q = 1 .. Len(q)
  BY <1>1, <1>2, Soundly DEF Instructions
<1>4. loops = <<>> /\ Entered(script, q, w, next, loops)
  BY <1>1, <1>3 DEF RunInv, Runs
<1>5. PICK o \in Nat : Firm(script, q, k, o, w)
  BY <1>3, Firmly
<1>6. k \in 1 .. Len(q) /\ next \in 1 .. Len(q) /\ Into(q, k, next)
  BY <1>3 DEF Covered, Into
<1>7. \E l \in 1 .. Len(<<>>) : <<>>[l].at = k
  BY <1>4, <1>5, <1>6 DEF Entered
<1> QED
  BY <1>7

(* A multi block, or a realtime one, with no loop and no pause in it is    *)
(* one update of the thread, whatever else is in it: between updates no    *)
(* linked thread is in the middle of one.                                  *)
THEOREM MultiIsOne == StepsSpec => []MultiIsOneUpdate
<1>1. StepsInit => BuilderInv /\ FitInv /\ TellInv /\ RunInv
  BY BuilderInit, FitInit, TellInit, RunInit DEF StepsInit
<1>2. BuilderInv /\ FitInv /\ TellInv /\ RunInv /\ [StepsNext]_stepsVars => (BuilderInv /\ FitInv /\ TellInv /\ RunInv)'
  BY BuilderStep, FitStep, TellStep, RunStep
<1>3. BuilderInv /\ FitInv /\ TellInv /\ RunInv => MultiIsOneUpdate
  BY MultiIsOneUpdateHolds
<1> QED
  BY <1>1, <1>2, <1>3, PTL DEF StepsSpec
=============================================================================
