------------------------- MODULE UndoHistoryProofs -------------------------
(***************************************************************************)
(* What the undo history keeps of its promises, proved for any places, any *)
(* strokes, caps and budgets, and any number of edits: the shape of the    *)
(* stacks, the room, what a hold takes back, what the stacks weigh at      *)
(* rest, and that they show a line of pictures.                            *)
(***************************************************************************)
EXTENDS UndoHistory, SequenceTheorems, FiniteSetTheorems, TLAPS

-----------------------------------------------------------------------------
(* Numbers, sequences and what is worked out along them.                    *)

LEMMA NatLeast ==
    ASSUME NEW T \in SUBSET Nat, T # {}
    PROVE  \E x \in T : \A y \in T : x <= y
<1>1. \E x \in T : \A y \in T : ~(y < x)
  <2>1. IsWellFoundedOn(OpToRel(<, Nat), Nat)
    BY NatLessThanWellFounded
  <2> DEFINE R == OpToRel(<, Nat)
  <2>2. \A x, y \in Nat : y < x => <<y, x>> \in R
    BY DEF OpToRel
  <2> HIDE DEF R
  <2>3. \E x \in T : \A y \in T : ~(<<y, x>> \in R)
    BY <2>1, WFMin DEF R
  <2> QED
    BY <2>2, <2>3, Zenon
<1> QED
  BY <1>1

LEMMA MinIsLeast ==
    ASSUME NEW T \in SUBSET Nat, T # {}
    PROVE  Min(T) \in T /\ \A y \in T : Min(T) <= y
BY NatLeast DEF Min

LEMMA MaxIsGreatest ==
    ASSUME NEW n \in Nat, NEW T \in SUBSET (0..n), T # {}
    PROVE  Max(T) \in T /\ \A y \in T : Max(T) >= y
<1> DEFINE D == {n - x : x \in T}
<1>1. D \in SUBSET Nat /\ D # {}
  <2>1. \A x \in 0..n : n - x \in Nat
    OBVIOUS
  <2>2. \A x \in T : n - x \in Nat
    BY <2>1
  <2> QED
    BY <2>2
<1>2. PICK d \in D : \A e \in D : d <= e
  BY <1>1, NatLeast
<1>3. PICK m \in T : d = n - m
  BY <1>2
<1>4. \A y \in T : m >= y
  <2> TAKE y \in T
  <2>1. n - y \in D
    OBVIOUS
  <2>2. d <= n - y
    BY <1>2, <2>1
  <2>3. m \in 0..n /\ y \in 0..n
    OBVIOUS
  <2> HIDE DEF D
  <2> QED
    BY <1>3, <2>2, <2>3
<1> QED
  BY <1>4 DEF Max

\* What is worked out from a to n, each value from the one before, is there,
\* and stays where every step leads.
LEMMA StaysIn ==
    ASSUME NEW a \in Nat, NEW n \in Nat, NEW f, NEW Q,
           f[a] \in Q[a], \A i \in (a + 1)..n : f[i - 1] \in Q[i - 1] => f[i] \in Q[i]
    PROVE  \A i \in a..n : f[i] \in Q[i]
<1> DEFINE T == {i \in a..n : f[i] \notin Q[i]}
<1> SUFFICES ASSUME T # {} PROVE FALSE
  OBVIOUS
<1>1. PICK i \in T : \A j \in T : i <= j
  <2>1. T \in SUBSET Nat
    OBVIOUS
  <2> HIDE DEF T
  <2> QED
    BY <2>1, NatLeast
<1>2. i # a /\ i \in (a + 1)..n /\ i - 1 \in a..n /\ ~(i <= i - 1)
  BY <1>1
<1>3. f[i - 1] \in Q[i - 1]
  BY <1>1, <1>2
<1> QED
  BY <1>1, <1>2, <1>3

\* Each step F[i] leads from Q[i - 1] into Q[i]; k is what they work out from b.
Leads(F, a, n, b, Q) ==
    b \in Q[a] /\ \A i \in (a + 1)..n : \A q \in Q[i - 1] : F[i][q] \in Q[i]
WorkedOut(k, F, a, n, b, Q) ==
    /\ k[a] = b
    /\ \A i \in (a + 1)..n : k[i] = F[i][k[i - 1]]
    /\ \A i \in a..n : k[i] \in Q[i]

LEMMA Iterates ==
    ASSUME NEW a \in Nat, NEW n \in Nat, a <= n, NEW R, NEW Q, NEW b, NEW F,
           \A i \in a..n : Q[i] \subseteq R, Leads(F, a, n, b, Q)
    PROVE  \E k \in [a..n -> R] : WorkedOut(k, F, a, n, b, Q)
<1> DEFINE Fcn(m, f) == f = [i \in a..m |-> IF i = a THEN b ELSE F[i][f[i - 1]]]
           T == {m \in a..n : ~\E f : Fcn(m, f)}
<1>1. ASSUME T # {} PROVE FALSE
  <2>1. PICK m \in T : \A j \in T : m <= j
    <3>1. T \in SUBSET Nat
      OBVIOUS
    <3> HIDE DEF T
    <3> QED
      BY <1>1, <3>1, NatLeast
  <2>2. m \in a..n
    OBVIOUS
  <2>3. m # a
    <3>1. Fcn(a, [i \in a..a |-> b])
      OBVIOUS
    <3> QED
      BY <2>1, <3>1
  <2>4. PICK f : Fcn(m - 1, f)
    <3>1. m - 1 \in a..n /\ ~(m <= m - 1)
      BY <2>2, <2>3
    <3>2. m - 1 \notin T
      BY <2>1, <3>1
    <3> QED
      BY <3>1, <3>2
  <2> DEFINE g == [i \in a..m |-> IF i = m THEN F[m][f[m - 1]] ELSE f[i]]
  <2>5. \A i \in a..m : g[i] = IF i = a THEN b ELSE F[i][g[i - 1]]
    <3> TAKE i \in a..m
    <3>1. CASE i = m
      <4>1. g[m - 1] = f[m - 1]
        BY <2>2, <2>3
      <4> QED
        BY <2>2, <2>3, <3>1, <4>1
    <3>2. CASE i # m /\ i # a
      <4>1. g[i] = f[i] /\ g[i - 1] = f[i - 1] /\ i \in a..(m - 1)
        BY <2>2, <3>2
      <4>2. f[i] = F[i][f[i - 1]]
        BY <2>4, <3>2, <4>1
      <4> QED
        BY <3>2, <4>1, <4>2
    <3>3. CASE i = a
      BY <2>2, <2>3, <2>4, <3>3
    <3> QED
      BY <3>1, <3>2, <3>3
  <2>6. Fcn(m, g)
    BY <2>5
  <2> QED
    BY <2>1, <2>6
<1>2. PICK k : Fcn(n, k)
  <2>1. n \in a..n /\ n \notin T
    BY <1>1
  <2> QED
    BY <2>1
<1>3. k[a] \in Q[a] /\ \A i \in (a + 1)..n : k[i - 1] \in Q[i - 1] => k[i] \in Q[i]
  BY <1>2 DEF Leads
<1>4. \A i \in a..n : k[i] \in Q[i]
  BY <1>3, StaysIn
<1>5. k = [i \in a..n |-> k[i]] /\ k[a] = b /\ \A i \in (a + 1)..n : k[i] = F[i][k[i - 1]]
  BY <1>2
<1>6. k \in [a..n -> R]
  <2>1. \A i \in a..n : k[i] \in R
    BY <1>4
  <2> QED
    BY <1>5, <2>1
<1> QED
  BY <1>4, <1>5, <1>6 DEF WorkedOut

\* Halves put back, or read ahead, one after another.
LEMMA PutBackStays ==
    ASSUME NEW ns, Len(ns) \in Nat, NEW half, NEW S, AsItIs \in S,
           \A i \in 1..Len(ns) : \A k \in S : Restored(k, ns[i], half) \in S
    PROVE  PutBack(ns, half) \in S
<1> DEFINE n == Len(ns)
           B == AsItIs
           G(q, i) == Restored(q, ns[i], half)
           Fcn(f) == f = [i \in 0..n |-> IF i = 0 THEN B ELSE G(f[i - 1], i)]
           Q == [i \in 0..n |-> S]
           F == [i \in 1..n |-> [q \in S |-> G(q, i)]]
<1>1. PutBack(ns, half) = (CHOOSE f : Fcn(f))[n]
  BY DEF PutBack
<1>2. B \in S /\ (\A i \in 1..n : \A q \in S : G(q, i) \in S) /\ n \in Nat
  OBVIOUS
<1> HIDE DEF B, G, n
<1>3. /\ \A i \in 0..n : Q[i] = S
      /\ \A i \in 1..n : \A q \in S : F[i][q] = G(q, i)
  OBVIOUS
<1> HIDE DEF Q, F
<1>4. PICK k \in [0..n -> S] : WorkedOut(k, F, 0, n, B, Q)
  <2>1. Leads(F, 0, n, B, Q)
    BY <1>2, <1>3 DEF Leads
  <2>2. n \in Nat /\ 0 \in Nat /\ 0 <= n
    BY <1>2
  <2> QED
    BY <1>3, <2>1, <2>2, Iterates
<1>5. \A i \in 0..n : k[i] = IF i = 0 THEN B ELSE G(k[i - 1], i)
  <2> TAKE i \in 0..n
  <2>1. CASE i # 0
    <3>1. i \in 1..n /\ i \in (0 + 1)..n /\ i - 1 \in 0..n
      BY <1>2, <2>1
    <3>2. k[i] = F[i][k[i - 1]] /\ k[i - 1] \in S
      BY <1>3, <1>4, <3>1 DEF WorkedOut
    <3> QED
      BY <1>3, <2>1, <3>1, <3>2
  <2>2. CASE i = 0
    BY <1>4, <2>2 DEF WorkedOut
  <2> QED
    BY <2>1, <2>2
<1>6. Fcn(k)
  BY <1>4, <1>5
<1>7. PICK f : f = CHOOSE g : Fcn(g)
  OBVIOUS
<1>8. Fcn(f)
  BY <1>6, <1>7
<1>9. f[0] \in Q[0] /\ \A i \in (0 + 1)..n : f[i - 1] \in Q[i - 1] => f[i] \in Q[i]
  BY <1>2, <1>3, <1>8
<1>10. f[n] \in Q[n]
  <2>1. n \in Nat /\ 0 \in Nat /\ n \in 0..n
    BY <1>2
  <2>2. \A i \in 0..n : f[i] \in Q[i]
    BY <2>1, <1>9, StaysIn
  <2> QED
    BY <2>1, <2>2
<1> QED
  BY <1>1, <1>2, <1>3, <1>7, <1>10

LEMMA ReadAllEarlyStays ==
    ASSUME NEW ns, Len(ns) \in Nat, NEW half, NEW S, AsItIs \in S,
           \A i \in 1..Len(ns) : \A k \in S : ReadEarly(k, ns[i], half) \in S
    PROVE  ReadAllEarly(ns, half) \in S
<1> DEFINE n == Len(ns)
           B == AsItIs
           G(q, i) == ReadEarly(q, ns[i], half)
           Fcn(f) == f = [i \in 0..n |-> IF i = 0 THEN B ELSE G(f[i - 1], i)]
           Q == [i \in 0..n |-> S]
           F == [i \in 1..n |-> [q \in S |-> G(q, i)]]
<1>1. ReadAllEarly(ns, half) = (CHOOSE f : Fcn(f))[n]
  BY DEF ReadAllEarly
<1>2. B \in S /\ (\A i \in 1..n : \A q \in S : G(q, i) \in S) /\ n \in Nat
  OBVIOUS
<1> HIDE DEF B, G, n
<1>3. /\ \A i \in 0..n : Q[i] = S
      /\ \A i \in 1..n : \A q \in S : F[i][q] = G(q, i)
  OBVIOUS
<1> HIDE DEF Q, F
<1>4. PICK k \in [0..n -> S] : WorkedOut(k, F, 0, n, B, Q)
  <2>1. Leads(F, 0, n, B, Q)
    BY <1>2, <1>3 DEF Leads
  <2>2. n \in Nat /\ 0 \in Nat /\ 0 <= n
    BY <1>2
  <2> QED
    BY <1>3, <2>1, <2>2, Iterates
<1>5. \A i \in 0..n : k[i] = IF i = 0 THEN B ELSE G(k[i - 1], i)
  <2> TAKE i \in 0..n
  <2>1. CASE i # 0
    <3>1. i \in 1..n /\ i \in (0 + 1)..n /\ i - 1 \in 0..n
      BY <1>2, <2>1
    <3>2. k[i] = F[i][k[i - 1]] /\ k[i - 1] \in S
      BY <1>3, <1>4, <3>1 DEF WorkedOut
    <3> QED
      BY <1>3, <2>1, <3>1, <3>2
  <2>2. CASE i = 0
    BY <1>4, <2>2 DEF WorkedOut
  <2> QED
    BY <2>1, <2>2
<1>6. Fcn(k)
  BY <1>4, <1>5
<1>7. PICK f : f = CHOOSE g : Fcn(g)
  OBVIOUS
<1>8. Fcn(f)
  BY <1>6, <1>7
<1>9. f[0] \in Q[0] /\ \A i \in (0 + 1)..n : f[i - 1] \in Q[i - 1] => f[i] \in Q[i]
  BY <1>2, <1>3, <1>8
<1>10. f[n] \in Q[n]
  <2>1. n \in Nat /\ 0 \in Nat /\ n \in 0..n
    BY <1>2
  <2>2. \A i \in 0..n : f[i] \in Q[i]
    BY <2>1, <1>9, StaysIn
  <2> QED
    BY <2>1, <2>2
<1> QED
  BY <1>1, <1>2, <1>3, <1>7, <1>10

\* Sequences joined from left to right lead from Q[1] to Q[Len(s)].
LEMMA FlattenLeads ==
    ASSUME NEW s, Len(s) \in Nat \ {0}, NEW R, NEW Q, s[1] \in Q[1],
           \A i \in 1..Len(s) : Q[i] \subseteq R,
           \A i \in 2..Len(s) : \A q \in Q[i - 1] : q \o s[i] \in Q[i]
    PROVE  FlattenSeq(s) \in Q[Len(s)]
<1> DEFINE n == Len(s)
           Fcn(f) == f = [i \in 1..n |-> IF i = 1 THEN s[i] ELSE f[i - 1] \o s[i]]
           F == [i \in 1..n |-> [q \in R |-> q \o s[i]]]
<1>1. n \in Nat /\ 1 <= n
  OBVIOUS
<1>2. FlattenSeq(s) = (CHOOSE f : Fcn(f))[n]
  BY <1>1 DEF FlattenSeq
<1> HIDE DEF n
<1>3. /\ s[1] \in Q[1] /\ \A i \in 1..n : Q[i] \subseteq R
      /\ \A i \in 2..n : \A q \in Q[i - 1] : q \o s[i] \in Q[i]
      /\ \A i \in 1..n : \A q \in R : F[i][q] = q \o s[i]
  BY DEF n
<1> HIDE DEF F
<1>4. PICK k \in [1..n -> R] : WorkedOut(k, F, 1, n, s[1], Q)
  <2>1. Leads(F, 1, n, s[1], Q)
    <3>1. ASSUME NEW i \in (1 + 1)..n, NEW q \in Q[i - 1] PROVE F[i][q] \in Q[i]
      <4>1. i \in 2..n /\ i \in 1..n /\ i - 1 \in 1..n
        BY <1>1
      <4>2. q \in R
        BY <1>3, <4>1
      <4> QED
        BY <1>3, <4>1, <4>2
    <3> QED
      BY <1>3, <3>1 DEF Leads
  <2>2. n \in Nat /\ 1 \in Nat /\ 1 <= n
    BY <1>1
  <2> QED
    BY <1>3, <2>1, <2>2, Iterates
<1>5. \A i \in 1..n : k[i] = IF i = 1 THEN s[i] ELSE k[i - 1] \o s[i]
  <2> TAKE i \in 1..n
  <2>1. CASE i # 1
    <3>1. i \in (1 + 1)..n /\ i - 1 \in 1..n
      BY <1>1, <2>1
    <3>2. k[i] = F[i][k[i - 1]] /\ k[i - 1] \in R
      BY <1>4, <3>1 DEF WorkedOut
    <3> QED
      BY <1>3, <2>1, <3>1, <3>2
  <2>2. CASE i = 1
    BY <1>4, <2>2 DEF WorkedOut
  <2> QED
    BY <2>1, <2>2
<1>6. Fcn(k)
  BY <1>4, <1>5
<1>7. PICK f : f = CHOOSE g : Fcn(g)
  OBVIOUS
<1>8. Fcn(f)
  BY <1>6, <1>7
<1>9. \A i \in 1..n : f[i] = IF i = 1 THEN s[i] ELSE f[i - 1] \o s[i]
  BY <1>8
<1>10. \A i \in (1 + 1)..n : f[i - 1] \in Q[i - 1] => f[i] \in Q[i]
  <2> TAKE i \in (1 + 1)..n
  <2>1. i \in 2..n /\ i \in 1..n /\ i # 1
    BY <1>1
  <2> QED
    BY <1>3, <1>9, <2>1
<1>11. f[n] \in Q[n]
  <2>1. n \in Nat /\ 1 \in Nat /\ n \in 1..n /\ 1 \in 1..n
    BY <1>1
  <2>2. f[1] \in Q[1]
    BY <1>3, <1>9, <2>1
  <2>3. \A i \in 1..n : f[i] \in Q[i]
    BY <1>10, <2>1, <2>2, StaysIn
  <2> QED
    BY <2>1, <2>3
<1> QED
  BY <1>2, <1>7, <1>11 DEF n

\* The steps of sequences put one after the other.
LEMMA FlattenIsOneOfAll ==
    ASSUME NEW X, NEW s \in Seq(Seq(X)), s # <<>>, \A i \in 1..Len(s) : s[i] # <<>>
    PROVE  /\ FlattenSeq(s) \in Seq(X) /\ FlattenSeq(s) # <<>>
           /\ Range(FlattenSeq(s)) = StepsIn(s)
<1> DEFINE n == Len(s)
           S == Seq(X) \ {<<>>}
           Upto(i) == UNION {Range(s[j]) : j \in 1..i}
           Q == [i \in 1..n |-> {q \in S : Range(q) = Upto(i)}]
<1>1. n \in Nat \ {0} /\ \A i \in 1..n : s[i] \in S
  BY EmptySeq, LenProperties
<1> HIDE DEF S
<1>2. \A i \in 1..n : \A q : q \in Q[i] <=> q \in S /\ Range(q) = Upto(i)
  OBVIOUS
<1> HIDE DEF Q, Upto
<1>3. s[1] \in Q[1]
  <2>1. Upto(1) = Range(s[1])
    BY DEF Upto
  <2>2. 1 \in 1..n
    BY <1>1
  <2> QED
    BY <1>1, <1>2, <2>1, <2>2
<1>4. ASSUME NEW i \in 2..n, NEW q \in Q[i - 1] PROVE q \o s[i] \in Q[i]
  <2>1. i \in 1..n /\ i - 1 \in 1..n
    BY <1>1
  <2>2. q \in S /\ Range(q) = Upto(i - 1) /\ s[i] \in S
    BY <1>1, <1>2, <2>1
  <2>3. q \o s[i] \in S
    BY <2>2, ConcatProperties, ConcatEqualIffEmpty DEF S
  <2>4. Range(q \o s[i]) = Range(q) \cup Range(s[i])
    BY <2>2, RangeConcatenation DEF S
  <2>5. Upto(i) = Upto(i - 1) \cup Range(s[i])
    <3>1. 1..i = 1..(i - 1) \cup {i}
      BY <2>1
    <3> QED
      BY <3>1 DEF Upto
  <2> QED
    BY <1>2, <2>1, <2>2, <2>3, <2>4, <2>5
<1>5. FlattenSeq(s) \in Q[n]
  <2>1. \A i \in 1..n : Q[i] \subseteq S
    BY <1>2
  <2> QED
    BY <1>1, <1>3, <1>4, <2>1, FlattenLeads
<1>6. Upto(n) = StepsIn(s)
  <2>1. DOMAIN s = 1..n
    BY LenProperties
  <2> QED
    BY <2>1 DEF StepsIn, Upto
<1>7. FlattenSeq(s) \in S /\ Range(FlattenSeq(s)) = StepsIn(s)
  <2>1. n \in 1..n
    BY <1>1
  <2> QED
    BY <1>2, <1>5, <1>6, <2>1
<1> QED
  BY <1>7 DEF S

-----------------------------------------------------------------------------
(* The invariant.                                                           *)

SnapsFit(st) == st \in [DOMAIN st -> [Half -> Snapshots]]
RestSteps(sp) == {f[1] : f \in Range(sp.rest)}

\* The steps' snapshots are those of the stacks and of the entry being parked.
StepsHold ==
    /\ SnapsFit(steps)
    /\ DOMAIN steps = StepsIn(undo) \cup StepsIn(redo) \cup RestSteps(spill)

\* The pass sp over the snapshots st: it waits for a half with tiles in memory.
PassFits(sp, st) ==
    /\ DOMAIN sp = DOMAIN Idle
    /\ sp.rest \in Seq(StepNo \X Half) /\ RestSteps(sp) \subseteq DOMAIN st
    /\ \/ sp = Idle
       \/ /\ sp.stack \in {"undo", "redo"} /\ sp.index \in Nat \ {0} /\ sp.rest # <<>>
          /\ Slow(st[sp.rest[1][1]][sp.rest[1][2]])

\* No step is in two entries of the stacks u and r.
Apart(u, r) ==
    /\ \A i, j \in DOMAIN u : i # j => Range(u[i]) \cap Range(u[j]) = {}
    /\ \A i, j \in DOMAIN r : i # j => Range(r[i]) \cap Range(r[j]) = {}
    /\ \A i \in DOMAIN u, j \in DOMAIN r : Range(u[i]) \cap Range(r[j]) = {}

\* The room has files of parked halves of the stacks alone, and of each one
\* where none gets lost.
Parked(u, r, st) == {f \in FilesOf(u) \cup FilesOf(r) : st[f[1]][f[2]].at = "room"}
Exact(u, r, st, fs) ==
    /\ fs \subseteq Parked(u, r, st)
    /\ ~FilesGetLost => Parked(u, r, st) \subseteq fs

\* The stacks u and r of m steps made: what redo can bring back has room.
StacksFit(u, r, m) ==
    /\ u \in Seq(Seq(1..m)) /\ r \in Seq(Seq(1..m))
    /\ \A i \in DOMAIN u : u[i] # <<>>
    /\ Apart(u, r)
    /\ Len(u) + Cardinality(Range(r) \ {<<>>}) <= MaxEntries

\* The hold w over the undo stack u: nothing above the depth it began at is
\* another's while it has pushed nothing else.
WholeOf(w) == w.on /\ w.pushed = Cardinality(w.own)
RunsOf(m) ==
    [on : BOOLEAN, pushed : Nat, retracted : Nat, depth : 0..MaxEntries, own : SUBSET (1..m)]
RunFits(w, u, m) ==
    /\ w \in RunsOf(m)
    /\ w.retracted <= w.pushed
    /\ Cardinality(w.own) <= w.pushed
    /\ w.on => Len(u) <= w.depth + w.pushed - w.retracted
    /\ WholeOf(w) => \A i \in DOMAIN u : i > w.depth => Range(u[i]) \subseteq w.own

RestHolds ==
    /\ cel \in Pic /\ made \in 0..MaxEdits /\ warned \in BOOLEAN /\ open \in BOOLEAN
    /\ stood \in {"no", "refused", "stuck"}

IInv ==
    /\ RestHolds /\ StacksFit(undo, redo, made) /\ StepsHold
    /\ PassFits(spill, steps) /\ RunFits(run, undo, made)
    /\ Exact(undo, redo, steps, files) /\ DOMAIN steps \subseteq 1..made

\* What a step may not do to the hold.
KeepsToItsOwn ==
    /\ run'.retracted > run.retracted => Range(Last(undo)) \subseteq run.own
    /\ FoldedInto(undo, undo') => Range(Last(undo')) \subseteq run.own

-----------------------------------------------------------------------------
(* Stacks, and what is left of them.                                        *)

\* A stack v is s less d entries of the deep end.
Later(v, s, d) ==
    /\ d \in 0..Len(s) /\ Len(v) = Len(s) - d
    /\ \A i \in 1..(Len(s) - d) : v[i] = s[i + d]

LEMMA StepOf ==
    ASSUME NEW s, NEW n
    PROVE  n \in StepsIn(s) <=> \E i \in DOMAIN s : n \in Range(s[i])
BY DEF StepsIn

LEMMA DropDeep ==
    ASSUME NEW X, NEW s \in Seq(X), NEW d \in 0..Len(s)
    PROVE  SubSeq(s, d + 1, Len(s)) \in Seq(X) /\ Later(SubSeq(s, d + 1, Len(s)), s, d)
BY SubSeqProperties DEF Later

LEMMA FrontOf ==
    ASSUME NEW X, NEW s \in Seq(X), s # <<>>
    PROVE  /\ Front(s) \in Seq(X) /\ Len(Front(s)) = Len(s) - 1
           /\ \A i \in 1..(Len(s) - 1) : Front(s)[i] = s[i]
           /\ Last(s) = s[Len(s)] /\ Last(s) \in X /\ Len(s) \in Nat \ {0}
<1>1. Len(s) \in Nat \ {0} /\ \A i \in 1..Len(s) : s[i] \in X
  BY EmptySeq, LenProperties
<1>2. Front(s) \in Seq(X)
  BY <1>1, SubSeqProperties DEF Front
<1>3. Len(Front(s)) = Len(s) - 1
  <2>1. \A n \in Nat \ {0} : (IF 1 <= n - 1 THEN n - 1 - 1 + 1 ELSE 0) = n - 1
    OBVIOUS
  <2>2. Len(SubSeq(s, 1, Len(s) - 1)) = IF 1 <= Len(s) - 1 THEN Len(s) - 1 - 1 + 1 ELSE 0
    <3>1. \A i \in 1..(Len(s) - 1) : s[i] \in X
      BY <1>1
    <3> QED
      BY <1>1, <3>1, SubSeqProperties
  <2> QED
    BY <1>1, <2>1, <2>2, Zenon DEF Front
<1>4. \A i \in 1..(Len(s) - 1) : Front(s)[i] = s[i]
  BY <1>1, SubSeqProperties DEF Front
<1> QED
  BY <1>1, <1>2, <1>3, <1>4 DEF Last

\* The steps of a stack are those dropped and those left.
LEMMA StepsSplit ==
    ASSUME NEW X, NEW s \in Seq(X), NEW d \in 0..Len(s), NEW v, Later(v, s, d),
           v \in Seq(X)
    PROVE  /\ StepsIn(s) = StepsIn(SubSeq(s, 1, d)) \cup StepsIn(v)
           /\ \A n \in StepsIn(SubSeq(s, 1, d)) : \E i \in 1..d : n \in Range(s[i])
           /\ \A n \in StepsIn(v) : \E i \in (d + 1)..Len(s) : n \in Range(s[i])
<1> DEFINE deep == SubSeq(s, 1, d)
<1>1. /\ deep \in Seq(X) /\ Len(deep) = d /\ \A i \in 1..d : deep[i] = s[i]
      /\ DOMAIN deep = 1..d
  <2>1. \A i \in 1..d : s[i] \in X
    OBVIOUS
  <2> QED
    BY <2>1, SubSeqProperties
<1>2. DOMAIN s = 1..Len(s) /\ DOMAIN v = 1..(Len(s) - d) /\ Len(s) \in Nat
  BY LenProperties DEF Later
<1> HIDE DEF deep
<1>3. ASSUME NEW n \in StepsIn(deep) PROVE \E i \in 1..d : n \in Range(s[i])
  BY <1>1, <1>3, StepOf
<1>4. ASSUME NEW n \in StepsIn(v) PROVE \E i \in (d + 1)..Len(s) : n \in Range(s[i])
  <2>1. PICK i \in 1..(Len(s) - d) : n \in Range(v[i])
    BY <1>2, <1>4, StepOf
  <2>2. v[i] = s[i + d] /\ i + d \in (d + 1)..Len(s)
    BY <1>2, <2>1 DEF Later
  <2> QED
    BY <2>1, <2>2
<1>5. ASSUME NEW n \in StepsIn(s) PROVE n \in StepsIn(deep) \cup StepsIn(v)
  <2>1. PICK i \in 1..Len(s) : n \in Range(s[i])
    BY <1>2, <1>5, StepOf
  <2>2. CASE i <= d
    <3>1. i \in DOMAIN deep /\ deep[i] = s[i]
      BY <1>1, <1>2, <2>1, <2>2
    <3> QED
      BY <2>1, <3>1, StepOf
  <2>3. CASE i > d
    <3>1. i - d \in DOMAIN v /\ v[i - d] = s[i]
      BY <1>2, <2>1, <2>3 DEF Later
    <3> QED
      BY <2>1, <3>1, StepOf
  <2> QED
    BY <1>2, <2>1, <2>2, <2>3
<1>6. StepsIn(deep) \subseteq StepsIn(s)
  <2>1. \A i \in 1..d : i \in DOMAIN s
    BY <1>2
  <2> QED
    BY <1>3, <2>1, StepOf
<1>7. StepsIn(v) \subseteq StepsIn(s)
  <2>1. \A i \in (d + 1)..Len(s) : i \in DOMAIN s
    BY <1>2
  <2> QED
    BY <1>4, <2>1, StepOf
<1> QED
  BY <1>3, <1>4, <1>5, <1>6, <1>7 DEF deep

LEMMA StepsOfFront ==
    ASSUME NEW X, NEW s \in Seq(X), s # <<>>
    PROVE  StepsIn(s) = StepsIn(Front(s)) \cup Range(Last(s))
<1>1. /\ DOMAIN s = 1..Len(s) /\ Len(s) \in Nat \ {0} /\ DOMAIN Front(s) = 1..(Len(s) - 1)
      /\ \A i \in 1..(Len(s) - 1) : Front(s)[i] = s[i]
      /\ Last(s) = s[Len(s)]
  BY FrontOf, LenProperties
<1>0. Len(s) \in Nat \ {0}
  BY <1>1
<1>2. \A i \in 1..Len(s) : i \in 1..(Len(s) - 1) \/ i = Len(s)
  BY <1>0
<1>3. \A i \in 1..(Len(s) - 1) : i \in 1..Len(s)
  BY <1>0
<1>4. Len(s) \in 1..Len(s)
  BY <1>0
<1>5. ASSUME NEW n \in StepsIn(s) PROVE n \in StepsIn(Front(s)) \cup Range(Last(s))
  BY <1>1, <1>2, <1>5, StepOf
<1>6. ASSUME NEW n \in StepsIn(Front(s)) PROVE n \in StepsIn(s)
  BY <1>1, <1>3, <1>6, StepOf
<1>7. ASSUME NEW n \in Range(Last(s)) PROVE n \in StepsIn(s)
  BY <1>1, <1>4, <1>7, StepOf
<1> QED
  BY <1>5, <1>6, <1>7

LEMMA StepsOfAppend ==
    ASSUME NEW X, NEW s \in Seq(X), NEW e \in X
    PROVE  StepsIn(Append(s, e)) = StepsIn(s) \cup Range(e)
<1>1. /\ DOMAIN s = 1..Len(s) /\ Len(s) \in Nat /\ DOMAIN Append(s, e) = 1..(Len(s) + 1)
      /\ \A i \in 1..Len(s) : Append(s, e)[i] = s[i]
      /\ Append(s, e)[Len(s) + 1] = e
  BY AppendProperties, LenProperties
<1>2. /\ \A i \in 1..(Len(s) + 1) : i \in 1..Len(s) \/ i = Len(s) + 1
      /\ \A i \in 1..Len(s) : i \in 1..(Len(s) + 1)
      /\ Len(s) + 1 \in 1..(Len(s) + 1)
  BY <1>1
<1>3. ASSUME NEW n \in StepsIn(Append(s, e)) PROVE n \in StepsIn(s) \cup Range(e)
  BY <1>1, <1>2, <1>3, StepOf
<1>4. ASSUME NEW n \in StepsIn(s) PROVE n \in StepsIn(Append(s, e))
  BY <1>1, <1>2, <1>4, StepOf
<1>5. ASSUME NEW n \in Range(e) PROVE n \in StepsIn(Append(s, e))
  BY <1>1, <1>2, <1>5, StepOf
<1> QED
  BY <1>3, <1>4, <1>5

-----------------------------------------------------------------------------
(* Snapshots changed by the pass and the shed.                              *)

\* Between the snapshots st and ot none is parked or read back, and one with
\* tiles of its own in memory stays so.
Kin(st, ot) ==
    /\ SnapsFit(ot) /\ DOMAIN ot = DOMAIN st
    /\ \A n \in DOMAIN st, h \in Half :
         /\ ot[n][h].at = "room" <=> st[n][h].at = "room"
         /\ Slow(st[n][h]) => Slow(ot[n][h])

\* What an operation gives to the trim.
Given(u, r, st, fs) ==
    /\ u \in Seq(Seq(StepNo)) /\ r \in Seq(Seq(StepNo)) /\ Apart(u, r)
    /\ SnapsFit(st) /\ StepsIn(u) \cup StepsIn(r) \subseteq DOMAIN st
    /\ Exact(u, r, st, fs)

\* What the trim leaves of the stacks u and r, whose steps are among D: of
\* undo always its top.
Left(u, r, D) ==
    /\ \E d \in 0..Len(u) : /\ Later(undo', u, d) /\ undo' \in Seq(Seq(StepNo))
                            /\ u # <<>> => d < Len(u)
    /\ \E d \in 0..Len(r) : Later(redo', r, d) /\ redo' \in Seq(Seq(StepNo))
    /\ StepsHold' /\ PassFits(spill, steps)' /\ Exact(undo, redo, steps, files)'
    /\ DOMAIN steps' \subseteq D

LEMMA KinHolds ==
    ASSUME NEW st, NEW ot, Kin(st, ot), NEW sp, PassFits(sp, st)
    PROVE  PassFits(sp, ot)
<1>1. RestSteps(sp) \subseteq DOMAIN ot
  BY DEF Kin, PassFits
<1>2. CASE sp = Idle
  BY <1>1, <1>2 DEF PassFits
<1>3. CASE sp # Idle
  <2>1. sp.rest \in Seq(StepNo \X Half) /\ sp.rest # <<>>
    BY <1>3 DEF PassFits
  <2>2. 1 \in DOMAIN sp.rest /\ sp.rest[1] \in StepNo \X Half
    BY <2>1, EmptySeq, LenProperties
  <2>3. sp.rest[1][1] \in DOMAIN st /\ sp.rest[1][2] \in Half
    BY <2>2 DEF PassFits, RestSteps, Range
  <2> QED
    BY <1>1, <1>3, <2>3 DEF Kin, PassFits
<1> QED
  BY <1>2, <1>3

LEMMA KinGiven ==
    ASSUME NEW st, NEW ot, Kin(st, ot), NEW u, NEW r, NEW fs, Given(u, r, st, fs)
    PROVE  Given(u, r, ot, fs)
<1>1. \A f \in FilesOf(u) \cup FilesOf(r) : f[1] \in DOMAIN st /\ f[2] \in Half
  BY DEF Given, FilesOf
<1>2. Exact(u, r, ot, fs)
  BY <1>1 DEF Kin, Given, Exact, Parked
<1> QED
  BY <1>2 DEF Kin, Given

LEMMA KinIsTransitive ==
    ASSUME NEW st, NEW ot, NEW pt, Kin(st, ot), Kin(ot, pt)
    PROVE  Kin(st, pt)
BY DEF Kin

LEMMA KinOfSelf ==
    ASSUME NEW st, SnapsFit(st)
    PROVE  Kin(st, st)
BY DEF Kin

LEMMA ParkBareKin ==
    ASSUME NEW st, SnapsFit(st), NEW hs
    PROVE  Kin(st, ParkBare(st, hs))
<1>1. ASSUME NEW n \in DOMAIN st, NEW h \in Half
      PROVE  LET s == st[n][h]
                 t == [s EXCEPT !.at = IF @ = "held" THEN "bare" ELSE @, !.ahead = {}]
             IN t \in Snapshots /\ (t.at = "room" <=> s.at = "room")
  <2>1. PICK s \in Snapshots : s = st[n][h]
    BY DEF SnapsFit
  <2> QED
    BY <2>1 DEF Snapshots
<1> QED
  BY <1>1 DEF Kin, SnapsFit, ParkBare

LEMMA NoneAheadKin ==
    ASSUME NEW st, SnapsFit(st)
    PROVE  Kin(st, NoneAhead(st))
<1>1. ASSUME NEW n \in DOMAIN st, NEW h \in Half
      PROVE  LET s == st[n][h]
                 t == [s EXCEPT !.ahead = {}]
             IN t \in Snapshots /\ t.at = s.at /\ t.own = s.own
  <2>1. PICK s \in Snapshots : s = st[n][h]
    BY DEF SnapsFit
  <2> QED
    BY <2>1 DEF Snapshots
<1> QED
  BY <1>1 DEF Kin, SnapsFit, NoneAhead, Slow

\* The stacks as an operation leaves them.
LEMMA LeaveHolds ==
    ASSUME NEW u, NEW r, NEW st, NEW fs, Given(u, r, st, fs), PassFits(spill', st),
           Leave(u, r, st, fs)
    PROVE  /\ undo' = u /\ redo' = r /\ DOMAIN steps' \subseteq DOMAIN st
           /\ StepsHold' /\ PassFits(spill, steps)' /\ Exact(undo, redo, steps, files)'
<1> DEFINE N == StepsIn(u) \cup StepsIn(r) \cup RestSteps(spill')
<1>1. undo' = u /\ redo' = r /\ files' = fs /\ steps' = [n \in N |-> st[n]]
  BY DEF Leave, RestSteps
<1>2. N \subseteq DOMAIN st
  BY DEF Given, PassFits
<1>3. StepsHold'
  BY <1>1, <1>2 DEF StepsHold, SnapsFit, Given
<1>4. \A n \in N : steps'[n] = st[n]
  BY <1>1
<1>5. Exact(undo, redo, steps, files)'
  <2>1. \A f \in FilesOf(u) \cup FilesOf(r) : steps'[f[1]] = st[f[1]]
    BY <1>4 DEF FilesOf
  <2> QED
    BY <1>1, <2>1 DEF Given, Exact, Parked
<1>6. PassFits(spill, steps)'
  <2>1. RestSteps(spill') \subseteq DOMAIN steps'
    BY <1>1
  <2>2. CASE spill' = Idle
    BY <2>1, <2>2 DEF PassFits
  <2>3. CASE spill' # Idle
    <3>1. spill'.rest \in Seq(StepNo \X Half) /\ spill'.rest # <<>>
      BY <2>3 DEF PassFits
    <3>2. 1 \in DOMAIN spill'.rest
      BY <3>1, EmptySeq, LenProperties
    <3>3. spill'.rest[1][1] \in N
      BY <3>2 DEF RestSteps, Range
    <3> QED
      BY <1>4, <2>1, <2>3, <3>3 DEF PassFits
  <2> QED
    BY <2>2, <2>3
<1> QED
  BY <1>1, <1>2, <1>3, <1>5, <1>6

LEMMA LeaveLeft ==
    ASSUME NEW u, NEW r, NEW st, NEW fs, Given(u, r, st, fs), PassFits(spill', st),
           Leave(u, r, st, fs)
    PROVE  Left(u, r, DOMAIN st)
<1>1. /\ undo' = u /\ redo' = r /\ DOMAIN steps' \subseteq DOMAIN st
      /\ StepsHold' /\ PassFits(spill, steps)' /\ Exact(undo, redo, steps, files)'
  BY LeaveHolds
<1>2. u \in Seq(Seq(StepNo)) /\ r \in Seq(Seq(StepNo))
  BY DEF Given
<1>3. Len(u) \in Nat /\ Len(r) \in Nat /\ (u # <<>> => 0 < Len(u))
  BY <1>2, EmptySeq
<1>4. Later(u, u, 0) /\ Later(r, r, 0)
  BY <1>3 DEF Later
<1> QED
  BY <1>1, <1>2, <1>3, <1>4 DEF Left

-----------------------------------------------------------------------------
(* The shed.                                                                *)

LEMMA ShedCountFits ==
    ASSUME NEW stack, NEW half, NEW st, NEW excess, NEW keep \in Nat,
           Len(stack) \in Nat, keep <= Len(stack)
    PROVE  ShedCount(stack, half, st, excess, keep) \in 0..(Len(stack) - keep)
<1> DEFINE upTo(n) == StackWeight(SubSeq(stack, 1, n), half, st)
           enough  == {n \in 0..(Len(stack) - keep) : upTo(n) >= excess}
           walked  == IF enough # {} THEN Min(enough) ELSE Len(stack) - keep
           paying  == {n \in 1..walked : StackWeight(<<stack[n]>>, half, st) > 0}
<1>1. ShedCount(stack, half, st, excess, keep) = IF paying = {} THEN 0 ELSE Max(paying)
  BY DEF ShedCount
<1>2. walked \in 0..(Len(stack) - keep)
  <2>1. enough \in SUBSET Nat /\ enough \subseteq 0..(Len(stack) - keep)
    OBVIOUS
  <2>2. Len(stack) - keep \in 0..(Len(stack) - keep)
    OBVIOUS
  <2> HIDE DEF enough
  <2> QED
    BY <2>1, <2>2, MinIsLeast
<1>3. paying \subseteq 1..walked
  OBVIOUS
<1> HIDE DEF paying, walked
<1>4. CASE paying # {}
  <2>1. walked \in Nat /\ paying \in SUBSET (0..walked)
    BY <1>2, <1>3
  <2>2. Max(paying) \in paying
    BY <1>4, <2>1, MaxIsGreatest
  <2>3. \A m \in 1..walked : m \in 0..(Len(stack) - keep)
    BY <1>2
  <2>4. Max(paying) \in 0..(Len(stack) - keep)
    BY <1>3, <2>2, <2>3
  <2> QED
    BY <1>1, <1>4, <2>4
<1>5. CASE paying = {}
  BY <1>1, <1>5
<1> QED
  BY <1>4, <1>5

\* The steps dropped from the deep end of one stack are on neither afterwards.
LEMMA LaterApart ==
    ASSUME NEW u \in Seq(Seq(StepNo)), NEW r \in Seq(Seq(StepNo)), Apart(u, r),
           NEW d \in 0..Len(u), NEW v \in Seq(Seq(StepNo)), Later(v, u, d),
           NEW e \in 0..Len(r), NEW w \in Seq(Seq(StepNo)), Later(w, r, e)
    PROVE  /\ Apart(v, w)
           /\ StepsIn(SubSeq(u, 1, d)) \cap (StepsIn(v) \cup StepsIn(w)) = {}
           /\ StepsIn(SubSeq(r, 1, e)) \cap (StepsIn(v) \cup StepsIn(w)) = {}
<1>1. /\ DOMAIN u = 1..Len(u) /\ DOMAIN r = 1..Len(r) /\ Len(u) \in Nat /\ Len(r) \in Nat
      /\ DOMAIN v = 1..(Len(u) - d) /\ DOMAIN w = 1..(Len(r) - e)
  BY LenProperties DEF Later
<1>2. \A i \in DOMAIN v : i + d \in DOMAIN u /\ v[i] = u[i + d]
  <2>1. Len(u) \in Nat
    BY <1>1
  <2>2. \A i \in 1..(Len(u) - d) : i + d \in 1..Len(u)
    BY <2>1
  <2> QED
    BY <1>1, <2>2 DEF Later
<1>3. \A i \in DOMAIN w : i + e \in DOMAIN r /\ w[i] = r[i + e]
  <2>1. Len(r) \in Nat
    BY <1>1
  <2>2. \A i \in 1..(Len(r) - e) : i + e \in 1..Len(r)
    BY <2>1
  <2> QED
    BY <1>1, <2>2 DEF Later
<1>4. Apart(v, w)
  <2>1. ASSUME NEW i \in DOMAIN v, NEW j \in DOMAIN v, i # j
        PROVE  Range(v[i]) \cap Range(v[j]) = {}
    <3>1. i + d # j + d
      BY <1>1, <2>1
    <3> QED
      BY <1>2, <3>1 DEF Apart
  <2>2. ASSUME NEW i \in DOMAIN w, NEW j \in DOMAIN w, i # j
        PROVE  Range(w[i]) \cap Range(w[j]) = {}
    <3>1. i + e # j + e
      BY <1>1, <2>2
    <3> QED
      BY <1>3, <3>1 DEF Apart
  <2>3. ASSUME NEW i \in DOMAIN v, NEW j \in DOMAIN w
        PROVE  Range(v[i]) \cap Range(w[j]) = {}
    BY <1>2, <1>3 DEF Apart
  <2> QED
    BY <2>1, <2>2, <2>3 DEF Apart
<1>5. /\ \A n \in StepsIn(SubSeq(u, 1, d)) : \E i \in 1..d : n \in Range(u[i])
      /\ \A n \in StepsIn(v) : \E i \in (d + 1)..Len(u) : n \in Range(u[i])
  BY StepsSplit
<1>6. /\ \A n \in StepsIn(SubSeq(r, 1, e)) : \E i \in 1..e : n \in Range(r[i])
      /\ \A n \in StepsIn(w) : \E i \in (e + 1)..Len(r) : n \in Range(r[i])
  BY StepsSplit
<1>7. /\ \A i \in 1..d : i \in DOMAIN u /\ \A j \in (d + 1)..Len(u) : i # j
      /\ \A i \in (d + 1)..Len(u) : i \in DOMAIN u
      /\ \A i \in 1..e : i \in DOMAIN r /\ \A j \in (e + 1)..Len(r) : i # j
      /\ \A i \in (e + 1)..Len(r) : i \in DOMAIN r
  BY <1>1
<1>8. ASSUME NEW n \in StepsIn(SubSeq(u, 1, d)) PROVE n \notin StepsIn(v) \cup StepsIn(w)
  <2>1. PICK i \in 1..d : n \in Range(u[i])
    BY <1>5
  <2>2. n \notin StepsIn(v)
    BY <1>5, <1>7, <2>1 DEF Apart
  <2>3. n \notin StepsIn(w)
    BY <1>6, <1>7, <2>1 DEF Apart
  <2> QED
    BY <2>2, <2>3
<1>9. ASSUME NEW n \in StepsIn(SubSeq(r, 1, e)) PROVE n \notin StepsIn(v) \cup StepsIn(w)
  <2>1. PICK i \in 1..e : n \in Range(r[i])
    BY <1>6
  <2>2. n \notin StepsIn(v)
    BY <1>5, <1>7, <2>1 DEF Apart
  <2>3. n \notin StepsIn(w)
    BY <1>6, <1>7, <2>1 DEF Apart
  <2> QED
    BY <2>2, <2>3
<1> QED
  BY <1>4, <1>8, <1>9

LEMMA LaterGiven ==
    ASSUME NEW u, NEW r, NEW st, NEW fs, Given(u, r, st, fs),
           NEW d \in 0..Len(u), NEW v \in Seq(Seq(StepNo)), Later(v, u, d),
           NEW e \in 0..Len(r), NEW w \in Seq(Seq(StepNo)), Later(w, r, e)
    PROVE  Given(v, w, st, fs \ (FilesOf(SubSeq(u, 1, d)) \cup FilesOf(SubSeq(r, 1, e))))
<1>1. u \in Seq(Seq(StepNo)) /\ r \in Seq(Seq(StepNo)) /\ Apart(u, r)
  BY DEF Given
<1>2. /\ Apart(v, w)
      /\ StepsIn(SubSeq(u, 1, d)) \cap (StepsIn(v) \cup StepsIn(w)) = {}
      /\ StepsIn(SubSeq(r, 1, e)) \cap (StepsIn(v) \cup StepsIn(w)) = {}
  BY <1>1, LaterApart
<1>3. /\ StepsIn(u) = StepsIn(SubSeq(u, 1, d)) \cup StepsIn(v)
      /\ StepsIn(r) = StepsIn(SubSeq(r, 1, e)) \cup StepsIn(w)
  BY <1>1, StepsSplit
<1>4. Exact(v, w, st, fs \ (FilesOf(SubSeq(u, 1, d)) \cup FilesOf(SubSeq(r, 1, e))))
  BY <1>2, <1>3 DEF Given, Exact, Parked, FilesOf
<1> QED
  BY <1>2, <1>3, <1>4 DEF Given

\* What is later than what is later.
LEMMA LeftLater ==
    ASSUME NEW u, NEW r, u \in Seq(Seq(StepNo)), r \in Seq(Seq(StepNo)),
           NEW d \in 0..Len(u), NEW v, Later(v, u, d), u # <<>> => d < Len(u),
           NEW e \in 0..Len(r), NEW w, Later(w, r, e), NEW D, Left(v, w, D)
    PROVE  Left(u, r, D)
<1>1. /\ Len(u) \in Nat /\ Len(r) \in Nat /\ Len(v) = Len(u) - d /\ Len(w) = Len(r) - e
      /\ \A i \in 1..(Len(u) - d) : v[i] = u[i + d]
      /\ \A i \in 1..(Len(r) - e) : w[i] = r[i + e]
  BY DEF Later
<1>2. PICK f \in 0..Len(v) : /\ Later(undo', v, f) /\ undo' \in Seq(Seq(StepNo))
                             /\ v # <<>> => f < Len(v)
  BY DEF Left
<1>3. PICK g \in 0..Len(w) : Later(redo', w, g) /\ redo' \in Seq(Seq(StepNo))
  BY DEF Left
<1>4. /\ Len(undo') = Len(v) - f /\ \A i \in 1..(Len(v) - f) : undo'[i] = v[i + f]
      /\ Len(redo') = Len(w) - g /\ \A i \in 1..(Len(w) - g) : redo'[i] = w[i + g]
  BY <1>2, <1>3 DEF Later
<1>5. Later(undo', u, d + f)
  <2>1. d + f \in 0..Len(u) /\ Len(undo') = Len(u) - (d + f)
    BY <1>1, <1>4
  <2>2. ASSUME NEW i \in 1..(Len(u) - (d + f)) PROVE undo'[i] = u[i + (d + f)]
    <3>1. i \in 1..(Len(v) - f) /\ i + f \in 1..(Len(u) - d) /\ (i + f) + d = i + (d + f)
      BY <1>1
    <3> QED
      BY <1>1, <1>4, <3>1
  <2> QED
    BY <2>1, <2>2 DEF Later
<1>6. Later(redo', r, e + g)
  <2>1. e + g \in 0..Len(r) /\ Len(redo') = Len(r) - (e + g)
    BY <1>1, <1>4
  <2>2. ASSUME NEW i \in 1..(Len(r) - (e + g)) PROVE redo'[i] = r[i + (e + g)]
    <3>1. i \in 1..(Len(w) - g) /\ i + g \in 1..(Len(r) - e) /\ (i + g) + e = i + (e + g)
      BY <1>1
    <3> QED
      BY <1>1, <1>4, <3>1
  <2> QED
    BY <2>1, <2>2 DEF Later
<1>7. u # <<>> => d + f < Len(u)
  <2>1. SUFFICES ASSUME u # <<>> PROVE d + f < Len(u)
    OBVIOUS
  <2>2. Len(v) > 0
    BY <1>1, <2>1
  <2>3. v # <<>>
    BY <2>2, Len(<<>>) = 0
  <2> QED
    BY <1>1, <1>2, <2>3
<1>8. d + f \in 0..Len(u) /\ e + g \in 0..Len(r)
  BY <1>1
<1> QED
  BY <1>2, <1>3, <1>5, <1>6, <1>7, <1>8 DEF Left

\* What the shed leaves: the top of undo stays.
LEMMA ShedEntriesHolds ==
    ASSUME NEW u, NEW r, NEW st, NEW fs, Given(u, r, st, fs), PassFits(spill', st),
           ShedEntries(u, r, st, fs)
    PROVE  Left(u, r, DOMAIN st)
<1>1. PICK excess, left, d, e :
        /\ e = ShedCount(r, "after", st, excess, 0)
        /\ d = IF left > 0 /\ u # <<>> THEN ShedCount(u, "before", st, left, 1) ELSE 0
        /\ Leave(SubSeq(u, d + 1, Len(u)), SubSeq(r, e + 1, Len(r)), st,
                 fs \ (FilesOf(SubSeq(u, 1, d)) \cup FilesOf(SubSeq(r, 1, e))))
  BY DEF ShedEntries
<1>2. u \in Seq(Seq(StepNo)) /\ r \in Seq(Seq(StepNo)) /\ Len(u) \in Nat /\ Len(r) \in Nat
  BY DEF Given
<1>3. e \in 0..Len(r)
  <2>1. 0 <= Len(r) /\ Len(r) - 0 = Len(r)
    BY <1>2
  <2>2. ShedCount(r, "after", st, excess, 0) \in 0..(Len(r) - 0)
    BY <1>2, <2>1, ShedCountFits
  <2> QED
    BY <1>1, <2>1, <2>2
<1>4. d \in 0..Len(u) /\ (u # <<>> => d < Len(u))
  <2>1. CASE left > 0 /\ u # <<>>
    <3>1. 1 <= Len(u)
      BY <1>2, <2>1, EmptySeq
    <3>2. ShedCount(u, "before", st, left, 1) \in 0..(Len(u) - 1)
      BY <1>2, <3>1, ShedCountFits
    <3>3. d \in 0..(Len(u) - 1)
      BY <1>1, <2>1, <3>2
    <3> QED
      BY <1>2, <3>1, <3>3
  <2>2. CASE ~(left > 0 /\ u # <<>>)
    <3>1. d = 0 /\ (u # <<>> => Len(u) > 0)
      BY <1>1, <1>2, <2>2, EmptySeq
    <3> QED
      BY <1>2, <3>1
  <2> QED
    BY <2>1, <2>2
<1> DEFINE v == SubSeq(u, d + 1, Len(u))
           w == SubSeq(r, e + 1, Len(r))
           gs == fs \ (FilesOf(SubSeq(u, 1, d)) \cup FilesOf(SubSeq(r, 1, e)))
<1>5. v \in Seq(Seq(StepNo)) /\ Later(v, u, d)
  BY <1>2, <1>4, DropDeep
<1>6. w \in Seq(Seq(StepNo)) /\ Later(w, r, e)
  BY <1>2, <1>3, DropDeep
<1>7. Leave(v, w, st, gs)
  BY <1>1
<1> HIDE DEF v, w
<1>8. Given(v, w, st, gs)
  BY <1>3, <1>4, <1>5, <1>6, LaterGiven
<1> HIDE DEF gs
<1>9. Left(v, w, DOMAIN st)
  BY <1>7, <1>8, LeaveLeft
<1> QED
  BY <1>2, <1>3, <1>4, <1>5, <1>6, <1>9, LeftLater

LEMMA ShedHolds ==
    ASSUME NEW u, NEW r, NEW st, NEW fs, Given(u, r, st, fs), PassFits(spill', st),
           Shed(u, r, st, fs)
    PROVE  Left(u, r, DOMAIN st)
<1>1. CASE Leave(u, r, st, fs)
  BY <1>1, LeaveLeft
<1> DEFINE bare == NoneAhead(st)
<1>2. Given(u, r, bare, fs) /\ PassFits(spill', bare) /\ DOMAIN bare = DOMAIN st
  <2>1. SnapsFit(st)
    BY DEF Given
  <2>2. Kin(st, bare)
    BY <2>1, NoneAheadKin
  <2> HIDE DEF bare
  <2> QED
    BY <2>2, KinGiven, KinHolds DEF Kin
<1>3. CASE Leave(u, r, bare, fs)
  <2> HIDE DEF bare
  <2> QED
    BY <1>2, <1>3, LeaveLeft
<1>4. CASE ShedEntries(u, r, bare, fs)
  <2> HIDE DEF bare
  <2> QED
    BY <1>2, <1>4, ShedEntriesHolds
<1> QED
  BY <1>1, <1>3, <1>4 DEF Shed

-----------------------------------------------------------------------------
(* The spill pass.                                                          *)

\* The halves still to park, from the next one to write on.
LEMMA ToWriteFits ==
    ASSUME NEW X, NEW rest \in Seq(X), NEW st
    PROVE  /\ ToWrite(rest, st) \in Seq(X)
           /\ Range(ToWrite(rest, st)) \subseteq Range(rest)
           /\ ToWrite(rest, st) # <<>> =>
                Slow(st[ToWrite(rest, st)[1][1]][ToWrite(rest, st)[1][2]])
           /\ (\E i \in 1..Len(rest) : Slow(st[rest[i][1]][rest[i][2]])) =>
                ToWrite(rest, st) # <<>>
<1> DEFINE I == {i \in 1..Len(rest) : Slow(st[rest[i][1]][rest[i][2]])}
           k == IF I # {} THEN Min(I) ELSE 0
<1>1. ToWrite(rest, st) = IF k = 0 THEN <<>> ELSE SubSeq(rest, k, Len(rest))
  BY DEF ToWrite, SelectInSeq
<1>2. I \in SUBSET Nat /\ \A i \in I : i \in 1..Len(rest) /\ Slow(st[rest[i][1]][rest[i][2]])
  OBVIOUS
<1>3. CASE I = {}
  <2>1. ToWrite(rest, st) = <<>>
    BY <1>1, <1>3
  <2> QED
    BY <1>3, <2>1 DEF Range
<1>4. CASE I # {}
  <2>1. k \in I
    <3> HIDE DEF I
    <3> QED
      BY <1>2, <1>4, MinIsLeast
  <2>2. k \in 1..Len(rest) /\ Slow(st[rest[k][1]][rest[k][2]])
    BY <1>2, <2>1
  <2> HIDE DEF k
  <2>3. ToWrite(rest, st) = SubSeq(rest, k, Len(rest))
    BY <1>1, <2>2
  <2>4. /\ SubSeq(rest, k, Len(rest)) \in Seq(X)
        /\ Len(SubSeq(rest, k, Len(rest))) = Len(rest) - k + 1
        /\ \A i \in 1..(Len(rest) - k + 1) : SubSeq(rest, k, Len(rest))[i] = rest[k + i - 1]
    <3>1. \A i \in k..Len(rest) : rest[i] \in X
      BY <2>2
    <3> QED
      BY <2>2, <3>1, SubSeqProperties
  <2>5. Range(SubSeq(rest, k, Len(rest))) \subseteq Range(rest)
    <3>1. DOMAIN SubSeq(rest, k, Len(rest)) = 1..(Len(rest) - k + 1)
      BY <2>4, LenProperties
    <3>2. \A i \in 1..(Len(rest) - k + 1) : k + i - 1 \in DOMAIN rest
      BY <2>2
    <3> QED
      BY <2>4, <3>1, <3>2 DEF Range
  <2>6. SubSeq(rest, k, Len(rest))[1] = rest[k] /\ SubSeq(rest, k, Len(rest)) # <<>>
    <3>1. 1 \in 1..(Len(rest) - k + 1) /\ k + 1 - 1 = k /\ Len(rest) - k + 1 # 0
      BY <2>2
    <3>2. SubSeq(rest, k, Len(rest))[1] = rest[k + 1 - 1]
      BY <2>4, <3>1
    <3>3. SubSeq(rest, k, Len(rest)) # <<>>
      BY <2>4, <3>1, EmptySeq
    <3> QED
      BY <3>1, <3>2, <3>3
  <2> QED
    BY <2>2, <2>3, <2>4, <2>5, <2>6
<1> QED
  BY <1>3, <1>4

\* The halves of an entry: each of its steps', twice.
LEMMA HalvesFit ==
    ASSUME NEW e \in Seq(StepNo)
    PROVE  /\ HalvesOf(e) \in Seq(StepNo \X Half)
           /\ {f[1] : f \in Range(HalvesOf(e))} \subseteq Range(e)
           /\ \A n \in Range(e), h \in Half : \E i \in 1..Len(HalvesOf(e)) : HalvesOf(e)[i] = <<n, h>>
<1>1. Len(e) \in Nat /\ DOMAIN e = 1..Len(e) /\ \A i \in 1..Len(e) : e[i] \in StepNo
  OBVIOUS
<1>2. \A i \in 1..(2 * Len(e)) : (i + 1) \div 2 \in 1..Len(e)
  BY <1>1
<1>3. /\ HalvesOf(e) \in Seq(StepNo \X Half) /\ Len(HalvesOf(e)) = 2 * Len(e)
      /\ DOMAIN HalvesOf(e) = 1..(2 * Len(e))
      /\ \A i \in 1..(2 * Len(e)) :
           HalvesOf(e)[i] = <<e[(i + 1) \div 2], IF i % 2 = 1 THEN "before" ELSE "after">>
  BY <1>1, <1>2 DEF HalvesOf, Half
<1>4. {f[1] : f \in Range(HalvesOf(e))} \subseteq Range(e)
  BY SMTT(30), <1>1, <1>2, <1>3 DEF Range
<1>5. ASSUME NEW n \in Range(e), NEW h \in Half
      PROVE  \E i \in 1..Len(HalvesOf(e)) : HalvesOf(e)[i] = <<n, h>>
  <2>1. PICK j \in 1..Len(e) : e[j] = n
    BY <1>1 DEF Range
  <2>2. CASE h = "before"
    <3>1. 2 * j - 1 \in 1..(2 * Len(e)) /\ (2 * j - 1 + 1) \div 2 = j /\ (2 * j - 1) % 2 = 1
      BY <1>1, <2>1
    <3> QED
      BY <1>3, <2>1, <2>2, <3>1
  <2>3. CASE h = "after"
    <3>1. 2 * j \in 1..(2 * Len(e)) /\ (2 * j + 1) \div 2 = j /\ (2 * j) % 2 # 1
      BY <1>1, <2>1
    <3> QED
      BY <1>3, <2>1, <2>3, <3>1
  <2> QED
    BY <2>2, <2>3 DEF Half
<1> QED
  BY <1>3, <1>4, <1>5

LEMMA StepsAreSteps ==
    ASSUME NEW stack \in Seq(Seq(StepNo))
    PROVE  StepsIn(stack) \subseteq StepNo
<1>1. ASSUME NEW n \in StepsIn(stack) PROVE n \in StepNo
  <2>1. PICK i \in DOMAIN stack : n \in Range(stack[i])
    BY <1>1, StepOf
  <2>2. stack[i] \in Seq(StepNo)
    BY <2>1
  <2> QED
    BY <2>1, <2>2 DEF Range
<1> QED
  BY <1>1

\* What a stack weighs, the cel having places enough to count.
LEMMA WeightIsNat ==
    ASSUME NEW stack \in Seq(Seq(StepNo)), NEW half, NEW st
    PROVE  StackWeight(stack, half, st) \in Nat
<1>1. IsFiniteSet(StepNo) /\ IsFiniteSet(Place)
  BY BudgetAssumption, PlaceAssumption, FS_Interval DEF StepNo
<1>2. StepsIn(stack) \X Place \subseteq StepNo \X Place
  BY StepsAreSteps
<1>3. IsFiniteSet(StepNo \X Place)
  BY <1>1, FS_Product
<1> DEFINE W == {tile \in StepsIn(stack) \X Place :
                   InRam(st[tile[1]][half]) /\ tile[2] \in st[tile[1]][half].own}
<1>4. W \subseteq StepNo \X Place
  BY <1>2
<1>5. IsFiniteSet(W)
  <2> HIDE DEF W
  <2> QED
    BY <1>3, <1>4, FS_Subset
<1>6. Cardinality(W) \in Nat
  <2> HIDE DEF W
  <2> QED
    BY <1>5, FS_CardinalityType
<1> QED
  BY <1>6 DEF StackWeight

LEMMA BytesAreNat == Bytes' \in Nat
BY BudgetAssumption DEF Bytes

\* An entry has a half to write.
SlowIn(e, st) == \E n \in Range(e), h \in Half : Slow(st[n][h])

\* A walk ends before an entry with something to write, or without any.
LEMMA WalkFits ==
    ASSUME NEW stack \in Seq(Seq(StepNo)), NEW half, NEW i \in Nat \ {0}, NEW st,
           NEW total \in Int, NEW w, w = Walk(stack, half, i, st, total)
    PROVE  /\ w.index \in Nat \ {0} /\ w.left \in Int
           /\ ToWriteIn(stack, w) =>
                /\ w.index \in 1..Len(stack)
                /\ SlowIn(stack[w.index], st)
<1> DEFINE top == Max({i, Len(stack)})
           Stops(j) ==
             \/ \E n \in Range(stack[j]), h \in Half : Slow(st[n][h])
             \/ total - StackWeight(SubSeq(stack, i, j - 1), half, st) <= Bytes'
           J == {top} \cup {j \in i..Len(stack) : Stops(j)}
           j == StopsAt(stack, half, i, st, total)
<1>1. Len(stack) \in Nat
  OBVIOUS
<1>2. top \in {i, Len(stack)} /\ top >= i /\ top >= Len(stack)
  <2>1. {i, Len(stack)} \in SUBSET (0..(i + Len(stack))) /\ i + Len(stack) \in Nat
    BY <1>1
  <2>2. {i, Len(stack)} # {} /\ i \in {i, Len(stack)} /\ Len(stack) \in {i, Len(stack)}
    OBVIOUS
  <2> QED
    BY <2>1, <2>2, MaxIsGreatest
<1> HIDE DEF top, Stops
<1>3. j \in J /\ j <= top
  <2>1. j = Min(J)
    BY DEF StopsAt, top, Stops
  <2>2. J \in SUBSET Nat /\ top \in J
    BY <1>1, <1>2
  <2> HIDE DEF J, j
  <2> QED
    BY <2>1, <2>2, MinIsLeast
<1>4. j \in Nat \ {0} /\ j >= i /\ (j = i \/ j <= Len(stack))
  BY <1>1, <1>2, <1>3
<1>5. w = WalkTo(j, stack, half, i, st, total)
  BY DEF Walk
<1> HIDE DEF j
<1>6. w.index = j /\ w.left = total - StackWeight(SubSeq(stack, i, j - 1), half, st)
  BY <1>5 DEF WalkTo
<1>7. StackWeight(SubSeq(stack, i, j - 1), half, st) \in Nat
  <2>1. \A l \in i..(j - 1) : l \in 1..Len(stack)
    BY <1>1, <1>4
  <2>2. \A l \in i..(j - 1) : stack[l] \in Seq(StepNo)
    BY <2>1
  <2>3. SubSeq(stack, i, j - 1) \in Seq(Seq(StepNo))
    BY <1>4, <2>2, SubSeqProperties
  <2> QED
    BY <2>3, WeightIsNat
<1>8. ASSUME ToWriteIn(stack, w)
      PROVE  /\ w.index \in 1..Len(stack)
             /\ SlowIn(stack[w.index], st)
  <2>1. j < Len(stack) /\ w.left > Bytes'
    BY <1>6, <1>8 DEF ToWriteIn
  <2>2. j # top
    BY <1>1, <1>2, <1>4, <2>1
  <2>3. Stops(j)
    BY <1>3, <2>2
  <2>4. ~(total - StackWeight(SubSeq(stack, i, j - 1), half, st) <= Bytes')
    BY <1>6, <1>7, <2>1, BytesAreNat
  <2>5. j \in 1..Len(stack)
    BY <1>1, <1>4, <2>1
  <2> QED
    BY <1>6, <2>3, <2>4, <2>5 DEF Stops, SlowIn
<1> QED
  BY <1>4, <1>6, <1>7, <1>8

\* The next write of a pass: its entry's first half with tiles in memory.
LEMMA PassAtFits ==
    ASSUME NEW st, SnapsFit(st), NEW name \in {"undo", "redo"}, NEW index \in Nat \ {0},
           NEW e \in Seq(StepNo), Range(e) \subseteq DOMAIN st, NEW passed,
           SlowIn(e, st),
           NEW go, go = PassAt(st, name, index, HalvesOf(e), passed), NEW base
    PROVE  Kin(st, go.steps) /\ go.stack = name /\ PassFits(Spilling(go, base), go.steps)
<1> DEFINE rest == ToWrite(HalvesOf(e), st)
           hs == passed \cup UpToWrite(HalvesOf(e), st)
<1>1. go.stack = name /\ go.index = index /\ go.rest = rest /\ go.steps = ParkBare(st, hs)
  BY DEF PassAt
<1> HIDE DEF hs
<1>2. Kin(st, go.steps)
  BY <1>1, ParkBareKin
<1>3. HalvesOf(e) \in Seq(StepNo \X Half) /\ {f[1] : f \in Range(HalvesOf(e))} \subseteq Range(e)
  BY HalvesFit
<1>4. \E i \in 1..Len(HalvesOf(e)) : Slow(st[HalvesOf(e)[i][1]][HalvesOf(e)[i][2]])
  <2>1. PICK n \in Range(e), h \in Half : Slow(st[n][h])
    BY DEF SlowIn
  <2>2. PICK i \in 1..Len(HalvesOf(e)) : HalvesOf(e)[i] = <<n, h>>
    BY HalvesFit
  <2> QED
    BY <2>1, <2>2
<1>5. /\ rest \in Seq(StepNo \X Half) /\ Range(rest) \subseteq Range(HalvesOf(e)) /\ rest # <<>>
      /\ Slow(st[rest[1][1]][rest[1][2]])
  BY <1>3, <1>4, ToWriteFits
<1> HIDE DEF rest
<1> DEFINE sp == Spilling(go, base)
<1>6. /\ sp.stack = name /\ sp.index = index /\ sp.rest = rest /\ DOMAIN sp = DOMAIN Idle
  BY <1>1 DEF Spilling, Idle
<1>7. PassFits(sp, st)
  <2>1. RestSteps(sp) \subseteq DOMAIN st
    BY <1>3, <1>5, <1>6 DEF RestSteps
  <2> HIDE DEF sp
  <2> QED
    BY <1>5, <1>6, <2>1 DEF PassFits
<1> QED
  <2> HIDE DEF sp
  <2>1. PassFits(sp, go.steps)
    BY <1>2, <1>7, KinHolds
  <2> QED
    BY <1>1, <1>2, <2>1 DEF sp

\* The pass from an entry on, over stacks it may never have seen.
LEMMA PassOfFits ==
    ASSUME NEW u, NEW r, NEW st, NEW fs, Given(u, r, st, fs), NEW name, NEW i \in Nat \ {0},
           NEW total \in Int, NEW rw, rw = RedoWalk(r, st, name, i, total),
           NEW uw, uw = UndoWalk(u, r, st, name, i, rw),
           NEW go, go = PassOf(u, r, st, rw, uw), NEW base
    PROVE  /\ Kin(st, go.steps)
           /\ go.stack # "none" => PassFits(Spilling(go, base), go.steps)
<1>1. u \in Seq(Seq(StepNo)) /\ r \in Seq(Seq(StepNo)) /\ SnapsFit(st)
  BY DEF Given
<1>2. /\ rw.left \in Int
      /\ ToWriteIn(r, rw) => /\ rw.index \in 1..Len(r) /\ rw.index \in Nat \ {0}
                             /\ SlowIn(r[rw.index], st)
  <2>1. CASE name = "redo"
    BY <1>1, <2>1, WalkFits DEF RedoWalk
  <2>2. CASE name # "redo"
    <3>1. rw.index = 0 /\ rw.left = total
      BY <2>2 DEF RedoWalk, NoWalk
    <3> QED
      BY <3>1 DEF ToWriteIn
  <2> QED
    BY <2>1, <2>2
<1>3. ToWriteIn(u, uw) => /\ uw.index \in 1..Len(u) /\ uw.index \in Nat \ {0}
                          /\ SlowIn(u[uw.index], st)
  <2>1. CASE ToWriteIn(r, rw)
    <3>1. uw.index = 0
      BY <2>1 DEF UndoWalk, NoWalk
    <3> QED
      BY <3>1 DEF ToWriteIn
  <2>2. CASE ~ToWriteIn(r, rw)
    <3>1. (IF name = "redo" THEN 1 ELSE i) \in Nat \ {0}
      OBVIOUS
    <3>2. uw = Walk(u, "before", IF name = "redo" THEN 1 ELSE i, st, rw.left)
      BY <2>2 DEF UndoWalk
    <3> QED
      BY <1>1, <1>2, <3>1, <3>2, WalkFits
  <2> QED
    BY <2>1, <2>2
<1> DEFINE passed == rw.passed \cup uw.passed
<1>4. CASE ToWriteIn(r, rw)
  <2>1. go = PassAt(st, "redo", rw.index, HalvesOf(r[rw.index]), passed)
    <3>1. ~ToWriteIn(u, uw)
      BY <1>4 DEF UndoWalk, NoWalk, ToWriteIn
    <3> QED
      BY <1>4, <3>1 DEF PassOf
  <2>2. r[rw.index] \in Seq(StepNo) /\ Range(r[rw.index]) \subseteq DOMAIN st
    BY <1>1, <1>2, <1>4, StepOf DEF Given
  <2>3. rw.index \in Nat \ {0} /\ SlowIn(r[rw.index], st)
    BY <1>2, <1>4
  <2>4. PICK index, e : index = rw.index /\ e = r[rw.index]
    OBVIOUS
  <2>5. index \in Nat \ {0} /\ e \in Seq(StepNo) /\ Range(e) \subseteq DOMAIN st /\ SlowIn(e, st)
    BY <2>2, <2>3, <2>4
  <2> HIDE DEF passed
  <2>6. go = PassAt(st, "redo", index, HalvesOf(e), passed)
    BY <2>1, <2>4
  <2>7. Kin(st, go.steps) /\ go.stack = "redo" /\ PassFits(Spilling(go, base), go.steps)
    BY <1>1, <2>5, <2>6, PassAtFits
  <2> QED
    BY <2>7
<1>5. CASE ~ToWriteIn(r, rw) /\ ToWriteIn(u, uw)
  <2>1. go = PassAt(st, "undo", uw.index, HalvesOf(u[uw.index]), passed)
    BY <1>5 DEF PassOf
  <2>2. u[uw.index] \in Seq(StepNo) /\ Range(u[uw.index]) \subseteq DOMAIN st
    BY <1>1, <1>3, <1>5, StepOf DEF Given
  <2>3. uw.index \in Nat \ {0} /\ SlowIn(u[uw.index], st)
    BY <1>3, <1>5
  <2>4. PICK index, e : index = uw.index /\ e = u[uw.index]
    OBVIOUS
  <2>5. index \in Nat \ {0} /\ e \in Seq(StepNo) /\ Range(e) \subseteq DOMAIN st /\ SlowIn(e, st)
    BY <2>2, <2>3, <2>4
  <2> HIDE DEF passed
  <2>6. go = PassAt(st, "undo", index, HalvesOf(e), passed)
    BY <2>1, <2>4
  <2>7. Kin(st, go.steps) /\ go.stack = "undo" /\ PassFits(Spilling(go, base), go.steps)
    BY SMTT(30), <1>1, <2>5, <2>6, PassAtFits
  <2> QED
    BY <2>7
<1>6. CASE ~ToWriteIn(r, rw) /\ ~ToWriteIn(u, uw)
  <2>1. go = PassAt(st, "none", 0, <<>>, passed)
    BY <1>6 DEF PassOf
  <2>2. go.stack = "none" /\ go.steps = ParkBare(st, passed \cup UpToWrite(<<>>, st))
    BY <2>1 DEF PassAt
  <2> QED
    BY <1>1, <2>2, ParkBareKin
<1> QED
  BY <1>4, <1>5, <1>6

Stands == {"no", "refused", "stuck"}

LEMMA RetainedIsNat ==
    ASSUME NEW u, NEW r, NEW st, NEW fs, Given(u, r, st, fs)
    PROVE  Retained(u, r, st) \in Nat
BY WeightIsNat DEF Given, Retained

LEMMA IdleFits ==
    ASSUME NEW st
    PROVE  PassFits(Idle, st)
<1>1. Idle.rest = <<>>
  BY DEF Idle
<1> QED
  BY <1>1 DEF PassFits, RestSteps, Range

LEMMA StandDownHolds ==
    ASSUME NEW u, NEW r, NEW st, NEW fs, Given(u, r, st, fs), NEW why \in Stands,
           StandDown(u, r, st, fs, why)
    PROVE  Left(u, r, DOMAIN st) /\ stood' \in Stands
<1>1. stood' = why /\ spill' = Idle /\ Shed(u, r, st, fs)
  BY DEF StandDown
<1>2. PassFits(spill', st)
  BY <1>1, IdleFits
<1> QED
  BY <1>1, <1>2, ShedHolds

LEMMA StartPassHolds ==
    ASSUME NEW u, NEW r, NEW st, NEW fs, Given(u, r, st, fs), NEW total \in Int,
           StartPass(u, r, st, fs, total)
    PROVE  Left(u, r, DOMAIN st) /\ stood' \in Stands
<1>1. PICK rw, uw, go :
        /\ rw = RedoWalk(r, st, "redo", 1, total)
        /\ uw = UndoWalk(u, r, st, "redo", 1, rw)
        /\ go = PassOf(u, r, st, rw, uw)
        /\ \/ /\ go.stack # "none"
              /\ spill' = Spilling(go, total) /\ stood' = "no" /\ Leave(u, r, go.steps, fs)
           \/ spill' = Idle /\ stood' = "no" /\ Leave(u, r, go.steps, fs)
           \/ StandDown(u, r, go.steps, fs, "stuck")
  BY DEF StartPass
<1>2. /\ Kin(st, go.steps)
      /\ go.stack # "none" => PassFits(Spilling(go, total), go.steps)
  <2>1. 1 \in Nat \ {0}
    OBVIOUS
  <2> QED
    BY <1>1, <2>1, PassOfFits
<1>3. Given(u, r, go.steps, fs) /\ DOMAIN go.steps = DOMAIN st
  BY <1>2, KinGiven DEF Kin
<1>4. CASE /\ go.stack # "none"
           /\ spill' = Spilling(go, total) /\ stood' = "no" /\ Leave(u, r, go.steps, fs)
  <2>1. PassFits(spill', go.steps)
    BY <1>2, <1>4
  <2> QED
    BY <1>3, <1>4, <2>1, LeaveLeft DEF Stands
<1>5. CASE spill' = Idle /\ stood' = "no" /\ Leave(u, r, go.steps, fs)
  <2>1. PassFits(spill', go.steps)
    BY <1>5, IdleFits
  <2> QED
    BY <1>3, <1>5, <2>1, LeaveLeft DEF Stands
<1>6. CASE StandDown(u, r, go.steps, fs, "stuck")
  <2>1. "stuck" \in Stands
    BY DEF Stands
  <2> QED
    BY <1>3, <1>6, <2>1, StandDownHolds
<1> QED
  BY <1>1, <1>4, <1>5, <1>6

LEMMA TrimHolds ==
    ASSUME NEW u, NEW r, NEW st, NEW fs, Given(u, r, st, fs), PassFits(spill, st),
           NEW stand \in Stands, Trim(u, r, st, fs, stand)
    PROVE  Left(u, r, DOMAIN st) /\ stood' \in Stands
<1>1. PICK total : /\ total = Retained(u, r, st)
                   /\ \/ StartPass(u, r, st, fs, total)
                      \/ UNCHANGED spill /\ stood' = stand /\ Shed(u, r, st, fs)
                      \/ UNCHANGED spill /\ stood' = stand /\ Leave(u, r, st, fs)
  BY DEF Trim
<1>2. CASE StartPass(u, r, st, fs, total)
  <2>1. total \in Int
    BY <1>1, RetainedIsNat
  <2> QED
    BY <1>2, <2>1, StartPassHolds
<1>3. CASE UNCHANGED spill /\ stood' = stand /\ Shed(u, r, st, fs)
  <2>1. PassFits(spill', st)
    BY <1>3
  <2> QED
    BY <1>3, <2>1, ShedHolds
<1>4. CASE UNCHANGED spill /\ stood' = stand /\ Leave(u, r, st, fs)
  <2>1. PassFits(spill', st)
    BY <1>4
  <2> QED
    BY <1>4, <2>1, LeaveLeft
<1> QED
  BY <1>1, <1>2, <1>3, <1>4

LEMMA ProceedHolds ==
    ASSUME NEW st, NEW fs, Given(undo, redo, st, fs), stood \in Stands,
           spill.index \in Nat \ {0}, Proceed(st, fs)
    PROVE  Left(undo, redo, DOMAIN st) /\ stood' \in Stands
<1>1. PICK total, rw, uw, go, left :
        /\ total = Retained(undo, redo, st)
        /\ rw = RedoWalk(redo, st, spill.stack, spill.index + 1, total)
        /\ uw = UndoWalk(undo, redo, st, spill.stack, spill.index + 1, rw)
        /\ go = PassOf(undo, redo, st, rw, uw)
        /\ left = Retained(undo, redo, go.steps)
        /\ \/ /\ go.stack # "none" /\ spill' = Spilling(go, spill.base)
              /\ UNCHANGED stood /\ Leave(undo, redo, go.steps, fs)
           \/ StandDown(undo, redo, go.steps, fs, "stuck")
           \/ StartPass(undo, redo, go.steps, fs, left)
           \/ spill' = Idle /\ UNCHANGED stood /\ Leave(undo, redo, go.steps, fs)
  BY DEF Proceed
<1>2. /\ Kin(st, go.steps)
      /\ go.stack # "none" => PassFits(Spilling(go, spill.base), go.steps)
  <2>1. spill.index + 1 \in Nat \ {0} /\ total \in Int
    BY <1>1, RetainedIsNat
  <2>2. PICK name, i, base : name = spill.stack /\ i = spill.index + 1 /\ base = spill.base
    OBVIOUS
  <2> QED
    BY <1>1, <2>1, <2>2, PassOfFits
<1>3. Given(undo, redo, go.steps, fs) /\ DOMAIN go.steps = DOMAIN st
  BY <1>2, KinGiven DEF Kin
<1>4. CASE /\ go.stack # "none" /\ spill' = Spilling(go, spill.base)
           /\ UNCHANGED stood /\ Leave(undo, redo, go.steps, fs)
  <2>1. PassFits(spill', go.steps)
    BY <1>2, <1>4
  <2> QED
    BY <1>3, <1>4, <2>1, LeaveLeft
<1>5. CASE StandDown(undo, redo, go.steps, fs, "stuck")
  <2>1. "stuck" \in Stands
    BY DEF Stands
  <2> QED
    BY <1>3, <1>5, <2>1, StandDownHolds
<1>6. CASE StartPass(undo, redo, go.steps, fs, left)
  <2>1. left \in Int
    BY <1>1, <1>3, RetainedIsNat
  <2> QED
    BY <1>3, <1>6, <2>1, StartPassHolds
<1>7. CASE spill' = Idle /\ UNCHANGED stood /\ Leave(undo, redo, go.steps, fs)
  <2>1. PassFits(spill', go.steps)
    BY <1>7, IdleFits
  <2> QED
    BY <1>3, <1>7, <2>1, LeaveLeft
<1> QED
  BY <1>1, <1>4, <1>5, <1>6, <1>7

-----------------------------------------------------------------------------
(* A write of the pass comes back.                                          *)

LEMMA EntryParkedHolds ==
    ASSUME NEW st, NEW fs, Given(undo, redo, st, fs), stood \in Stands,
           spill.index \in Nat \ {0}, NEW ok, EntryParked(ok, st, fs)
    PROVE  Left(undo, redo, DOMAIN st) /\ stood' \in Stands
<1>1. CASE ok
  BY <1>1, ProceedHolds DEF EntryParked
<1>2. CASE ~ok
  <2>1. "refused" \in Stands
    BY DEF Stands
  <2> QED
    BY <1>2, <2>1, StandDownHolds DEF EntryParked
<1> QED
  BY <1>1, <1>2

\* The snapshots with the half that was written parked, and the room with it.
LEMMA LandedGiven ==
    ASSUME NEW u, NEW r, NEW st, NEW fs, Given(u, r, st, fs),
           NEW n \in DOMAIN st, NEW h \in Half, NEW gs,
           n \in StepsIn(u) \cup StepsIn(r) => gs = fs \cup {<<n, h>>},
           n \notin StepsIn(u) \cup StepsIn(r) => gs = fs
    PROVE  Given(u, r, [st EXCEPT ![n][h].at = "room"], gs)
<1> DEFINE ot == [st EXCEPT ![n][h].at = "room"]
<1>1. SnapsFit(ot) /\ DOMAIN ot = DOMAIN st
  <2>1. PICK s \in Snapshots : s = st[n][h]
    BY DEF Given, SnapsFit
  <2>2. [s EXCEPT !.at = "room"] \in Snapshots
    BY DEF Snapshots
  <2> QED
    BY <2>1, <2>2 DEF Given, SnapsFit
<1>2. \A m \in DOMAIN st, g \in Half : ot[m][g].at = "room" <=> st[m][g].at = "room" \/ <<m, g>> = <<n, h>>
  <2> TAKE m \in DOMAIN st, g \in Half
  <2>1. PICK s \in Snapshots : s = st[m][g]
    BY DEF Given, SnapsFit
  <2>2. "at" \in DOMAIN s
    BY DEF Snapshots
  <2> QED
    BY <2>1, <2>2 DEF Given, SnapsFit
<1> HIDE DEF ot
<1>3. \A f \in FilesOf(u) \cup FilesOf(r) : f[1] \in DOMAIN st /\ f[2] \in Half /\ f = <<f[1], f[2]>>
  BY DEF Given, FilesOf
<1>4. \A f \in FilesOf(u) \cup FilesOf(r) :
        ot[f[1]][f[2]].at = "room" <=> st[f[1]][f[2]].at = "room" \/ f = <<n, h>>
  BY <1>2, <1>3
<1>5. <<n, h>> \in FilesOf(u) \cup FilesOf(r) <=> n \in StepsIn(u) \cup StepsIn(r)
  BY DEF FilesOf
<1>6. CASE n \in StepsIn(u) \cup StepsIn(r)
  <2>1. Parked(u, r, ot) = Parked(u, r, st) \cup {<<n, h>>}
    BY <1>4, <1>5, <1>6 DEF Parked
  <2>2. Exact(u, r, ot, gs)
    BY <1>6, <2>1 DEF Given, Exact
  <2> QED
    BY <1>1, <2>2 DEF Given, ot
<1>7. CASE n \notin StepsIn(u) \cup StepsIn(r)
  <2>1. Parked(u, r, ot) = Parked(u, r, st)
    BY <1>4, <1>5, <1>7 DEF Parked
  <2>2. Exact(u, r, ot, gs)
    BY <1>7, <2>1 DEF Given, Exact
  <2> QED
    BY <1>1, <2>2 DEF Given, ot
<1> QED
  BY <1>6, <1>7

LEMMA LandsHolds ==
    ASSUME Given(undo, redo, steps, files), stood \in Stands, PassFits(spill, steps),
           NEW taken \in BOOLEAN, Lands(taken)
    PROVE  Left(undo, redo, DOMAIN steps) /\ stood' \in Stands
<1> DEFINE file == spill.rest[1]
           landed == IF taken THEN [steps EXCEPT ![file[1]][file[2]].at = "room"] ELSE steps
           fs == IF Holds(file, taken) THEN files \cup {file} ELSE files
           rest == ToWrite(Tail(spill.rest), landed)
           ok == spill.ok /\ taken
           st == ParkBare(landed, UpToWrite(Tail(spill.rest), landed))
<1>1. spill # Idle /\ spill.rest \in Seq(StepNo \X Half) /\ spill.rest # <<>>
      /\ spill.index \in Nat \ {0} /\ RestSteps(spill) \subseteq DOMAIN steps
  BY DEF Lands, PassFits
<1>2. file \in StepNo \X Half /\ file[1] \in DOMAIN steps /\ file[2] \in Half
      /\ file = <<file[1], file[2]>>
  <2>1. 1 \in DOMAIN spill.rest
    BY <1>1, EmptySeq, LenProperties
  <2> QED
    BY <1>1, <2>1 DEF RestSteps, Range
<1>3. Given(undo, redo, landed, fs)
  <2>1. CASE taken
    <3>1. PICK n, h : n = file[1] /\ h = file[2]
      OBVIOUS
    <3>2. file[1] \in StepsIn(undo) \cup StepsIn(redo) => fs = files \cup {<<n, h>>}
      BY <1>2, <2>1, <3>1 DEF Holds
    <3>3. file[1] \notin StepsIn(undo) \cup StepsIn(redo) => fs = files
      BY <2>1 DEF Holds
    <3>4. landed = [steps EXCEPT ![n][h].at = "room"] /\ n \in DOMAIN steps /\ h \in Half
      BY <1>2, <2>1, <3>1
    <3> HIDE DEF landed, fs
    <3> QED
      BY <3>1, <3>2, <3>3, <3>4, LandedGiven
  <2>2. CASE ~taken
    BY <2>2 DEF Holds
  <2> QED
    BY <2>1, <2>2
<1>4. DOMAIN landed = DOMAIN steps /\ SnapsFit(landed)
  BY <1>3 DEF Given
<1>5. Tail(spill.rest) \in Seq(StepNo \X Half) /\ Range(Tail(spill.rest)) \subseteq Range(spill.rest)
  <2>1. PICK s \in Seq(StepNo \X Half) : s = spill.rest /\ s # <<>>
    BY <1>1
  <2>2. Tail(s) \in Seq(StepNo \X Half) /\ Len(Tail(s)) = Len(s) - 1 /\ Len(s) \in Nat \ {0}
        /\ \A i \in 1..Len(Tail(s)) : Tail(s)[i] = s[i + 1]
    BY <2>1, EmptySeq, HeadTailProperties
  <2>3. \A i \in 1..(Len(s) - 1) : i + 1 \in 1..Len(s)
    BY <2>2
  <2>4. Range(Tail(s)) \subseteq Range(s)
    BY <2>2, <2>3 DEF Range
  <2> QED
    BY <2>1, <2>2, <2>4
<1> HIDE DEF landed, fs
<1>6. /\ rest \in Seq(StepNo \X Half) /\ Range(rest) \subseteq Range(Tail(spill.rest))
      /\ rest # <<>> => Slow(landed[rest[1][1]][rest[1][2]])
  BY <1>5, ToWriteFits
<1>7. Kin(landed, st)
  BY <1>4, ParkBareKin
<1>8. Given(undo, redo, st, fs) /\ DOMAIN st = DOMAIN steps
  <2> HIDE DEF st
  <2> QED
    BY <1>3, <1>4, <1>7, KinGiven DEF Kin
<1>9. \/ /\ rest # <<>> /\ spill' = [spill EXCEPT !.rest = rest, !.ok = ok]
         /\ UNCHANGED stood /\ Leave(undo, redo, st, fs)
      \/ EntryParked(ok, st, fs)
      \/ spill' = Idle /\ UNCHANGED stood /\ Leave(undo, redo, st, fs)
  BY DEF Lands, landed, fs
<1> HIDE DEF rest, ok, st
<1>10. CASE /\ rest # <<>> /\ spill' = [spill EXCEPT !.rest = rest, !.ok = ok]
            /\ UNCHANGED stood /\ Leave(undo, redo, st, fs)
  <2>1. DOMAIN spill' = DOMAIN Idle /\ spill'.rest = rest /\ spill'.stack = spill.stack
        /\ spill'.index = spill.index
    BY <1>10 DEF PassFits, Idle
  <2>2. RestSteps(spill') \subseteq DOMAIN landed
    BY <1>1, <1>4, <1>5, <1>6, <2>1 DEF RestSteps
  <2>3. PassFits(spill', landed)
    BY <1>1, <1>6, <1>10, <2>1, <2>2 DEF PassFits
  <2>4. PassFits(spill', st)
    BY <1>7, <2>3, KinHolds
  <2> QED
    BY <1>8, <1>10, <2>4, LeaveLeft
<1>11. CASE EntryParked(ok, st, fs)
  BY <1>1, <1>8, <1>11, EntryParkedHolds
<1>12. CASE spill' = Idle /\ UNCHANGED stood /\ Leave(undo, redo, st, fs)
  <2>1. PassFits(spill', st)
    BY <1>12, IdleFits
  <2> QED
    BY <1>8, <1>12, <2>1, LeaveLeft
<1> QED
  BY <1>9, <1>10, <1>11, <1>12

-----------------------------------------------------------------------------
(* Steps put back, and read ahead.                                          *)

\* What a step put back changes: the cel, snapshots of the steps D, the room.
Shown(D) == [cel : Pic, steps : [D -> [Half -> Snapshots]], files : SUBSET (StepNo \X Half)]

LEMMA SwapFits ==
    ASSUME NEW D, NEW st \in [D -> [Half -> Snapshots]], NEW n \in D, NEW h \in Half,
           NEW t \in Snapshots, NEW ot, ot = [st EXCEPT ![n][h] = t]
    PROVE  /\ ot \in [D -> [Half -> Snapshots]]
           /\ \A m \in D, g \in Half : ot[m][g] = IF <<m, g>> = <<n, h>> THEN t ELSE st[m][g]
OBVIOUS

LEMMA AssembledIsPic ==
    ASSUME NEW s \in Snapshots, NEW live \in Pic
    PROVE  Assembled(s, live) \in Pic
<1>1. s.pic \in [Place -> 0..MaxEdits] /\ live \in [Place -> 0..MaxEdits] /\ 0 \in 0..MaxEdits
  BY BudgetAssumption DEF Snapshots, Pic
<1>2. \A x \in Place : (IF x \in s.own THEN s.pic[x]
                        ELSE IF x \in SharedPlaces(s) THEN live[x] ELSE 0) \in 0..MaxEdits
  BY <1>1
<1> QED
  BY <1>2 DEF Assembled, Pic

\* A half put back is held and has no file any more, or is as it was.
LEMMA RestoredFits ==
    ASSUME NEW D, NEW k \in Shown(D), NEW n \in D, NEW half \in Half,
           NEW l, l = Restored(k, n, half)
    PROVE  /\ l \in Shown(D)
           /\ \A m \in D, g \in Half : Slow(k.steps[m][g]) => Slow(l.steps[m][g])
           /\ \A u, r : StepsIn(u) \cup StepsIn(r) \subseteq D /\ Exact(u, r, k.steps, k.files)
                          => Exact(u, r, l.steps, l.files)
<1> DEFINE file == <<n, half>>
<1>1. PICK s \in Snapshots : s = k.steps[n][half]
  BY DEF Shown
<1>2. PICK st \in [D -> [Half -> Snapshots]] : st = k.steps
  BY DEF Shown
<1>3. k.cel \in Pic /\ k.files \in SUBSET (StepNo \X Half) /\ k = [cel |-> k.cel, steps |-> st, files |-> k.files]
  BY <1>2 DEF Shown
<1>4. PICK p : /\ p \in Pic
               /\ \/ s.at = "held" /\ l = [k EXCEPT !.cel = s.pic]
                  \/ /\ s.at # "held"
                     /\ l = [cel   |-> p,
                             steps |-> [k.steps EXCEPT ![n][half] =
                                          [@ EXCEPT !.pic = p, !.at = "held", !.ahead = {}]],
                             files |-> k.files \ {file}]
                  \/ s.at # "held" /\ l = [k EXCEPT !.steps[n][half].ahead = {}]
  <2> DEFINE adopted == Adopted(s, k.cel)
             p == IF adopted # {} THEN Assembled(s, CHOOSE q \in adopted : TRUE)
                  ELSE Assembled(s, k.cel)
  <2>1. p \in Pic
    <3>1. adopted # {} => (CHOOSE q \in adopted : TRUE) \in {k.cel}
      BY DEF Adopted
    <3> QED
      BY <1>3, <3>1, AssembledIsPic
  <2> QED
    BY <1>1, <2>1 DEF Restored
<1>5. CASE s.at = "held" /\ l = [k EXCEPT !.cel = s.pic]
  <2>1. l = [cel |-> s.pic, steps |-> st, files |-> k.files] /\ s.pic \in Pic
    BY <1>3, <1>5 DEF Snapshots
  <2> QED
    BY <1>2, <1>3, <2>1 DEF Shown
<1>6. ASSUME NEW t \in Snapshots, NEW c \in Pic, NEW fs \in SUBSET (StepNo \X Half),
             s.at # "held", Slow(t) => t.at = "held",
             l = [cel |-> c, steps |-> [st EXCEPT ![n][half] = t], files |-> fs],
             \/ t.at = "held" /\ fs = k.files \ {file}
             \/ t.at = s.at /\ fs = k.files
      PROVE  /\ l \in Shown(D)
             /\ \A m \in D, g \in Half : Slow(st[m][g]) => Slow(l.steps[m][g])
             /\ \A u, r : StepsIn(u) \cup StepsIn(r) \subseteq D /\ Exact(u, r, st, k.files)
                            => Exact(u, r, l.steps, fs)
  <2>1. PICK ot : ot = [st EXCEPT ![n][half] = t]
    OBVIOUS
  <2>2. /\ ot \in [D -> [Half -> Snapshots]]
        /\ \A m \in D, g \in Half : ot[m][g] = IF <<m, g>> = <<n, half>> THEN t ELSE st[m][g]
    BY <2>1, SwapFits
  <2>3. l \in Shown(D) /\ l.steps = ot
    BY <1>6, <2>1, <2>2 DEF Shown
  <2>4. \A m \in D, g \in Half : Slow(st[m][g]) => Slow(ot[m][g])
    BY <1>1, <1>2, <1>6, <2>2 DEF Slow
  <2>5. ASSUME NEW u, NEW r, StepsIn(u) \cup StepsIn(r) \subseteq D, Exact(u, r, st, k.files)
        PROVE  Exact(u, r, ot, fs)
    <3>1. \A f \in FilesOf(u) \cup FilesOf(r) :
            /\ f[1] \in D /\ f[2] \in Half /\ f = <<f[1], f[2]>>
            /\ ot[f[1]][f[2]] = IF f = file THEN t ELSE st[f[1]][f[2]]
      BY <2>2, <2>5 DEF FilesOf
    <3>2. CASE t.at = "held" /\ fs = k.files \ {file}
      <4>1. Parked(u, r, ot) = Parked(u, r, st) \ {file}
        BY <3>1, <3>2 DEF Parked
      <4> QED
        BY <2>5, <3>2, <4>1 DEF Exact
    <3>3. CASE t.at = s.at /\ fs = k.files
      <4>1. Parked(u, r, ot) = Parked(u, r, st)
        BY <1>1, <1>2, <3>1, <3>3 DEF Parked
      <4> QED
        BY <2>5, <3>3, <4>1 DEF Exact
    <3> QED
      BY <1>6, <3>2, <3>3
  <2> QED
    BY <2>3, <2>4, <2>5
<1>7. CASE /\ s.at # "held"
           /\ l = [cel   |-> p,
                   steps |-> [k.steps EXCEPT ![n][half] =
                                [@ EXCEPT !.pic = p, !.at = "held", !.ahead = {}]],
                   files |-> k.files \ {file}]
  <2>1. PICK t : t = [s EXCEPT !.pic = p, !.at = "held", !.ahead = {}]
    OBVIOUS
  <2>2. t \in Snapshots /\ t.at = "held"
    BY <1>4, <2>1 DEF Snapshots
  <2>3. l = [cel |-> p, steps |-> [st EXCEPT ![n][half] = t], files |-> k.files \ {file}]
    BY <1>1, <1>2, <1>7, <2>1
  <2>4. l.files = k.files \ {file} /\ k.files \ {file} \in SUBSET (StepNo \X Half)
    BY <1>3, <2>3
  <2> QED
    BY <1>2, <1>4, <1>6, <1>7, <2>2, <2>3, <2>4
<1>8. CASE s.at # "held" /\ l = [k EXCEPT !.steps[n][half].ahead = {}]
  <2>1. PICK t : t = [s EXCEPT !.ahead = {}]
    OBVIOUS
  <2>2. t \in Snapshots /\ t.at = s.at
    BY <2>1 DEF Snapshots
  <2>3. l = [cel |-> k.cel, steps |-> [st EXCEPT ![n][half] = t], files |-> k.files]
    BY <1>1, <1>2, <1>3, <1>8, <2>1
  <2>4. l.files = k.files /\ ~Slow(t)
    BY <1>8, <2>2, <2>3 DEF Slow
  <2> QED
    BY <1>2, <1>3, <1>6, <1>8, <2>2, <2>3, <2>4
<1> QED
  BY <1>4, <1>5, <1>7, <1>8

\* A half read ahead is where it was.
LEMMA ReadEarlyFits ==
    ASSUME NEW D, NEW k \in Shown(D), NEW n \in D, NEW half \in Half,
           NEW l, l = ReadEarly(k, n, half)
    PROVE  /\ l \in Shown(D) /\ l.files = k.files
           /\ \A m \in D, g \in Half : Slow(k.steps[m][g]) => Slow(l.steps[m][g])
           /\ \A m \in D, g \in Half : l.steps[m][g].at = k.steps[m][g].at
<1>1. PICK s \in Snapshots : s = k.steps[n][half]
  BY DEF Shown
<1>2. PICK st \in [D -> [Half -> Snapshots]] : st = k.steps
  BY DEF Shown
<1>3. k.cel \in Pic /\ k.files \in SUBSET (StepNo \X Half) /\ k = [cel |-> k.cel, steps |-> st, files |-> k.files]
  BY <1>2 DEF Shown
<1>4. PICK p : /\ p \in Pic
               /\ \/ s.at = "held" /\ l = [k EXCEPT !.cel = s.pic]
                  \/ s.at # "held" /\ l = [k EXCEPT !.cel = p, !.steps[n][half].ahead = {k.cel}]
                  \/ s.at # "held" /\ l = [k EXCEPT !.steps[n][half].ahead = {}]
  <2>1. Assembled(s, k.cel) \in Pic
    BY <1>3, AssembledIsPic
  <2> QED
    BY <1>1, <2>1 DEF ReadEarly
<1>5. CASE s.at = "held" /\ l = [k EXCEPT !.cel = s.pic]
  <2>1. l = [cel |-> s.pic, steps |-> st, files |-> k.files] /\ s.pic \in Pic
    BY <1>3, <1>5 DEF Snapshots
  <2> QED
    BY <1>2, <1>3, <2>1 DEF Shown
<1>6. ASSUME NEW a \in {{}} \cup {{q} : q \in Pic}, NEW c \in Pic, s.at # "held",
             l = [cel |-> c, steps |-> [st EXCEPT ![n][half] = [s EXCEPT !.ahead = a]],
                  files |-> k.files]
      PROVE  /\ l \in Shown(D) /\ l.files = k.files
             /\ \A m \in D, g \in Half : Slow(st[m][g]) => Slow(l.steps[m][g])
             /\ \A m \in D, g \in Half : l.steps[m][g].at = st[m][g].at
  <2>1. PICK t : t = [s EXCEPT !.ahead = a]
    OBVIOUS
  <2>2. t \in Snapshots /\ t.at = s.at
    BY <2>1 DEF Snapshots
  <2>3. PICK ot : ot = [st EXCEPT ![n][half] = t]
    OBVIOUS
  <2>4. /\ ot \in [D -> [Half -> Snapshots]]
        /\ \A m \in D, g \in Half : ot[m][g] = IF <<m, g>> = <<n, half>> THEN t ELSE st[m][g]
    BY <2>2, <2>3, SwapFits
  <2>5. l \in Shown(D) /\ l.steps = ot /\ l.files = k.files
    BY <1>3, <1>6, <2>1, <2>3, <2>4 DEF Shown
  <2> QED
    BY <1>1, <1>2, <1>6, <2>2, <2>4, <2>5 DEF Slow
<1>7. CASE s.at # "held" /\ l = [k EXCEPT !.cel = p, !.steps[n][half].ahead = {k.cel}]
  <2>1. l = [cel |-> p, steps |-> [st EXCEPT ![n][half] = [s EXCEPT !.ahead = {k.cel}]],
             files |-> k.files]
    BY <1>1, <1>2, <1>3, <1>7 DEF Snapshots
  <2>2. {k.cel} \in {{}} \cup {{q} : q \in Pic}
    BY <1>3
  <2> QED
    BY <1>2, <1>4, <1>6, <1>7, <2>1, <2>2
<1>8. CASE s.at # "held" /\ l = [k EXCEPT !.steps[n][half].ahead = {}]
  <2>1. l = [cel |-> k.cel, steps |-> [st EXCEPT ![n][half] = [s EXCEPT !.ahead = {}]],
             files |-> k.files]
    BY <1>1, <1>2, <1>3, <1>8 DEF Snapshots
  <2> QED
    BY <1>2, <1>3, <1>6, <1>8, <2>1
<1> QED
  BY <1>4, <1>5, <1>7, <1>8

\* An entry put back, or read ahead, leaves the stacks fit for the trim.
LEMMA PutBackFits ==
    ASSUME cel \in Pic, Given(undo, redo, steps, files), PassFits(spill, steps),
           NEW ns \in Seq(StepNo), Range(ns) \subseteq DOMAIN steps, NEW half \in Half,
           NEW k, k = PutBack(ns, half)
    PROVE  /\ k.cel \in Pic /\ Given(undo, redo, k.steps, k.files) /\ PassFits(spill, k.steps)
           /\ DOMAIN k.steps = DOMAIN steps
<1> DEFINE D == DOMAIN steps
           Good(q) == /\ q \in Shown(D) /\ Exact(undo, redo, q.steps, q.files)
                      /\ \A m \in D, g \in Half : Slow(steps[m][g]) => Slow(q.steps[m][g])
           S == {q \in Shown(D) : Good(q)}
<1>1. StepsIn(undo) \cup StepsIn(redo) \subseteq D
  BY DEF Given
<1>2. AsItIs \in S
  <2>1. files \in SUBSET (StepNo \X Half)
    <3>1. StepsIn(undo) \subseteq StepNo /\ StepsIn(redo) \subseteq StepNo
      BY StepsAreSteps DEF Given
    <3> QED
      BY <3>1 DEF Given, Exact, Parked, FilesOf
  <2>2. AsItIs \in Shown(D)
    BY <2>1 DEF AsItIs, Shown, Given, SnapsFit
  <2>3. AsItIs.steps = steps /\ AsItIs.files = files
    BY DEF AsItIs
  <2> QED
    BY <2>2, <2>3 DEF Given
<1>3. ASSUME NEW i \in 1..Len(ns), NEW q \in S PROVE Restored(q, ns[i], half) \in S
  <2>1. ns[i] \in D /\ q \in Shown(D) /\ Good(q)
    BY DEF Range
  <2>2. PICK l : l = Restored(q, ns[i], half)
    OBVIOUS
  <2>3. PICK n \in D : n = ns[i]
    BY <2>1
  <2>4. /\ l \in Shown(D)
        /\ \A m \in D, g \in Half : Slow(q.steps[m][g]) => Slow(l.steps[m][g])
        /\ \A u, r : StepsIn(u) \cup StepsIn(r) \subseteq D /\ Exact(u, r, q.steps, q.files)
                       => Exact(u, r, l.steps, l.files)
    BY <2>1, <2>2, <2>3, RestoredFits
  <2> QED
    BY <1>1, <2>1, <2>2, <2>4
<1>4. k \in S
  <2>1. Len(ns) \in Nat
    OBVIOUS
  <2> HIDE DEF S
  <2> QED
    BY <1>2, <1>3, <2>1, PutBackStays
<1>5. k \in Shown(D) /\ Good(k)
  BY <1>4
<1>6. SnapsFit(k.steps) /\ DOMAIN k.steps = D /\ k.cel \in Pic
  BY <1>5 DEF Shown, SnapsFit
<1>7. Given(undo, redo, k.steps, k.files)
  BY <1>5, <1>6 DEF Given
<1>8. PassFits(spill, k.steps)
  <2>1. CASE spill = Idle
    BY <1>6, <2>1 DEF PassFits
  <2>2. CASE spill # Idle
    <3>1. 1 \in DOMAIN spill.rest /\ spill.rest[1] \in StepNo \X Half
      BY <2>2, EmptySeq, LenProperties DEF PassFits
    <3>2. spill.rest[1][1] \in D /\ spill.rest[1][2] \in Half
      BY <3>1 DEF PassFits, RestSteps, Range
    <3> QED
      BY <1>5, <1>6, <2>2, <3>2 DEF PassFits
  <2> QED
    BY <2>1, <2>2
<1> QED
  BY <1>6, <1>7, <1>8

LEMMA ReadAllEarlyFits ==
    ASSUME cel \in Pic, Given(undo, redo, steps, files), PassFits(spill, steps),
           NEW ns \in Seq(StepNo), Range(ns) \subseteq DOMAIN steps, NEW half \in Half,
           NEW k, k = ReadAllEarly(ns, half)
    PROVE  /\ Given(undo, redo, k.steps, files) /\ PassFits(spill, k.steps)
           /\ DOMAIN k.steps = DOMAIN steps
<1> DEFINE D == DOMAIN steps
           Good(q) == /\ \A m \in D, g \in Half : Slow(steps[m][g]) => Slow(q.steps[m][g])
                      /\ \A m \in D, g \in Half : q.steps[m][g].at = steps[m][g].at
           S == {q \in Shown(D) : Good(q)}
<1>2. AsItIs \in S
  <2>1. files \in SUBSET (StepNo \X Half)
    <3>1. StepsIn(undo) \subseteq StepNo /\ StepsIn(redo) \subseteq StepNo
      BY StepsAreSteps DEF Given
    <3> QED
      BY <3>1 DEF Given, Exact, Parked, FilesOf
  <2>2. AsItIs \in Shown(D)
    BY <2>1 DEF AsItIs, Shown, Given, SnapsFit
  <2>3. AsItIs.steps = steps
    BY DEF AsItIs
  <2> QED
    BY <2>2, <2>3
<1>3. ASSUME NEW i \in 1..Len(ns), NEW q \in S PROVE ReadEarly(q, ns[i], half) \in S
  <2>1. ns[i] \in D /\ q \in Shown(D) /\ Good(q)
    BY DEF Range
  <2>2. PICK l : l = ReadEarly(q, ns[i], half)
    OBVIOUS
  <2>3. PICK n \in D : n = ns[i]
    BY <2>1
  <2>4. /\ l \in Shown(D)
        /\ \A m \in D, g \in Half : Slow(q.steps[m][g]) => Slow(l.steps[m][g])
        /\ \A m \in D, g \in Half : l.steps[m][g].at = q.steps[m][g].at
    BY <2>1, <2>2, <2>3, ReadEarlyFits
  <2> QED
    BY <2>1, <2>2, <2>4
<1>4. k \in S
  <2>1. Len(ns) \in Nat
    OBVIOUS
  <2> HIDE DEF S
  <2> QED
    BY <1>2, <1>3, <2>1, ReadAllEarlyStays
<1>5. k \in Shown(D) /\ Good(k)
  BY <1>4
<1>6. Kin(steps, k.steps)
  <2>1. SnapsFit(k.steps) /\ DOMAIN k.steps = D
    BY <1>5 DEF Shown, SnapsFit
  <2> QED
    BY <1>5, <2>1 DEF Kin
<1>7. DOMAIN k.steps = DOMAIN steps
  BY <1>6 DEF Kin
<1> QED
  BY <1>6, <1>7, KinGiven, KinHolds

-----------------------------------------------------------------------------
(* The stacks, operation by operation.                                      *)

LEMMA ApartFront ==
    ASSUME NEW X, NEW u \in Seq(X), NEW r \in Seq(X), Apart(u, r), u # <<>>
    PROVE  /\ Apart(Front(u), r)
           /\ Range(Last(u)) \cap (StepsIn(Front(u)) \cup StepsIn(r)) = {}
<1>1. /\ DOMAIN u = 1..Len(u) /\ Len(u) \in Nat \ {0} /\ DOMAIN Front(u) = 1..(Len(u) - 1)
      /\ \A i \in 1..(Len(u) - 1) : Front(u)[i] = u[i]
      /\ Last(u) = u[Len(u)]
  BY FrontOf, LenProperties
<1>0. Len(u) \in Nat \ {0}
  BY <1>1
<1>2. \A i \in 1..(Len(u) - 1) : i \in 1..Len(u) /\ i # Len(u)
  BY <1>0
<1>3. Len(u) \in 1..Len(u)
  BY <1>0
<1>4. \A n \in StepsIn(Front(u)) : \E i \in 1..(Len(u) - 1) : n \in Range(u[i])
  BY <1>1, StepOf
<1>5. \A n \in StepsIn(r) : \E i \in DOMAIN r : n \in Range(r[i])
  BY StepOf
<1>6. Range(Last(u)) \cap StepsIn(Front(u)) = {}
  <2>1. ASSUME NEW n \in StepsIn(Front(u)) PROVE n \notin Range(Last(u))
    <3>1. PICK i \in 1..(Len(u) - 1) : n \in Range(u[i])
      BY <1>4
    <3>2. Range(u[i]) \cap Range(u[Len(u)]) = {}
      BY <1>1, <1>2, <1>3 DEF Apart
    <3> QED
      BY <1>1, <3>1, <3>2
  <2> QED
    BY <2>1
<1>7. Range(Last(u)) \cap StepsIn(r) = {}
  BY <1>1, <1>3, <1>5 DEF Apart
<1>8. Apart(Front(u), r)
  BY <1>1, <1>2 DEF Apart
<1> QED
  BY <1>6, <1>7, <1>8

LEMMA ApartAppend ==
    ASSUME NEW X, NEW u \in Seq(X), NEW r \in Seq(X), Apart(u, r), NEW e \in X,
           Range(e) \cap (StepsIn(u) \cup StepsIn(r)) = {}
    PROVE  Apart(Append(u, e), r)
<1>1. /\ DOMAIN u = 1..Len(u) /\ Len(u) \in Nat /\ DOMAIN Append(u, e) = 1..(Len(u) + 1)
      /\ \A i \in 1..Len(u) : Append(u, e)[i] = u[i]
      /\ Append(u, e)[Len(u) + 1] = e
  BY AppendProperties, LenProperties
<1>2. \A i \in 1..(Len(u) + 1) : i \in 1..Len(u) \/ i = Len(u) + 1
  BY <1>1
<1>3. \A i \in 1..Len(u) : Range(u[i]) \cap Range(e) = {}
  BY <1>1, StepOf
<1>4. \A i \in DOMAIN r : Range(r[i]) \cap Range(e) = {}
  BY StepOf
<1> HIDE DEF Apart
<1>5. \A i, j \in 1..(Len(u) + 1) : i # j => Range(Append(u, e)[i]) \cap Range(Append(u, e)[j]) = {}
  BY <1>1, <1>2, <1>3 DEF Apart
<1>6. \A i \in 1..(Len(u) + 1), j \in DOMAIN r : Range(Append(u, e)[i]) \cap Range(r[j]) = {}
  BY <1>1, <1>2, <1>4 DEF Apart
<1> QED
  BY <1>1, <1>5, <1>6 DEF Apart

LEMMA ApartSwap ==
    ASSUME NEW u, NEW r, Apart(u, r)
    PROVE  Apart(r, u)
BY DEF Apart

\* Entries waiting on redo.
LEMMA RangeIsFinite ==
    ASSUME NEW X, NEW s \in Seq(X)
    PROVE  IsFiniteSet(Range(s)) /\ IsFiniteSet(Range(s) \ {<<>>})
<1>1. IsFiniteSet(1..Len(s)) /\ DOMAIN s = 1..Len(s)
  BY FS_Interval, LenProperties
<1>2. s \in Surjection(1..Len(s), Range(s))
  BY <1>1 DEF Surjection, Range
<1>3. IsFiniteSet(Range(s))
  BY <1>1, <1>2, FS_Surjection
<1> QED
  BY <1>3, FS_RemoveElement

LEMMA RangeOfAppend ==
    ASSUME NEW X, NEW s \in Seq(X), NEW e \in X
    PROVE  Range(Append(s, e)) = Range(s) \cup {e}
<1>1. /\ DOMAIN s = 1..Len(s) /\ Len(s) \in Nat /\ DOMAIN Append(s, e) = 1..(Len(s) + 1)
      /\ \A i \in 1..Len(s) : Append(s, e)[i] = s[i]
      /\ Append(s, e)[Len(s) + 1] = e
  BY AppendProperties, LenProperties
<1>2. /\ \A i \in 1..(Len(s) + 1) : i \in 1..Len(s) \/ i = Len(s) + 1
      /\ \A i \in 1..Len(s) : i \in 1..(Len(s) + 1)
      /\ Len(s) + 1 \in 1..(Len(s) + 1)
  BY <1>1
<1> QED
  BY <1>1, <1>2 DEF Range

LEMMA RangeOfFront ==
    ASSUME NEW X, NEW s \in Seq(X), s # <<>>
    PROVE  Range(s) = Range(Front(s)) \cup {Last(s)}
<1>1. /\ DOMAIN s = 1..Len(s) /\ Len(s) \in Nat \ {0} /\ DOMAIN Front(s) = 1..(Len(s) - 1)
      /\ \A i \in 1..(Len(s) - 1) : Front(s)[i] = s[i]
      /\ Last(s) = s[Len(s)]
  BY FrontOf, LenProperties
<1>0. Len(s) \in Nat \ {0}
  BY <1>1
<1>2. /\ \A i \in 1..Len(s) : i \in 1..(Len(s) - 1) \/ i = Len(s)
      /\ \A i \in 1..(Len(s) - 1) : i \in 1..Len(s)
      /\ Len(s) \in 1..Len(s)
  BY <1>0
<1> QED
  BY <1>1, <1>2 DEF Range

\* A sequence of what s has, shorter from the deep end.
LEMMA LaterOfSame ==
    ASSUME NEW X, NEW Y, NEW s \in Seq(X), NEW d, NEW v \in Seq(Y), Later(v, s, d)
    PROVE  v \in Seq(X) /\ Range(v) \subseteq Range(s) /\ Len(v) <= Len(s) /\ Len(s) \in Nat
<1>1. /\ d \in 0..Len(s) /\ Len(s) \in Nat /\ Len(v) = Len(s) - d /\ DOMAIN s = 1..Len(s)
      /\ \A i \in 1..(Len(s) - d) : v[i] = s[i + d]
      /\ v \in [1..Len(v) -> Y] /\ \A i \in 1..Len(s) : s[i] \in X
  BY LenProperties, ElementOfSeq DEF Later
<1>2. \A i \in 1..(Len(s) - d) : i + d \in 1..Len(s)
  BY <1>1
<1>3. \A i \in 1..Len(v) : v[i] \in X /\ v[i] \in Range(s)
  BY <1>1, <1>2 DEF Range
<1>4. v \in [1..Len(v) -> X] /\ Len(v) \in Nat
  BY <1>1, <1>3
<1>5. v \in Seq(X)
  BY <1>4, SeqDef
<1>6. Range(v) \subseteq Range(s)
  BY <1>1, <1>3 DEF Range
<1>7. Len(v) <= Len(s)
  BY <1>1
<1> QED
  BY <1>1, <1>5, <1>6, <1>7

\* An undo's entry goes from one stack to the other, and a redo's back.
LEMMA FrontFits ==
    ASSUME NEW m, NEW u, NEW r, StacksFit(u, r, m), u # <<>>
    PROVE  StacksFit(Front(u), r, m)
<1>1. u \in Seq(Seq(1..m)) /\ r \in Seq(Seq(1..m)) /\ Apart(u, r)
  BY DEF StacksFit
<1>2. /\ Front(u) \in Seq(Seq(1..m)) /\ Len(Front(u)) = Len(u) - 1 /\ Len(u) \in Nat \ {0}
      /\ \A i \in 1..(Len(u) - 1) : Front(u)[i] = u[i]
      /\ DOMAIN u = 1..Len(u) /\ DOMAIN Front(u) = 1..Len(Front(u))
  BY <1>1, FrontOf, LenProperties
<1>0. Len(u) \in Nat \ {0}
  BY <1>2
<1>3. \A i \in 1..(Len(u) - 1) : i \in 1..Len(u)
  BY <1>0
<1>4. \A i \in DOMAIN Front(u) : Front(u)[i] # <<>>
  BY <1>2, <1>3 DEF StacksFit
<1>5. Apart(Front(u), r)
  BY <1>1, ApartFront
<1>6. Cardinality(Range(r) \ {<<>>}) \in Nat
  BY <1>1, RangeIsFinite, FS_CardinalityType
<1>7. Len(Front(u)) + Cardinality(Range(r) \ {<<>>}) <= MaxEntries
  <2>1. Len(u) + Cardinality(Range(r) \ {<<>>}) <= MaxEntries
    BY DEF StacksFit
  <2>2. \A a \in Nat \ {0}, c \in Nat, x \in Nat : a + c <= x => (a - 1) + c <= x
    OBVIOUS
  <2> QED
    BY <1>2, <1>6, <2>1, <2>2, BudgetAssumption
<1> QED
  BY <1>1, <1>2, <1>4, <1>5, <1>7 DEF StacksFit

LEMMA UndoneFits ==
    ASSUME NEW m, NEW u, NEW r, StacksFit(u, r, m), u # <<>>
    PROVE  /\ StacksFit(Front(u), Append(r, Last(u)), m)
           /\ StepsIn(Front(u)) \cup StepsIn(Append(r, Last(u))) = StepsIn(u) \cup StepsIn(r)
<1> DEFINE e == Last(u)
           w == Append(r, e)
<1>1. u \in Seq(Seq(1..m)) /\ r \in Seq(Seq(1..m)) /\ Apart(u, r)
  BY DEF StacksFit
<1>2. StacksFit(Front(u), r, m)
  BY FrontFits
<1>3. e \in Seq(1..m) /\ Len(u) \in Nat \ {0} /\ Len(Front(u)) = Len(u) - 1
      /\ Front(u) \in Seq(Seq(1..m))
  BY <1>1, FrontOf
<1>4. w \in Seq(Seq(1..m)) /\ StepsIn(w) = StepsIn(r) \cup Range(e) /\ Range(w) = Range(r) \cup {e}
  BY <1>1, <1>3, AppendProperties, StepsOfAppend, RangeOfAppend
<1>5. StepsIn(u) = StepsIn(Front(u)) \cup Range(e)
  BY <1>1, StepsOfFront
<1>6. Apart(Front(u), w)
  <2>1. Range(e) \cap (StepsIn(r) \cup StepsIn(Front(u))) = {} /\ Apart(r, Front(u))
    BY <1>1, ApartFront, ApartSwap
  <2> HIDE DEF e
  <2>2. Apart(Append(r, e), Front(u))
    BY <1>1, <1>3, <2>1, ApartAppend
  <2> QED
    BY <2>2, ApartSwap
<1>7. Len(Front(u)) + Cardinality(Range(w) \ {<<>>}) <= MaxEntries
  <2> DEFINE R == Range(r) \ {<<>>}
             W == Range(w) \ {<<>>}
  <2>1. IsFiniteSet(R) /\ IsFiniteSet(W)
    BY <1>1, <1>4, RangeIsFinite
  <2>2. W \subseteq R \cup {e}
    BY <1>4
  <2> HIDE DEF R, W
  <2>3. Cardinality(W) <= Cardinality(R \cup {e})
    BY <2>1, <2>2, FS_AddElement, FS_Subset
  <2>4. Cardinality(R \cup {e}) \in Nat /\ Cardinality(R) \in Nat /\ Cardinality(W) \in Nat
    BY <2>1, FS_AddElement, FS_CardinalityType
  <2>5. Cardinality(R \cup {e}) <= Cardinality(R) + 1
    <3>1. Cardinality(R \cup {e}) = IF e \in R THEN Cardinality(R) ELSE Cardinality(R) + 1
      BY <2>1, FS_AddElement
    <3> QED
      BY <2>4, <3>1
  <2>6. Len(u) + Cardinality(R) <= MaxEntries
    BY DEF StacksFit, R
  <2>7. \A a \in Nat \ {0}, c, d, q, x \in Nat :
          a + c <= x /\ d <= c + 1 /\ q <= d => (a - 1) + q <= x
    OBVIOUS
  <2>8. Len(Front(u)) + Cardinality(W) <= MaxEntries
    BY <1>3, <2>3, <2>4, <2>5, <2>6, <2>7, BudgetAssumption
  <2> QED
    BY <2>8 DEF W
<1> HIDE DEF w, e
<1>8. StacksFit(Front(u), w, m)
  BY <1>2, <1>4, <1>6, <1>7 DEF StacksFit
<1>9. StepsIn(Front(u)) \cup StepsIn(w) = StepsIn(u) \cup StepsIn(r)
  BY <1>4, <1>5
<1> QED
  BY <1>8, <1>9 DEF w, e

\* The stack u with the entry e again, if it has steps.
Regrown(v, u, e) == IF e = <<>> THEN v = u ELSE v = Append(u, e)

LEMMA RedoneFits ==
    ASSUME NEW m, NEW u, NEW r, StacksFit(u, r, m), r # <<>>,
           NEW v, Regrown(v, u, Last(r))
    PROVE  /\ StacksFit(v, Front(r), m)
           /\ StepsIn(v) \cup StepsIn(Front(r)) = StepsIn(u) \cup StepsIn(r)
<1> DEFINE e == Last(r)
           w == Front(r)
<1>1. u \in Seq(Seq(1..m)) /\ r \in Seq(Seq(1..m)) /\ Apart(u, r) /\ Apart(r, u)
  BY ApartSwap DEF StacksFit
<1>2. /\ e \in Seq(1..m) /\ w \in Seq(Seq(1..m)) /\ Range(r) = Range(w) \cup {e}
      /\ StepsIn(r) = StepsIn(w) \cup Range(e)
  BY <1>1, FrontOf, RangeOfFront, StepsOfFront
<1>3. Apart(w, u) /\ Apart(u, w) /\ Range(e) \cap (StepsIn(w) \cup StepsIn(u)) = {}
  BY <1>1, ApartFront, ApartSwap
<1> DEFINE R == Range(r) \ {<<>>}
           W == Range(w) \ {<<>>}
<1>4. IsFiniteSet(R) /\ IsFiniteSet(W) /\ W \subseteq R
  BY <1>1, <1>2, RangeIsFinite
<1>5. Len(u) + Cardinality(R) <= MaxEntries /\ Len(u) \in Nat
  BY <1>1 DEF StacksFit
<1>6. e # <<>> => e \in R /\ e \notin W
  <2>1. SUFFICES ASSUME e # <<>> PROVE e \in R /\ e \notin W
    OBVIOUS
  <2>2. e[1] \in Range(e)
    <3>1. Len(e) \in Nat /\ Len(e) # 0 /\ DOMAIN e = 1..Len(e)
      BY <1>2, <2>1, EmptySeq, LenProperties
    <3> QED
      BY <3>1 DEF Range
  <2>3. e \in Range(w) => e[1] \in StepsIn(w)
    BY <2>2 DEF StepsIn, Range
  <2> QED
    BY <1>2, <1>3, <2>1, <2>2, <2>3
<1>10. (e = <<>> => v = u) /\ (e # <<>> => v = Append(u, e))
  BY DEF Regrown
<1> HIDE DEF e, w, R, W
<1>7. Cardinality(R) \in Nat /\ Cardinality(W) \in Nat /\ Cardinality(W) <= Cardinality(R)
  BY <1>4, FS_CardinalityType, FS_Subset
<1>8. CASE e = <<>>
  <2>1. v = u /\ Range(e) = {}
    BY <1>8, <1>10 DEF Range
  <2>2. Len(u) + Cardinality(W) <= MaxEntries
    <3>1. \A a, c, d, x \in Nat : a + c <= x /\ d <= c => a + d <= x
      OBVIOUS
    <3> QED
      BY <1>5, <1>7, <3>1, BudgetAssumption
  <2>3. StacksFit(v, w, m)
    BY <1>1, <1>2, <1>3, <2>1, <2>2 DEF StacksFit, W
  <2> QED
    BY <1>2, <2>1, <2>3 DEF w
<1>9. CASE e # <<>>
  <2>1. /\ v = Append(u, e) /\ v \in Seq(Seq(1..m)) /\ Len(v) = Len(u) + 1
        /\ StepsIn(v) = StepsIn(u) \cup Range(e)
        /\ DOMAIN u = 1..Len(u) /\ DOMAIN v = 1..(Len(u) + 1)
        /\ \A i \in 1..Len(u) : v[i] = u[i]
        /\ v[Len(u) + 1] = e
    <3>1. v = Append(u, e)
      BY <1>9, <1>10
    <3>2. e \in Seq(1..m) /\ u \in Seq(Seq(1..m))
      BY <1>1, <1>2 DEF e
    <3>3. PICK a : a = Append(u, e)
      OBVIOUS
    <3>4. /\ a \in Seq(Seq(1..m)) /\ Len(a) = Len(u) + 1 /\ DOMAIN a = 1..(Len(u) + 1)
          /\ \A i \in 1..Len(u) : a[i] = u[i]
          /\ a[Len(u) + 1] = e
      BY <3>2, <3>3, AppendProperties, LenProperties
    <3>5. StepsIn(a) = StepsIn(u) \cup Range(e) /\ DOMAIN u = 1..Len(u)
      BY <3>2, <3>3, StepsOfAppend, LenProperties
    <3> QED
      BY <3>1, <3>3, <3>4, <3>5
  <2>2. \A i \in DOMAIN v : v[i] # <<>>
    <3>1. \A i \in 1..(Len(u) + 1) : i \in 1..Len(u) \/ i = Len(u) + 1
      BY <1>5
    <3> QED
      BY <1>9, <2>1, <3>1 DEF StacksFit
  <2>3. Apart(v, w)
    BY <1>1, <1>2, <1>3, <2>1, ApartAppend
  <2>4. Len(v) + Cardinality(W) <= MaxEntries
    <3>1. Cardinality(W \cup {e}) = Cardinality(W) + 1
      BY <1>4, <1>6, <1>9, FS_AddElement
    <3>2. Cardinality(W \cup {e}) <= Cardinality(R)
      BY <1>4, <1>6, <1>9, FS_Subset
    <3>3. \A a, c, d, x \in Nat : a + c <= x /\ d + 1 <= c => (a + 1) + d <= x
      OBVIOUS
    <3> QED
      BY <1>5, <1>7, <2>1, <3>1, <3>2, <3>3, BudgetAssumption
  <2>5. StacksFit(v, w, m)
    BY <1>2, <2>1, <2>2, <2>3, <2>4 DEF StacksFit, W
  <2> QED
    BY <1>2, <2>1, <2>5 DEF w
<1> QED
  BY <1>8, <1>9

\* A walk back waits with the entries.
LEMMA WalkBackFits ==
    ASSUME NEW m, NEW u, NEW r, StacksFit(u, r, m)
    PROVE  StacksFit(u, Append(r, <<>>), m) /\ StepsIn(Append(r, <<>>)) = StepsIn(r)
<1> DEFINE w == Append(r, <<>>)
<1>1. u \in Seq(Seq(1..m)) /\ r \in Seq(Seq(1..m)) /\ Apart(r, u) /\ <<>> \in Seq(1..m)
      /\ Range(<<>>) = {}
  BY ApartSwap, EmptySeq DEF StacksFit, Range
<1>2. w \in Seq(Seq(1..m)) /\ StepsIn(w) = StepsIn(r) /\ Range(w) = Range(r) \cup {<<>>}
  <2>1. PICK e \in Seq(1..m) : e = <<>>
    BY <1>1
  <2>2. StepsIn(Append(r, e)) = StepsIn(r) \cup Range(e) /\ Range(e) = {}
    BY <1>1, <2>1, StepsOfAppend
  <2>3. Append(r, e) \in Seq(Seq(1..m)) /\ Range(Append(r, e)) = Range(r) \cup {e}
    BY <1>1, AppendProperties, RangeOfAppend
  <2> QED
    BY <2>1, <2>2, <2>3
<1>3. Apart(u, w)
  <2>1. Apart(Append(r, <<>>), u)
    BY <1>1, ApartAppend
  <2> QED
    BY <2>1, ApartSwap
<1>4. Range(w) \ {<<>>} = Range(r) \ {<<>>}
  BY <1>2
<1> HIDE DEF w
<1>5. StacksFit(u, w, m)
  BY <1>2, <1>3, <1>4 DEF StacksFit
<1> QED
  BY <1>2, <1>5 DEF w

\* Stacks the trim has taken entries from.
LEMMA LeftFits ==
    ASSUME NEW m, NEW u, NEW r, NEW D, StacksFit(u, r, m), Left(u, r, D),
           NEW w, RunFits(w, u, m)
    PROVE  /\ StacksFit(undo', redo', m) /\ RunFits(w, undo', m)
           /\ u # <<>> => undo' # <<>>
           /\ undo' # <<>> => u # <<>> /\ Last(undo') = Last(u)
<1>1. PICK d \in 0..Len(u) : /\ Later(undo', u, d) /\ undo' \in Seq(Seq(StepNo))
                             /\ u # <<>> => d < Len(u)
  BY DEF Left
<1>2. PICK e \in 0..Len(r) : Later(redo', r, e) /\ redo' \in Seq(Seq(StepNo))
  BY DEF Left
<1>3. u \in Seq(Seq(1..m)) /\ r \in Seq(Seq(1..m)) /\ Apart(u, r)
  BY DEF StacksFit
<1>4. /\ undo' \in Seq(Seq(1..m)) /\ Len(undo') <= Len(u) /\ Len(u) \in Nat
      /\ redo' \in Seq(Seq(1..m)) /\ Range(redo') \subseteq Range(r)
  <2>1. undo' \in Seq(Seq(1..m)) /\ Len(undo') <= Len(u) /\ Len(u) \in Nat
    BY <1>1, <1>3, LaterOfSame
  <2>2. redo' \in Seq(Seq(1..m)) /\ Range(redo') \subseteq Range(r)
    BY <1>2, <1>3, LaterOfSame
  <2> QED
    BY <2>1, <2>2
<1>5. /\ Len(undo') = Len(u) - d /\ DOMAIN undo' = 1..Len(undo') /\ DOMAIN u = 1..Len(u)
      /\ Len(redo') = Len(r) - e /\ DOMAIN redo' = 1..Len(redo') /\ DOMAIN r = 1..Len(r)
      /\ Len(r) \in Nat /\ Len(u) \in Nat
  BY <1>1, <1>2, <1>3, <1>4, LenProperties DEF Later
<1>6. \A i \in DOMAIN undo' : i + d \in DOMAIN u /\ undo'[i] = u[i + d]
  <2>1. Len(u) \in Nat
    BY <1>5
  <2>2. \A i \in 1..(Len(u) - d) : i + d \in 1..Len(u)
    BY <2>1
  <2> QED
    BY <1>1, <1>5, <2>2 DEF Later
<1>7. \A i \in DOMAIN redo' : i + e \in DOMAIN r /\ redo'[i] = r[i + e]
  <2>1. Len(r) \in Nat
    BY <1>5
  <2>2. \A i \in 1..(Len(r) - e) : i + e \in 1..Len(r)
    BY <2>1
  <2> QED
    BY <1>2, <1>5, <2>2 DEF Later
<1>8. Apart(undo', redo')
  <2>1. ASSUME NEW i \in DOMAIN undo', NEW j \in DOMAIN undo', i # j
        PROVE  Range(undo'[i]) \cap Range(undo'[j]) = {}
    <3>1. i + d # j + d
      BY <1>5, <2>1
    <3> QED
      BY <1>3, <1>6, <3>1 DEF Apart
  <2>2. ASSUME NEW i \in DOMAIN redo', NEW j \in DOMAIN redo', i # j
        PROVE  Range(redo'[i]) \cap Range(redo'[j]) = {}
    <3>1. i + e # j + e
      BY <1>5, <2>2
    <3> QED
      BY <1>3, <1>7, <3>1 DEF Apart
  <2>3. ASSUME NEW i \in DOMAIN undo', NEW j \in DOMAIN redo'
        PROVE  Range(undo'[i]) \cap Range(redo'[j]) = {}
    BY <1>3, <1>6, <1>7 DEF Apart
  <2> QED
    BY <2>1, <2>2, <2>3 DEF Apart
<1>9. Len(undo') + Cardinality(Range(redo') \ {<<>>}) <= MaxEntries
  <2> DEFINE R == Range(r) \ {<<>>}
             W == Range(redo') \ {<<>>}
  <2>1. IsFiniteSet(R) /\ W \subseteq R /\ IsFiniteSet(W)
    BY <1>3, <1>4, RangeIsFinite
  <2>2. Len(u) + Cardinality(R) <= MaxEntries
    BY DEF StacksFit
  <2> HIDE DEF R, W
  <2>3. Cardinality(W) <= Cardinality(R) /\ Cardinality(W) \in Nat /\ Cardinality(R) \in Nat
    BY <2>1, FS_Subset, FS_CardinalityType
  <2>4. Len(undo') \in Nat
    BY <1>4
  <2>5. \A a, b, c, q, x \in Nat : a + c <= x /\ b <= a /\ q <= c => b + q <= x
    OBVIOUS
  <2>6. Len(undo') + Cardinality(W) <= MaxEntries
    BY <1>4, <2>2, <2>3, <2>4, <2>5, BudgetAssumption
  <2> QED
    BY <2>6 DEF W
<1>10. StacksFit(undo', redo', m)
  BY <1>4, <1>6, <1>8, <1>9 DEF StacksFit
<1>11. RunFits(w, undo', m)
  <2>1. w.on => Len(undo') <= w.depth + w.pushed - w.retracted
    <3>1. Len(undo') \in Nat /\ Len(u) \in Nat /\ Len(undo') <= Len(u)
      BY <1>4
    <3>2. w.depth \in Int /\ w.pushed \in Int /\ w.retracted \in Int
          /\ (w.on => Len(u) <= w.depth + w.pushed - w.retracted)
      BY BudgetAssumption DEF RunFits, RunsOf
    <3> QED
      BY <3>1, <3>2
  <2>2. ASSUME WholeOf(w), NEW i \in DOMAIN undo', i > w.depth
        PROVE  Range(undo'[i]) \subseteq w.own
    <3>1. w.depth \in Int
      BY BudgetAssumption DEF RunFits, RunsOf
    <3>2. i + d > w.depth
      BY <1>5, <2>2, <3>1
    <3> QED
      BY <1>6, <2>2, <3>2 DEF RunFits
  <2> QED
    BY <2>1, <2>2 DEF RunFits
<1>12. u # <<>> => undo' # <<>>
  <2>1. SUFFICES ASSUME u # <<>> PROVE undo' # <<>>
    OBVIOUS
  <2>2. Len(undo') > 0
    BY <1>1, <1>5, <2>1
  <2> QED
    BY <2>2, Len(<<>>) = 0
<1>13. ASSUME undo' # <<>> PROVE u # <<>> /\ Last(undo') = Last(u)
  <2>1. Len(undo') \in Nat \ {0} /\ Len(undo') \in DOMAIN undo'
    <3>1. Len(undo') \in Nat /\ Len(undo') # 0
      BY <1>4, <1>13, EmptySeq
    <3> QED
      BY <1>5, <3>1
  <2>2. Len(undo') + d = Len(u) /\ Len(u) # 0
    BY <1>5, <2>1
  <2>3. undo'[Len(undo')] = u[Len(u)]
    BY <1>6, <2>1, <2>2
  <2> QED
    BY <2>2, <2>3, Len(<<>>) = 0 DEF Last
<1> QED
  BY <1>10, <1>11, <1>12, <1>13

\* A hold let go: what it folds is its own.
LEMMA LetGoFits ==
    ASSUME StacksFit(undo, redo, made), RunFits(run, undo, made)
    PROVE  /\ StacksFit(LetGo, redo, made) /\ StepsIn(LetGo) = StepsIn(undo)
           /\ undo # <<>> => LetGo # <<>>
           /\ ~CanTakeBack => LetGo = undo
           /\ LetGo # undo => Range(Last(LetGo)) \subseteq run.own
           /\ undo # <<>> => Range(Last(undo)) \subseteq Range(Last(LetGo))
<1>1. undo \in Seq(Seq(1..made)) /\ redo \in Seq(Seq(1..made)) /\ Apart(undo, redo)
  BY DEF StacksFit
<1>2. CASE ~Folds
  <2>1. LetGo = undo
    BY <1>2 DEF LetGo
  <2> QED
    BY <2>1
<1>3. CASE Folds
  <2> DEFINE d == run.depth
             n == Len(undo)
             lo == SubSeq(undo, 1, d)
             hi == SubSeq(undo, d + 1, n)
             e == FlattenSeq(hi)
  <2>1. d \in Nat /\ n \in Nat /\ n = d + Kept /\ Kept \in Int /\ Kept >= 2
    BY <1>1, <1>3, BudgetAssumption DEF Folds, Kept, RunFits, RunsOf
  <2>2. d \in 0..n /\ d + 2 <= n
    BY <2>1
  <2>3. CanTakeBack
    <3>1. n > d
      BY <2>1, <2>2
    <3> QED
      BY <1>3, <3>1 DEF CanTakeBack, Folds
  <2>4. LetGo = Append(lo, e)
    BY <1>3 DEF LetGo
  <2>5. hi \in Seq(Seq(1..made)) /\ Later(hi, undo, d)
    BY <1>1, <2>2, DropDeep
  <2>6. /\ lo \in Seq(Seq(1..made)) /\ Len(lo) = d /\ DOMAIN lo = 1..d /\ DOMAIN undo = 1..n
        /\ \A i \in 1..d : lo[i] = undo[i] /\ i \in 1..n
    <3>1. \A i \in 1..d : i \in 1..n
      BY <2>1, <2>2
    <3>2. \A i \in 1..d : undo[i] \in Seq(1..made)
      BY <1>1, <3>1
    <3>3. lo \in Seq(Seq(1..made)) /\ Len(lo) = d /\ \A i \in 1..d : lo[i] = undo[i]
      BY <2>1, <3>2, SubSeqProperties
    <3> QED
      BY <1>1, <3>1, <3>3, LenProperties
  <2> HIDE DEF lo
  <2>7. /\ StepsIn(undo) = StepsIn(lo) \cup StepsIn(hi)
        /\ \A m \in StepsIn(hi) : \E i \in (d + 1)..n : m \in Range(undo[i])
    <3>1. /\ StepsIn(undo) = StepsIn(SubSeq(undo, 1, d)) \cup StepsIn(hi)
          /\ \A m \in StepsIn(hi) : \E i \in (d + 1)..Len(undo) : m \in Range(undo[i])
      <4> HIDE DEF hi, d
      <4> QED
        BY <1>1, <2>2, <2>5, StepsSplit
    <3> QED
      BY <3>1 DEF lo
  <2>8. e \in Seq(1..made) /\ e # <<>> /\ Range(e) = StepsIn(hi)
    <3>1. hi # <<>> /\ \A i \in 1..Len(hi) : hi[i] # <<>>
      <4>1. Len(hi) = n - d /\ \A i \in 1..(n - d) : hi[i] = undo[i + d]
        BY <2>5 DEF Later
      <4>2. Len(hi) > 0 /\ \A i \in 1..(n - d) : i + d \in 1..n
        <5>1. \A a \in Nat, b \in Nat : a + 2 <= b => b - a > 0 /\ \A i \in 1..(b - a) : i + a \in 1..b
          OBVIOUS
        <5> HIDE DEF d, n, hi
        <5> QED
          BY <2>1, <2>2, <4>1, <5>1
      <4>3. \A i \in 1..n : undo[i] # <<>>
        BY <2>6 DEF StacksFit
      <4> HIDE DEF hi, n
      <4> QED
        BY <4>1, <4>2, <4>3, Len(<<>>) = 0
    <3> HIDE DEF hi
    <3> QED
      BY <2>5, <3>1, FlattenIsOneOfAll
  <2> HIDE DEF hi, e
  <2>9. \A m \in Range(e) : \E i \in (d + 1)..n : m \in Range(undo[i])
    BY <2>7, <2>8
  <2>10. \A i \in (d + 1)..n : i \in 1..n /\ i > d /\ \A j \in 1..d : i # j
    BY <2>1, <2>2
  <2>11. Range(e) \subseteq run.own
    <3>1. WholeOf(run)
      BY <1>3 DEF Folds, Whole, WholeOf
    <3>2. \A i \in (d + 1)..n : Range(undo[i]) \subseteq run.own
      BY <2>6, <2>10, <3>1 DEF RunFits
    <3> QED
      BY <2>9, <3>2
  <2>12. Apart(lo, redo) /\ Range(e) \cap (StepsIn(lo) \cup StepsIn(redo)) = {}
    <3>1. Apart(lo, redo)
      BY <1>1, <2>6 DEF Apart
    <3>2. ASSUME NEW m \in Range(e), m \in StepsIn(lo) PROVE FALSE
      <4>1. PICK i \in (d + 1)..n : m \in Range(undo[i])
        BY <2>9
      <4>2. PICK j \in 1..d : m \in Range(lo[j])
        BY <2>6, <3>2, StepOf
      <4> QED
        BY <1>1, <2>6, <2>10, <4>1, <4>2 DEF Apart
    <3>3. ASSUME NEW m \in Range(e), m \in StepsIn(redo) PROVE FALSE
      <4>1. PICK i \in (d + 1)..n : m \in Range(undo[i])
        BY <2>9
      <4>2. PICK j \in DOMAIN redo : m \in Range(redo[j])
        BY <3>3, StepOf
      <4> QED
        BY <1>1, <2>6, <2>10, <4>1, <4>2 DEF Apart
    <3> QED
      BY <3>1, <3>2, <3>3
  <2> DEFINE g == Append(lo, e)
  <2>13. /\ g \in Seq(Seq(1..made)) /\ Len(g) = d + 1 /\ DOMAIN g = 1..(d + 1)
         /\ \A i \in 1..d : g[i] = lo[i]
         /\ g[d + 1] = e
         /\ StepsIn(g) = StepsIn(lo) \cup Range(e)
    BY <2>6, <2>8, AppendProperties, LenProperties, StepsOfAppend
  <2>14. Apart(g, redo)
    BY <1>1, <2>6, <2>8, <2>12, ApartAppend
  <2> HIDE DEF g
  <2>15. \A i \in DOMAIN g : g[i] # <<>>
    <3>1. \A i \in 1..(d + 1) : i \in 1..d \/ i = d + 1
      BY <2>1
    <3> QED
      BY <2>6, <2>8, <2>13, <3>1 DEF StacksFit
  <2>16. Len(g) + Cardinality(Range(redo) \ {<<>>}) <= MaxEntries
    <3>1. n + Cardinality(Range(redo) \ {<<>>}) <= MaxEntries
      BY DEF StacksFit
    <3>2. Cardinality(Range(redo) \ {<<>>}) \in Nat
      BY <1>1, RangeIsFinite, FS_CardinalityType
    <3>3. \A a, b, c, x \in Nat : a + c <= x /\ b + 2 <= a => (b + 1) + c <= x
      OBVIOUS
    <3> QED
      BY <2>1, <2>2, <2>13, <3>1, <3>2, <3>3, BudgetAssumption
  <2>17. StacksFit(g, redo, made) /\ g # <<>> /\ Last(g) = e
    <3>1. Len(g) > 0
      BY <2>1, <2>13
    <3> QED
      BY <1>1, <2>13, <2>14, <2>15, <2>16, <3>1, Len(<<>>) = 0 DEF StacksFit, Last
  <2>18. StepsIn(g) = StepsIn(undo)
    BY <2>7, <2>8, <2>13
  <2>19. Range(Last(undo)) \subseteq Range(e)
    <3>1. n - d \in 1..(n - d) /\ (n - d) + d = n
      BY <2>1, <2>2
    <3>2. n - d \in DOMAIN hi /\ hi[n - d] = undo[n]
      BY <2>5, <3>1, LenProperties DEF Later
    <3>3. Last(undo) = hi[n - d]
      BY <3>2 DEF Last
    <3> HIDE DEF n, d
    <3> QED
      BY <2>8, <3>2, <3>3, StepOf
  <2> QED
    BY <2>3, <2>4, <2>11, <2>17, <2>18, <2>19 DEF g
<1> QED
  BY <1>2, <1>3

-----------------------------------------------------------------------------
(* Steps made.                                                              *)

LEMMA PaintedIsPic ==
    ASSUME NEW n \in 0..MaxEdits, NEW stroke \in Strokes, NEW p \in Pic
    PROVE  Painted(n, stroke, p) \in Pic
<1>1. stroke \in [Place -> Effect] /\ p \in [Place -> 0..MaxEdits] /\ 0 \in 0..MaxEdits
  BY StrokeAssumption, BudgetAssumption DEF Pic
<1>2. ASSUME NEW x \in Place
      PROVE  (CASE stroke[x] = "keep"  -> p[x]
                [] stroke[x] = "draw"  -> n
                [] stroke[x] = "erase" -> 0) \in 0..MaxEdits
  <2>1. stroke[x] = "keep" \/ stroke[x] = "draw" \/ stroke[x] = "erase"
    BY <1>1 DEF Effect
  <2>2. p[x] \in 0..MaxEdits
    BY <1>1
  <2> QED
    BY <1>1, <2>1, <2>2
<1> QED
  BY <1>2 DEF Painted, Pic

\* A pair of snapshots, both held.
LEMMA PairFits ==
    ASSUME NEW b \in Pic, NEW a \in Pic
    PROVE  Pair(b, a) \in [Half -> Snapshots] /\ \A h \in Half : Pair(b, a)[h].at = "held"
BY DEF Pair, Snapshot, Snapshots, Half, Pic

\* The snapshots st with the pair of step n filed.
Filed(n, pair, st, ot) ==
    /\ SnapsFit(ot) /\ DOMAIN ot = DOMAIN st \cup {n} /\ ot[n] = pair
    /\ \A m \in DOMAIN st : m # n => ot[m] = st[m]

\* A pair filed.
LEMMA FilingFits ==
    ASSUME NEW st, SnapsFit(st), NEW n, NEW pair, pair \in [Half -> Snapshots],
           NEW ot, ot = Filing(n, pair, st)
    PROVE  Filed(n, pair, st, ot)
BY DEF Filing, SnapsFit, Filed

\* The undo stack as a push of e leaves it to the trim, d entries fallen off.
Pushed(v, e) == \E d \in 0..Len(undo) : Later(v, Append(undo, e), d)

\* A new entry pushed: nothing of it is in the room, and redo's files go.
LEMMA PushHolds ==
    ASSUME made \in Nat, StacksFit(undo, redo, made), Given(undo, redo, steps, files),
           PassFits(spill, steps),
           NEW m \in Nat, made <= m, m <= MaxEdits,
           NEW e \in Seq(1..m), e # <<>>, Range(e) \cap (1..made) = {},
           NEW st, SnapsFit(st), DOMAIN st = DOMAIN steps \cup Range(e),
           \A n \in DOMAIN steps : st[n] = steps[n],
           \A n \in Range(e), h \in Half : st[n][h].at = "held",
           Push(e, st)
    PROVE  \E v : /\ Pushed(v, e) /\ StacksFit(v, <<>>, m) /\ v # <<>> /\ Last(v) = e
                  /\ Left(v, <<>>, DOMAIN st) /\ stood' \in Stands
<1> DEFINE g == Append(undo, e)
           d == IF Len(g) > MaxEntries THEN Len(g) - MaxEntries ELSE 0
           v == SubSeq(g, d + 1, Len(g))
           n == Len(undo)
<1>1. /\ undo \in Seq(Seq(1..made)) /\ redo \in Seq(Seq(1..made)) /\ Apart(undo, redo)
      /\ Seq(1..made) \subseteq Seq(1..m) /\ Seq(1..m) \subseteq Seq(StepNo)
  <2>1. 1..made \subseteq 1..m /\ 1..m \subseteq StepNo
    BY BudgetAssumption DEF StepNo
  <2>2. Seq(1..made) \subseteq Seq(1..m) /\ Seq(1..m) \subseteq Seq(StepNo)
    BY <2>1, SeqMonotonic
  <2> QED
    BY <2>2 DEF StacksFit
<1>2. undo \in Seq(Seq(1..m)) /\ redo \in Seq(Seq(1..m))
  BY <1>1, SeqMonotonic
<1>3. /\ g \in Seq(Seq(1..m)) /\ Len(g) = n + 1 /\ n \in Nat /\ DOMAIN g = 1..(n + 1)
      /\ \A i \in 1..n : g[i] = undo[i]
      /\ g[n + 1] = e /\ StepsIn(g) = StepsIn(undo) \cup Range(e)
      /\ DOMAIN undo = 1..n
  BY <1>2, AppendProperties, LenProperties, StepsOfAppend
<1>4. g \in Seq(Seq(StepNo)) /\ redo \in Seq(Seq(StepNo))
  BY <1>1, <1>2, <1>3, SeqMonotonic
<1>5. Apart(g, redo)
  <2>1. StepsIn(undo) \subseteq 1..made /\ StepsIn(redo) \subseteq 1..made
    <3>1. ASSUME NEW s \in Seq(Seq(1..made)), NEW k \in StepsIn(s) PROVE k \in 1..made
      <4>1. PICK i \in DOMAIN s : k \in Range(s[i])
        BY StepOf
      <4>2. s[i] \in Seq(1..made)
        BY <4>1
      <4> QED
        BY <4>1, <4>2, RangeOfSeq
    <3> QED
      BY <1>1, <3>1
  <2>2. Range(e) \cap (StepsIn(undo) \cup StepsIn(redo)) = {}
    BY <2>1
  <2>3. Apart(Append(undo, e), redo)
    BY <1>1, <1>2, <2>2, ApartAppend
  <2> QED
    BY <2>3
<1>6. n <= MaxEntries
  <2>1. Cardinality(Range(redo) \ {<<>>}) \in Nat
    BY <1>1, RangeIsFinite, FS_CardinalityType
  <2>2. n + Cardinality(Range(redo) \ {<<>>}) <= MaxEntries
    BY DEF StacksFit
  <2> HIDE DEF n
  <2> QED
    BY <1>3, <2>1, <2>2, BudgetAssumption
<1> HIDE DEF g, n
<1>7. d \in 0..1 /\ d <= n /\ d \in 0..Len(g) /\ Len(g) - d <= MaxEntries /\ Len(g) - d \in Nat \ {0}
  <2>1. Len(g) \in Nat /\ MaxEntries \in Nat \ {0}
    BY <1>3, BudgetAssumption
  <2> QED
    BY <1>3, <1>6, <2>1
<1> HIDE DEF d
<1>8. v \in Seq(Seq(1..m)) /\ Later(v, g, d)
  BY <1>3, <1>7, DropDeep
<1>9. v \in Seq(Seq(StepNo))
  BY <1>1, <1>8, SeqMonotonic
<1>10. Given(g, redo, st, files)
  <2>1. StepsIn(g) \cup StepsIn(redo) \subseteq DOMAIN st
    BY <1>3 DEF Given
  <2>2. Parked(g, redo, st) = Parked(undo, redo, steps)
    <3>1. ASSUME NEW f \in FilesOf(g) \cup FilesOf(redo), st[f[1]][f[2]].at = "room"
          PROVE  f \in Parked(undo, redo, steps)
      <4>1. f[1] \in StepsIn(undo) \cup StepsIn(redo) \cup Range(e) /\ f[2] \in Half
            /\ f = <<f[1], f[2]>>
        BY <1>3 DEF FilesOf
      <4>2. f[1] \notin Range(e)
        BY <3>1, <4>1
      <4> QED
        BY <3>1, <4>1, <4>2 DEF Parked, FilesOf, Given
    <3>2. ASSUME NEW f \in Parked(undo, redo, steps) PROVE f \in Parked(g, redo, st)
      BY <1>3, <3>2 DEF Parked, FilesOf, Given
    <3> QED
      BY <3>1, <3>2 DEF Parked
  <2> QED
    BY <1>4, <1>5, <2>1, <2>2 DEF Given, Exact
<1> DEFINE gs == files \ (FilesOf(SubSeq(g, 1, d)) \cup FilesOf(redo))
<1>11. Given(v, <<>>, st, gs)
  <2>1. Len(redo) \in Nat /\ Len(redo) \in 0..Len(redo)
    BY <1>4
  <2>2. SubSeq(redo, 1, Len(redo)) = redo
    <3>1. \A i \in 1..Len(redo) : redo[i] \in Seq(StepNo)
      BY <1>4
    <3> QED
      BY <1>4, <2>1, <3>1, SubSeqProperties, SeqEqual
  <2>3. PICK none \in Seq(Seq(StepNo)) : none = <<>>
    BY EmptySeq
  <2>4. Later(none, redo, Len(redo))
    BY <2>1, <2>3 DEF Later
  <2>5. PICK k : k = Len(redo)
    OBVIOUS
  <2> HIDE DEF v
  <2>6. Given(v, none, st, files \ (FilesOf(SubSeq(g, 1, d)) \cup FilesOf(SubSeq(redo, 1, k))))
    BY <1>7, <1>8, <1>9, <1>10, <2>1, <2>4, <2>5, LaterGiven
  <2> QED
    BY <2>2, <2>3, <2>5, <2>6
<1>12. PassFits(spill, st)
  <2>1. CASE spill = Idle
    BY <2>1, IdleFits
  <2>2. CASE spill # Idle
    <3>1. 1 \in DOMAIN spill.rest
      BY <2>2, EmptySeq, LenProperties DEF PassFits
    <3>2. spill.rest[1][1] \in DOMAIN steps
      BY <3>1 DEF PassFits, RestSteps, Range
    <3> QED
      BY <2>2, <3>2 DEF PassFits
  <2> QED
    BY <2>1, <2>2
<1>13. Trim(v, <<>>, st, gs, "no")
  BY DEF Push, g, d
<1>14. Pushed(v, e)
  BY <1>3, <1>7, <1>8 DEF Pushed, g, n
<1> HIDE DEF gs, v
<1>15. Left(v, <<>>, DOMAIN st) /\ stood' \in Stands
  <2>1. "no" \in Stands
    BY DEF Stands
  <2>2. PICK none : none = <<>>
    OBVIOUS
  <2> QED
    BY <1>11, <1>12, <1>13, <2>1, <2>2, TrimHolds
<1>16. Len(v) = Len(g) - d /\ Len(v) \in Nat \ {0} /\ DOMAIN v = 1..Len(v)
  BY <1>7, <1>8, LenProperties DEF Later
<1>17. v # <<>> /\ Last(v) = e
  <2>1. Len(v) + d = n + 1 /\ Len(v) \in 1..Len(v)
    BY <1>3, <1>7, <1>16
  <2>2. v[Len(v)] = g[n + 1]
    BY <1>8, <1>16, <2>1 DEF Later
  <2> QED
    BY <1>3, <1>16, <2>2, Len(<<>>) = 0 DEF Last
<1>18. StacksFit(v, <<>>, m)
  <2>1. \A i \in DOMAIN v : i + d \in DOMAIN g /\ v[i] = g[i + d]
    <3>1. \A i \in 1..(Len(g) - d) : i + d \in 1..Len(g)
      BY <1>3, <1>7
    <3> QED
      BY <1>3, <1>8, <1>16, <3>1 DEF Later
  <2>2. \A i \in DOMAIN v : v[i] # <<>>
    <3>1. \A i \in 1..(n + 1) : i \in 1..n \/ i = n + 1
      BY <1>3
    <3> QED
      BY <1>3, <2>1, <3>1 DEF StacksFit
  <2>3. Apart(v, <<>>)
    BY <1>11 DEF Given
  <2>4. Range(<<>>) \ {<<>>} = {} /\ Cardinality({}) = 0
    BY FS_EmptySet DEF Range
  <2>5. Len(v) + 0 <= MaxEntries
    BY <1>7, <1>16
  <2>6. <<>> \in Seq(Seq(1..m))
    BY EmptySeq
  <2> QED
    BY <1>8, <2>2, <2>3, <2>4, <2>5, <2>6 DEF StacksFit
<1> QED
  BY <1>14, <1>15, <1>17, <1>18

\* What an operation gives to the trim is there at the start.
LEMMA InvGiven ==
    ASSUME IInv
    PROVE  Given(undo, redo, steps, files)
<1>1. made \in 0..MaxEdits
  BY DEF IInv, RestHolds
<1>2. 1..made \subseteq StepNo
  BY <1>1, BudgetAssumption DEF StepNo
<1>3. Seq(1..made) \subseteq Seq(StepNo)
  BY <1>2, SeqMonotonic
<1>4. undo \in Seq(Seq(StepNo)) /\ redo \in Seq(Seq(StepNo))
  BY <1>3, SeqMonotonic DEF IInv, StacksFit
<1> QED
  BY <1>4 DEF IInv, StacksFit, StepsHold, Given

\* The other half of a step; and a half owns the tiles the other has not.
Other(half) == IF half = "before" THEN "after" ELSE "before"
OwnsApart(s, p) == s.own = {x \in Place : s.pic[x] # 0 /\ s.pic[x] # p[x]}
Sided(st) == \A n \in DOMAIN st, h \in Half : OwnsApart(st[n][h], st[n][Other(h)].pic)

\* Each step of entry e was made on the picture the one before it left.
Joined(e, st) == \A i \in 1..(Len(e) - 1) : st[e[i]].after.pic = st[e[i + 1]].before.pic

\* A pair of snapshots filed: each half owns what the other has not.
LEMMA PairSided ==
    ASSUME NEW b \in Pic, NEW a \in Pic
    PROVE  /\ Pair(b, a).before.pic = b /\ Pair(b, a).after.pic = a
           /\ \A h \in Half : OwnsApart(Pair(b, a)[h], Pair(b, a)[Other(h)].pic)
  BY DEF Pair, Snapshot, OwnsApart, Half, Other

\* Filed over others, halves own apart.
LEMMA FilingSided ==
    ASSUME NEW st, Sided(st), NEW n, n \notin DOMAIN st, NEW b \in Pic, NEW a \in Pic,
           NEW ot, Filed(n, Pair(b, a), st, ot)
    PROVE  Sided(ot) /\ ot[n].before.pic = b /\ ot[n].after.pic = a
<1>1. PICK pair : pair = Pair(b, a)
  OBVIOUS
<1>2. /\ pair.before.pic = b /\ pair.after.pic = a
      /\ \A h \in Half : OwnsApart(pair[h], pair[Other(h)].pic)
  BY <1>1, PairSided
<1>3. /\ DOMAIN ot = DOMAIN st \cup {n} /\ ot[n] = pair
      /\ \A m \in DOMAIN st : ot[m] = st[m]
  BY <1>1 DEF Filed
<1>4. ASSUME NEW m \in DOMAIN ot, NEW h \in Half
      PROVE  OwnsApart(ot[m][h], ot[m][Other(h)].pic)
  <2>1. CASE m = n
    BY <1>2, <1>3, <2>1
  <2>2. CASE m # n
    BY <1>3, <2>2 DEF Sided
  <2> QED
    BY <2>1, <2>2
<1>5. Sided(ot)
  BY <1>4 DEF Sided
<1> QED
  BY <1>2, <1>3, <1>5

\* Step n filed over st: its halves are the pictures b and a.
FiledStep(n, b, a, st, ot) ==
    /\ SnapsFit(ot) /\ DOMAIN ot = DOMAIN st \cup {n}
    /\ ot[n].before.pic = b /\ ot[n].after.pic = a
    /\ \A h \in Half : ot[n][h].at = "held"
    /\ \A m \in DOMAIN st : ot[m] = st[m]
    /\ Sided(st) => Sided(ot)

\* One step filed.
LEMMA StepFiled ==
    ASSUME NEW st, SnapsFit(st), NEW n, n \notin DOMAIN st, NEW b \in Pic, NEW a \in Pic,
           NEW ot, ot = Filing(n, Pair(b, a), st)
    PROVE  FiledStep(n, b, a, st, ot)
<1>1. PICK pair : pair = Pair(b, a)
  OBVIOUS
<1>2. pair \in [Half -> Snapshots] /\ \A h \in Half : pair[h].at = "held"
  BY <1>1, PairFits
<1>3. Filed(n, pair, st, ot)
  BY <1>1, <1>2, FilingFits
<1>4. Sided(st) => Sided(ot)
  BY <1>1, <1>3, FilingSided
<1>5. pair.before.pic = b /\ pair.after.pic = a
  BY <1>1, PairSided
<1> QED
  BY <1>2, <1>3, <1>4, <1>5 DEF Filed, FiledStep

\* What a draw of strokes hands to its push: the entry e of the next steps,
\* whose pictures lead from the one shown to the one it leaves.
Drawn(strokes, e, st) ==
    /\ Push(e, st) /\ UNCHANGED <<warned, open>>
    /\ made \in Nat /\ made' = made + Len(strokes) /\ made' \in Nat /\ made <= made' /\ made' <= MaxEdits
    /\ e \in Seq(1..made') /\ e # <<>> /\ Range(e) \cap (1..made) = {}
    /\ Len(strokes) = 1 => Range(e) = {made'}
    /\ SnapsFit(st) /\ DOMAIN st = DOMAIN steps \cup Range(e)
    /\ \A n \in DOMAIN steps : st[n] = steps[n]
    /\ \A n \in Range(e), h \in Half : st[n][h].at = "held"
    /\ cel' \in Pic /\ From(e, st) = cel /\ To(e, st) = cel' /\ Joined(e, st)
    /\ Sided(steps) => Sided(st)

\* A draw of one step or two files entry e, and pushes it over the snapshots st.
LEMMA DrawFiles ==
    ASSUME IInv, NEW strokes, NEW s \in Strokes, NEW t \in Strokes,
           strokes = <<s>> \/ strokes = <<s, t>>, Draw(strokes)
    PROVE  \E e, st : Drawn(strokes, e, st)
<1>1. PICK p, first, last, one, both, e :
        /\ p = cel
        /\ first = Painted(made + 1, strokes[1], p)
        /\ last = IF Len(strokes) = 1 THEN first ELSE Painted(made + 1 + 1, strokes[2], first)
        /\ one = Filing(made + 1, Pair(p, first), steps)
        /\ both = IF Len(strokes) = 1 THEN one ELSE Filing(made + 1 + 1, Pair(first, last), one)
        /\ e = [i \in 1..Len(strokes) |-> made + i]
  OBVIOUS
<1>2. /\ made + Len(strokes) <= MaxEdits /\ made' = made + Len(strokes) /\ cel' = last
      /\ UNCHANGED <<warned, open>> /\ Push(e, both)
  BY <1>1 DEF Draw
<1>3. /\ made \in Nat /\ p \in Pic /\ MaxEdits \in Nat /\ SnapsFit(steps)
      /\ DOMAIN steps \subseteq 1..made
  BY <1>1, BudgetAssumption DEF IInv, RestHolds, StepsHold
<1>4. PICK n : /\ n = made + 1 /\ n \in 1..MaxEdits /\ n \notin DOMAIN steps /\ n \notin 1..made
               /\ Len(strokes) \in {1, 2} /\ strokes[1] = s
               /\ Len(strokes) = 2 => strokes[2] = t
  <2>1. Len(strokes) \in {1, 2} /\ strokes[1] = s /\ (Len(strokes) = 2 => strokes[2] = t)
    OBVIOUS
  <2>2. made + 1 \in 1..MaxEdits /\ made + 1 \notin 1..made
    BY <1>2, <1>3, <2>1
  <2> QED
    BY <1>3, <2>1, <2>2
<1>5. first \in Pic
  <2>1. n \in 0..MaxEdits /\ first = Painted(n, s, p)
    BY <1>1, <1>4
  <2> QED
    BY <1>3, <2>1, PaintedIsPic
<1>6. FiledStep(n, p, first, steps, one)
  BY <1>1, <1>3, <1>4, <1>5, StepFiled
<1>7. CASE Len(strokes) = 1
  <2>1. /\ last = first /\ both = one /\ made' = n /\ e = [i \in 1..1 |-> made + i]
    BY <1>1, <1>2, <1>4, <1>7
  <2>2. e = <<n>> /\ e[1] = n
    <3>1. \A i \in 1..1 : made + i = n
      BY <1>4
    <3> QED
      BY <2>1, <3>1
  <2>3. e \in Seq(1..made') /\ e # <<>> /\ Range(e) = {n} /\ Len(e) = 1 /\ Last(e) = n
    <3>1. n \in 1..n
      BY <1>4
    <3>2. e \in Seq(1..n) /\ Len(e) = 1 /\ DOMAIN e = {1}
      BY <2>2, <3>1
    <3> QED
      BY <2>1, <2>2, <3>2, Len(<<>>) = 0 DEF Range, Last
  <2>4. Joined(e, both)
    BY <2>3 DEF Joined
  <2>5. From(e, both) = p /\ To(e, both) = last
    BY <1>6, <2>1, <2>2, <2>3 DEF FiledStep, From, To
  <2>6. /\ made' \in Nat /\ made <= made' /\ made' <= MaxEdits
        /\ Range(e) \cap (1..made) = {}
    BY <1>2, <1>3, <1>4, <2>1, <2>3
  <2>7. Drawn(strokes, e, both)
    BY <1>1, <1>2, <1>3, <1>5, <1>6, <2>1, <2>3, <2>4, <2>5, <2>6 DEF Drawn, FiledStep
  <2> QED
    BY <2>7
<1>8. CASE Len(strokes) = 2
  <2>1. PICK k : /\ k = made + 1 + 1 /\ k # n /\ k \in 1..MaxEdits /\ k = n + 1 /\ k = made + 2
                 /\ k \notin 1..made
    <3>1. /\ made + 1 + 1 # n /\ made + 1 + 1 \in 1..MaxEdits /\ made + 1 + 1 = n + 1
          /\ made + 1 + 1 = made + 2 /\ made + 1 + 1 \notin 1..made
      BY <1>2, <1>3, <1>4, <1>8
    <3> QED
      BY <3>1
  <2>2. /\ last = Painted(k, t, first) /\ both = Filing(k, Pair(first, last), one) /\ made' = k
        /\ e = [i \in 1..2 |-> made + i]
    BY <1>1, <1>2, <1>4, <1>8, <2>1
  <2>3. last \in Pic
    <3>1. k \in 0..MaxEdits
      BY <2>1
    <3> QED
      BY <1>5, <2>2, <3>1, PaintedIsPic
  <2>4. FiledStep(k, first, last, one, both)
    <3>1. SnapsFit(one) /\ k \notin DOMAIN one
      BY <1>3, <1>6, <2>1 DEF FiledStep
    <3> QED
      BY <1>5, <2>2, <2>3, <3>1, StepFiled
  <2>5. /\ e \in Seq(1..made') /\ e # <<>> /\ Range(e) = {n, k} /\ Len(e) = 2 /\ Last(e) = k
        /\ e[1] = n /\ e[2] = k
    <3>1. e = <<n, k>>
      <4>1. \A i \in 1..2 : made + i = IF i = 1 THEN n ELSE k
        BY <1>4, <2>1
      <4>2. e = [i \in 1..2 |-> IF i = 1 THEN n ELSE k]
        BY <2>2, <4>1
      <4> QED
        BY <4>2
    <3>2. n \in 1..k /\ k \in 1..k
      BY <1>4, <2>1
    <3>3. e \in Seq(1..k) /\ Len(e) = 2 /\ DOMAIN e = {1, 2} /\ e[1] = n /\ e[2] = k
      BY <3>1, <3>2
    <3> QED
      BY <2>2, <3>3, Len(<<>>) = 0 DEF Range, Last
  <2>6. Joined(e, both)
    <3>1. \A i \in 1..(Len(e) - 1) : i = 1 /\ i + 1 = 2
      BY <2>5
    <3>2. both[n].after.pic = both[k].before.pic
      BY <1>6, <2>4 DEF FiledStep
    <3> QED
      BY <2>5, <3>1, <3>2 DEF Joined
  <2>7. From(e, both) = p /\ To(e, both) = last
    BY <1>6, <2>4, <2>5 DEF FiledStep, From, To
  <2>8. /\ made' \in Nat /\ made <= made' /\ made' <= MaxEdits
        /\ Range(e) \cap (1..made) = {}
    BY <1>2, <1>3, <1>4, <2>1, <2>2, <2>5
  <2>9. /\ DOMAIN both = DOMAIN steps \cup Range(e) /\ SnapsFit(both)
        /\ \A m \in DOMAIN steps : both[m] = steps[m]
        /\ \A m \in Range(e), h \in Half : both[m][h].at = "held"
        /\ Sided(steps) => Sided(both)
    BY <1>4, <1>6, <2>4, <2>5 DEF FiledStep
  <2>10. Drawn(strokes, e, both)
    BY <1>1, <1>2, <1>3, <1>8, <2>2, <2>3, <2>5, <2>6, <2>7, <2>8, <2>9 DEF Drawn
  <2> QED
    BY <2>10
<1> QED
  BY <1>4, <1>7, <1>8

\* What a step leaves, the undo stack before the trim being v.
Made(v) ==
    /\ made' \in 0..MaxEdits /\ cel' \in Pic /\ UNCHANGED <<warned, open>>
    /\ undo' # <<>> /\ Range(Last(undo')) \cap (1..made) = {}
    /\ stood' \in Stands /\ StacksFit(undo', redo', made')
    /\ StepsHold' /\ PassFits(spill, steps)' /\ Exact(undo, redo, steps, files)'
    /\ DOMAIN steps' \subseteq 1..made'
    /\ \A w : RunFits(w, v, made') => RunFits(w, undo', made')

\* Steps drawn, from the first of them to the trim.
LEMMA DrawHolds ==
    ASSUME IInv, NEW strokes, NEW s \in Strokes, NEW t \in Strokes,
           strokes = <<s>> \/ strokes = <<s, t>>, Draw(strokes)
    PROVE  \E v, e : /\ Pushed(v, e) /\ Made(v) /\ made' = made + Len(strokes)
                     /\ v \in Seq(Seq(1..made')) /\ e \in Seq(1..made')
                     /\ Len(strokes) = 1 => Range(e) = {made'}
<1>1. PICK e, st : Drawn(strokes, e, st)
  BY DrawFiles
<1>2. PICK m : /\ m = made' /\ m \in Nat /\ made \in Nat /\ made <= m /\ m <= MaxEdits
               /\ m \in 0..MaxEdits
               /\ e \in Seq(1..m) /\ e # <<>> /\ Range(e) \cap (1..made) = {}
               /\ SnapsFit(st) /\ DOMAIN st = DOMAIN steps \cup Range(e)
               /\ \A n \in DOMAIN steps : st[n] = steps[n]
               /\ \A n \in Range(e), h \in Half : st[n][h].at = "held"
               /\ Push(e, st) /\ cel' \in Pic /\ UNCHANGED <<warned, open>>
  BY <1>1, BudgetAssumption DEF Drawn
<1>3. /\ StacksFit(undo, redo, made) /\ PassFits(spill, steps)
      /\ Given(undo, redo, steps, files) /\ DOMAIN steps \subseteq 1..made
  BY InvGiven DEF IInv, StepsHold
<1>4. PICK v : /\ Pushed(v, e) /\ StacksFit(v, <<>>, m) /\ v # <<>> /\ Last(v) = e
               /\ Left(v, <<>>, DOMAIN st) /\ stood' \in Stands
  BY <1>2, <1>3, PushHolds
<1>5. PICK r : r = <<>>
  OBVIOUS
<1>6. \A w : RunFits(w, v, m) =>
         /\ StacksFit(undo', redo', m) /\ RunFits(w, undo', m)
         /\ undo' # <<>> /\ Last(undo') = e
  BY <1>4, <1>5, LeftFits
<1>7. RunFits(NoRun, v, m)
  BY BudgetAssumption, FS_EmptySet DEF RunFits, RunsOf, NoRun, WholeOf
<1>8. DOMAIN steps' \subseteq 1..m
  <2>1. Range(e) \subseteq 1..m
    BY <1>2, RangeOfSeq
  <2>2. 1..made \subseteq 1..m
    BY <1>2
  <2> QED
    BY <1>2, <1>3, <1>4, <2>1, <2>2 DEF Left
<1>9. Made(v)
  <2>1. /\ made' = m /\ cel' \in Pic /\ UNCHANGED <<warned, open>> /\ stood' \in Stands
        /\ StepsHold' /\ PassFits(spill, steps)' /\ Exact(undo, redo, steps, files)'
    BY <1>2, <1>4 DEF Left
  <2>2. undo' # <<>> /\ Range(Last(undo')) \cap (1..made) = {} /\ StacksFit(undo', redo', m)
    BY <1>2, <1>6, <1>7
  <2>3. \A w : RunFits(w, v, m) => RunFits(w, undo', m)
    BY <1>6
  <2> QED
    BY <1>2, <1>8, <2>1, <2>2, <2>3 DEF Made
<1>10. made' = made + Len(strokes) /\ (Len(strokes) = 1 => Range(e) = {made'})
  BY <1>1 DEF Drawn
<1>11. v \in Seq(Seq(1..m))
  BY <1>4 DEF StacksFit
<1> QED
  BY <1>2, <1>4, <1>9, <1>10, <1>11

LEMMA RunTyped ==
    ASSUME NEW m \in Nat, NEW w \in RunsOf(m)
    PROVE  /\ w.on \in BOOLEAN /\ w.pushed \in Nat /\ w.retracted \in Nat /\ w.depth \in Nat
           /\ w.depth <= MaxEntries /\ w.own \subseteq 1..m
           /\ IsFiniteSet(w.own) /\ Cardinality(w.own) \in Nat
<1>1. /\ w.on \in BOOLEAN /\ w.pushed \in Nat /\ w.retracted \in Nat
      /\ w.depth \in 0..MaxEntries /\ w.own \in SUBSET (1..m)
  BY DEF RunsOf
<1>2. w.depth \in Nat /\ w.depth <= MaxEntries
  BY <1>1, BudgetAssumption
<1>3. m \in Int /\ 1 \in Int
  OBVIOUS
<1>4. IsFiniteSet(1..m)
  BY <1>3, FS_Interval
<1>5. IsFiniteSet(w.own) /\ Cardinality(w.own) \in Nat
  BY <1>1, <1>4, FS_Subset, FS_CardinalityType
<1> QED
  BY <1>1, <1>2, <1>5

LEMMA RunsOfMore ==
    ASSUME NEW m \in Nat, NEW n \in Nat, m <= n, NEW w \in RunsOf(m)
    PROVE  w \in RunsOf(n)
<1>1. 1..m \subseteq 1..n
  OBVIOUS
<1>2. SUBSET (1..m) \subseteq SUBSET (1..n)
  BY <1>1
<1> QED
  BY <1>2 DEF RunsOf

\* The hold q is w after a push, the steps o being its own.
Grown(q, w, o, m) ==
    /\ q \in RunsOf(m) /\ (w.on => q.on) /\ q.pushed = w.pushed + 1
    /\ q.retracted = w.retracted /\ q.depth = w.depth /\ q.own = w.own \cup o

LEMMA PushGrows ==
    ASSUME NEW m, NEW w \in RunsOf(m), NEW o \in SUBSET (1..m)
    PROVE  /\ Grown([w EXCEPT !.pushed = @ + 1], w, {}, m)
           /\ Grown([w EXCEPT !.pushed = @ + 1, !.own = @ \cup o], w, o, m)
<1> DEFINE D == 0..MaxEntries
           O == 1..m
           q == [w EXCEPT !.pushed = @ + 1]
           x == [w EXCEPT !.pushed = @ + 1, !.own = @ \cup o]
<1>1. w \in [on : BOOLEAN, pushed : Nat, retracted : Nat, depth : D, own : SUBSET O]
  BY DEF RunsOf
<1> HIDE DEF D
<1>2. o \in SUBSET O
  OBVIOUS
<1> HIDE DEF O
<1>3. /\ q \in [on : BOOLEAN, pushed : Nat, retracted : Nat, depth : D, own : SUBSET O]
      /\ (w.on => q.on) /\ q.pushed = w.pushed + 1 /\ q.retracted = w.retracted
      /\ q.depth = w.depth /\ q.own = w.own \cup {}
  BY <1>1
<1>4. /\ x \in [on : BOOLEAN, pushed : Nat, retracted : Nat, depth : D, own : SUBSET O]
      /\ (w.on => x.on) /\ x.pushed = w.pushed + 1 /\ x.retracted = w.retracted
      /\ x.depth = w.depth /\ x.own = w.own \cup o
  <2>1. PICK T : T = SUBSET O
    OBVIOUS
  <2>2. PICK a \in T : a = w.own \cup o
    BY <1>1, <1>2, <2>1
  <2>3. PICK p \in Nat : p = w.pushed + 1
    BY <1>1
  <2>4. x = [w EXCEPT !.pushed = p, !.own = a]
    BY <2>2, <2>3
  <2>5. w \in [on : BOOLEAN, pushed : Nat, retracted : Nat, depth : D, own : T]
    BY <1>1, <2>1
  <2> HIDE DEF x
  <2>6. /\ x \in [on : BOOLEAN, pushed : Nat, retracted : Nat, depth : D, own : T]
        /\ (w.on => x.on) /\ x.pushed = p /\ x.retracted = w.retracted
        /\ x.depth = w.depth /\ x.own = a
    BY <2>4, <2>5
  <2> QED
    BY <2>1, <2>2, <2>3, <2>6
<1> HIDE DEF q, x
<1>5. Grown(q, w, {}, m) /\ Grown(x, w, o, m)
  BY <1>3, <1>4 DEF Grown, RunsOf, D, O
<1> QED
  BY <1>5 DEF q, x

LEMMA BegunFits ==
    ASSUME Len(undo) \in 0..MaxEntries, NEW m
    PROVE  /\ Begun \in RunsOf(m) /\ Begun.on /\ Begun.pushed = 0 /\ Begun.retracted = 0
           /\ Begun.depth = Len(undo) /\ Begun.own = {}
<1>1. PICK z : z = NoRun
  OBVIOUS
<1>2. z \in RunsOf(m) /\ z.pushed = 0 /\ z.retracted = 0 /\ z.own = {}
  BY <1>1, BudgetAssumption DEF NoRun, RunsOf
<1>3. Begun = [z EXCEPT !.on = TRUE, !.depth = Len(undo)]
  BY <1>1 DEF Begun
<1> QED
  BY <1>2, <1>3 DEF RunsOf

\* The hold after a step that is not its own, and after one that is.
LEMMA RunGrows ==
    ASSUME RunFits(run, undo, made), undo \in Seq(Seq(1..made)), made \in Nat,
           NEW m \in Nat, made <= m, NEW v, NEW e, Pushed(v, e),
           run.on, NEW w, Grown(w, run, {}, m)
    PROVE  RunFits(w, v, m)
<1>1. PICK d \in 0..Len(undo) : Later(v, Append(undo, e), d)
  BY DEF Pushed
<1>2. Len(v) = Len(undo) + 1 - d /\ Len(undo) \in Nat
  BY <1>1 DEF Later
<1>3. run \in RunsOf(made) /\ run.retracted <= run.pushed /\ Cardinality(run.own) <= run.pushed
      /\ Len(undo) <= run.depth + run.pushed - run.retracted
  BY DEF RunFits
<1>4. /\ run.pushed \in Nat /\ run.retracted \in Nat /\ run.depth \in Nat
      /\ Cardinality(run.own) \in Nat
  BY <1>3, RunTyped
<1>5. /\ w \in RunsOf(m) /\ w.pushed = run.pushed + 1
      /\ w.retracted = run.retracted /\ w.depth = run.depth /\ w.own = run.own
  BY DEF Grown
<1>6. Len(v) <= w.depth + w.pushed - w.retracted
  BY <1>2, <1>3, <1>4, <1>5
<1>7. w.retracted <= w.pushed /\ Cardinality(w.own) <= w.pushed /\ w.pushed # Cardinality(w.own)
  BY <1>3, <1>4, <1>5
<1>8. ~WholeOf(w)
  BY <1>7 DEF WholeOf
<1> QED
  BY <1>5, <1>6, <1>7, <1>8 DEF RunFits

LEMMA Beyond ==
    ASSUME NEW a \in Nat, NEW b \in Nat, NEW c \in Nat, NEW k \in Nat,
           a > k, a + b \in 1..(c + 1), a + b # c + 1
    PROVE  a + b \in 1..c /\ a + b > k
OBVIOUS

LEMMA RunWrites ==
    ASSUME NEW r, NEW n \in Nat, Len(undo) = n, undo \in Seq(Seq(1..made)), made \in Nat,
           r \in RunsOf(made), r.retracted <= r.pushed, Cardinality(r.own) <= r.pushed,
           n <= r.depth + r.pushed - r.retracted,
           \A i \in 1..n : i > r.depth => Range(undo[i]) \subseteq r.own,
           NEW m, m = made + 1, NEW e \in Seq(1..m), Range(e) = {m},
           NEW v \in Seq(Seq(1..m)), Pushed(v, e),
           NEW w, Grown(w, r, {m}, m)
    PROVE  RunFits(w, v, m) /\ w.retracted = r.retracted
<1> DEFINE g == Append(undo, e)
<1>1. PICK d \in 0..n : Later(v, g, d)
  BY DEF Pushed
<1>2. /\ Len(v) = n + 1 - d /\ DOMAIN v = 1..(n + 1 - d)
      /\ \A i \in 1..(n + 1 - d) : v[i] = g[i + d]
      /\ \A i \in 1..n : g[i] = undo[i]
      /\ g[n + 1] = e
  <2>1. /\ Len(g) = n + 1
        /\ \A i \in 1..n : g[i] = undo[i]
        /\ g[n + 1] = e
    <3>1. PICK X : X = Seq(1..m) \cup Seq(1..made)
      OBVIOUS
    <3>2. undo \in Seq(X) /\ e \in X
      BY <3>1, SeqMonotonic
    <3> QED
      BY <3>2, AppendProperties
  <2>2. Len(v) = Len(g) - d /\ \A i \in 1..(Len(g) - d) : v[i] = g[i + d]
    BY <1>1 DEF Later
  <2>3. DOMAIN v = 1..Len(v)
    BY LenProperties
  <2> HIDE DEF g
  <2> QED
    BY <2>1, <2>2, <2>3
<1> HIDE DEF g
<1>3. \A i \in DOMAIN v : i \in Nat /\ i + d \in 1..(n + 1) /\ v[i] = g[i + d]
  <2>1. \A i \in 1..(n + 1 - d) : i \in Nat /\ i + d \in 1..(n + 1)
    OBVIOUS
  <2> QED
    BY <1>2, <2>1
<1>4. m \notin 1..made
  OBVIOUS
<1>5. /\ r.pushed \in Nat /\ r.retracted \in Nat /\ r.depth \in Nat
      /\ r.own \subseteq 1..made /\ IsFiniteSet(r.own) /\ Cardinality(r.own) \in Nat
  BY RunTyped
<1>6. Cardinality(r.own \cup {m}) = Cardinality(r.own) + 1
  <2>1. m \notin r.own
    BY <1>4, <1>5
  <2>2. PICK x : x = m
    OBVIOUS
  <2>3. Cardinality(r.own \cup {x}) = IF x \in r.own THEN Cardinality(r.own) ELSE Cardinality(r.own) + 1
    <3>1. PICK R : R = r.own /\ IsFiniteSet(R)
      BY <1>5
    <3>2. Cardinality(R \cup {x}) = IF x \in R THEN Cardinality(R) ELSE Cardinality(R) + 1
      BY <3>1, FS_AddElement
    <3> QED
      BY <3>1, <3>2
  <2> QED
    BY <2>1, <2>2, <2>3
<1>7. /\ w \in RunsOf(m) /\ w.pushed = r.pushed + 1
      /\ w.retracted = r.retracted /\ w.depth = r.depth /\ w.own = r.own \cup {m}
  BY DEF Grown
<1>8. Len(v) <= w.depth + w.pushed - w.retracted /\ w.retracted <= w.pushed
  <2>1. \A a, c, p, x \in Nat : a <= c + p - x /\ x <= p
                                => x <= p + 1 /\ \A b \in 0..a : a + 1 - b <= c + (p + 1) - x
    OBVIOUS
  <2>2. n + 1 - d <= r.depth + (r.pushed + 1) - r.retracted /\ r.retracted <= r.pushed + 1
    BY <1>5, <2>1
  <2> QED
    BY <1>2, <1>7, <2>2
<1>9. Cardinality(w.own) <= w.pushed
  BY <1>5, <1>6, <1>7
<1>10. ASSUME NEW i \in DOMAIN v, i > w.depth PROVE Range(v[i]) \subseteq w.own
  <2>1. CASE i + d = n + 1
    BY <1>2, <1>3, <1>7, <2>1
  <2>2. CASE i + d # n + 1
    <3>1. i + d \in 1..n /\ i + d > r.depth
      <4>1. i \in Nat /\ i > r.depth /\ i + d \in 1..(n + 1) /\ d \in Nat
        BY <1>3, <1>7, <1>10
      <4> QED
        BY <1>5, <2>2, <4>1, Beyond
    <3>2. Range(undo[i + d]) \subseteq r.own
      BY <3>1
    <3> QED
      BY <1>2, <1>3, <1>7, <3>1, <3>2
  <2> QED
    BY <2>1, <2>2
<1> QED
  BY <1>7, <1>8, <1>9, <1>10 DEF RunFits

LEMMA InvTyped ==
    ASSUME IInv
    PROVE  /\ made \in Nat /\ MaxEdits \in Nat /\ made <= MaxEdits
           /\ undo \in Seq(Seq(1..made)) /\ redo \in Seq(Seq(1..made))
           /\ Seq(1..made) \subseteq Seq(StepNo)
           /\ Seq(Seq(1..made)) \subseteq Seq(Seq(StepNo))
           /\ run.pushed \in Nat /\ run.retracted \in Nat
<1>1. made \in Nat /\ MaxEdits \in Nat /\ made <= MaxEdits
  BY BudgetAssumption DEF IInv, RestHolds
<1>2. 1..made \subseteq StepNo
  BY <1>1 DEF StepNo
<1>3. Seq(1..made) \subseteq Seq(StepNo)
  BY <1>2, SeqMonotonic
<1>4. Seq(Seq(1..made)) \subseteq Seq(Seq(StepNo))
  BY <1>3, SeqMonotonic
<1>5. undo \in Seq(Seq(1..made)) /\ redo \in Seq(Seq(1..made)) /\ run \in RunsOf(made)
  BY DEF IInv, StacksFit, RunFits
<1>6. run.pushed \in Nat /\ run.retracted \in Nat
  BY <1>1, <1>5, RunTyped
<1> QED
  BY <1>1, <1>3, <1>4, <1>5, <1>6

LEMMA NoRunFits ==
    ASSUME NEW u, NEW m
    PROVE  RunFits(NoRun, u, m) /\ NoRun.retracted = 0
BY BudgetAssumption, FS_EmptySet DEF RunFits, RunsOf, NoRun, WholeOf

\* Stacks of the same steps keep the same files.
LEMMA MovedGiven ==
    ASSUME NEW u, NEW r, NEW st, NEW fs, Given(u, r, st, fs),
           NEW v, NEW w, v \in Seq(Seq(StepNo)), w \in Seq(Seq(StepNo)), Apart(v, w),
           StepsIn(v) \cup StepsIn(w) = StepsIn(u) \cup StepsIn(r)
    PROVE  Given(v, w, st, fs)
<1>1. FilesOf(v) \cup FilesOf(w) = FilesOf(u) \cup FilesOf(r)
  BY DEF FilesOf
<1>2. Parked(v, w, st) = Parked(u, r, st)
  BY <1>1 DEF Parked
<1> QED
  BY <1>2 DEF Given, Exact

\* What a trim of u and r leaves where nothing was made.
LEMMA TrimmedKeeps ==
    ASSUME IInv, made' = made, cel' \in Pic, warned' \in BOOLEAN, open' \in BOOLEAN,
           stood' \in Stands,
           NEW u, NEW r, StacksFit(u, r, made), NEW D, D \subseteq 1..made, Left(u, r, D),
           RunFits(run', u, made)
    PROVE  IInv' /\ (undo' # <<>> => u # <<>> /\ Last(undo') = Last(u))
<1>1. PICK w : w = run'
  OBVIOUS
<1>2. RunFits(w, u, made)
  BY <1>1
<1>3. /\ StacksFit(undo', redo', made) /\ RunFits(w, undo', made)
      /\ undo' # <<>> => u # <<>> /\ Last(undo') = Last(u)
  BY <1>2, LeftFits
<1>4. StepsHold' /\ PassFits(spill, steps)' /\ Exact(undo, redo, steps, files)'
      /\ DOMAIN steps' \subseteq 1..made
  BY DEF Left
<1>5. RestHolds'
  BY DEF IInv, RestHolds, Stands
<1>6. IInv'
  BY <1>1, <1>3, <1>4, <1>5 DEF IInv
<1> QED
  BY <1>3, <1>6

\* An entry is not folded into one that has none of its steps.
LEMMA NotFolded ==
    ASSUME NEW u, NEW r, NEW m, StacksFit(u, r, m), NEW v,
           u # <<>> /\ v # <<>> =>
               Last(v) = Last(u) \/ Range(Last(u)) \cap Range(Last(v)) = {}
    PROVE  ~FoldedInto(u, v)
<1> SUFFICES ASSUME FoldedInto(u, v) PROVE FALSE
  OBVIOUS
<1>1. u # <<>> /\ v # <<>> /\ Last(u) # Last(v) /\ Range(Last(u)) \subseteq Range(Last(v))
  BY DEF FoldedInto
<1>2. u \in Seq(Seq(1..m)) /\ \A i \in DOMAIN u : u[i] # <<>>
  BY DEF StacksFit
<1>3. Last(u) = u[Len(u)] /\ Last(u) \in Seq(1..m) /\ Len(u) \in DOMAIN u
  <2>1. Last(u) = u[Len(u)] /\ Last(u) \in Seq(1..m) /\ Len(u) \in Nat \ {0}
    BY <1>1, <1>2, FrontOf
  <2>2. DOMAIN u = 1..Len(u)
    BY <1>2, LenProperties
  <2> QED
    BY <2>1, <2>2
<1>4. PICK e \in Seq(1..m) : e = Last(u) /\ e # <<>>
  BY <1>2, <1>3
<1>5. e[1] \in Range(e)
  <2>1. Len(e) \in Nat /\ Len(e) # 0 /\ DOMAIN e = 1..Len(e)
    BY <1>4, EmptySeq, LenProperties
  <2> QED
    BY <2>1 DEF Range
<1> QED
  BY <1>1, <1>4, <1>5

LEMMA ReverseOf ==
    ASSUME NEW X, NEW s \in Seq(X)
    PROVE  Reverse(s) \in Seq(X) /\ Range(Reverse(s)) \subseteq Range(s)
<1>1. Len(s) \in Nat /\ DOMAIN s = 1..Len(s) /\ \A i \in 1..Len(s) : s[i] \in X
  BY LenProperties, ElementOfSeq
<1>2. \A i \in 1..Len(s) : Len(s) - i + 1 \in 1..Len(s)
  BY <1>1
<1>3. Reverse(s) = [i \in 1..Len(s) |-> s[Len(s) - i + 1]]
  BY <1>1 DEF Reverse
<1>4. Reverse(s) \in [1..Len(s) -> X]
  BY <1>1, <1>2, <1>3
<1>5. Reverse(s) \in Seq(X)
  BY <1>1, <1>4, SeqDef
<1>6. DOMAIN Reverse(s) = 1..Len(s) /\ \A i \in 1..Len(s) : Reverse(s)[i] \in Range(s)
  BY <1>1, <1>2, <1>3 DEF Range
<1>7. Range(Reverse(s)) \subseteq Range(s)
  BY <1>6 DEF Range
<1> QED
  BY <1>5, <1>7

-----------------------------------------------------------------------------
(* The actions.                                                             *)

LEMMA MadeKeeps ==
    ASSUME IInv, NEW v, Made(v), RunFits(run', v, made')
    PROVE  IInv' /\ ~FoldedInto(undo, undo')
<1>1. PICK w : w = run'
  OBVIOUS
<1>2. RunFits(w, v, made')
  BY <1>1
<1>3. RunFits(w, undo', made')
  BY <1>2 DEF Made
<1>4. RestHolds'
  BY DEF IInv, RestHolds, Made, Stands
<1>5. StacksFit(undo', redo', made') /\ StepsHold' /\ PassFits(spill, steps)'
      /\ Exact(undo, redo, steps, files)' /\ DOMAIN steps' \subseteq 1..made'
      /\ Range(Last(undo')) \cap (1..made) = {}
  BY DEF Made
<1>6. IInv'
  BY <1>1, <1>3, <1>4, <1>5 DEF IInv
<1>7. StacksFit(undo, redo, made)
  BY DEF IInv
<1>8. undo # <<>> => Range(Last(undo)) \subseteq 1..made
  <2>1. SUFFICES ASSUME undo # <<>> PROVE Range(Last(undo)) \subseteq 1..made
    OBVIOUS
  <2>2. Last(undo) \in Seq(1..made)
    BY <2>1, InvTyped, FrontOf
  <2> QED
    BY <2>2, RangeOfSeq
<1>9. ~FoldedInto(undo, undo')
  <2>1. undo # <<>> /\ undo' # <<>> => Range(Last(undo)) \cap Range(Last(undo')) = {}
    BY <1>5, <1>8
  <2> QED
    BY <1>7, <2>1, NotFolded
<1> QED
  BY <1>6, <1>9

\* A step or a group of two that is not the hold's.
LEMMA OthersHolds ==
    ASSUME IInv, NEW strokes, NEW s \in Strokes, NEW t \in Strokes,
           strokes = <<s>> \/ strokes = <<s, t>>, Draw(strokes),
           run' = IF run.on THEN [run EXCEPT !.pushed = @ + 1] ELSE run
    PROVE  IInv' /\ KeepsToItsOwn
<1>1. PICK v, e : Pushed(v, e) /\ Made(v) /\ made' = made + Len(strokes)
  BY DrawHolds
<1>2. made \in Nat /\ made' \in Nat /\ made <= made'
  <2>1. made \in Nat
    BY InvTyped
  <2>2. Len(strokes) \in {1, 2}
    OBVIOUS
  <2> QED
    BY <1>1, <2>1, <2>2
<1>3. RunFits(run, undo, made) /\ undo \in Seq(Seq(1..made))
  BY InvTyped DEF IInv
<1>4. run \in RunsOf(made) /\ run \in RunsOf(made')
  <2>1. run \in RunsOf(made)
    BY <1>3 DEF RunFits
  <2>2. PICK m \in Nat : m = made'
    BY <1>2
  <2>3. run \in RunsOf(m)
    BY <1>2, <2>1, <2>2, RunsOfMore
  <2> QED
    BY <2>1, <2>2, <2>3
<1>5. RunFits(run', v, made') /\ run'.retracted = run.retracted
  <2>1. CASE run.on
    <3>1. PICK w, m : w = [run EXCEPT !.pushed = @ + 1] /\ m = made'
      OBVIOUS
    <3>2. Grown([run EXCEPT !.pushed = @ + 1], run, {}, m)
      BY <1>4, <3>1, PushGrows
    <3>3. Grown(w, run, {}, m) /\ m \in Nat /\ made <= m
      BY <1>2, <3>1, <3>2
    <3>4. RunFits(w, v, m)
      BY <1>1, <1>2, <1>3, <2>1, <3>3, RunGrows
    <3>5. w.retracted = run.retracted
      BY <3>3 DEF Grown
    <3>6. run' = w
      BY <2>1, <3>1
    <3> QED
      BY <3>1, <3>4, <3>5, <3>6
  <2>2. CASE ~run.on
    <3>1. run' = run
      BY <2>2
    <3>2. ~WholeOf(run)
      BY <2>2 DEF WholeOf
    <3>3. RunFits(run, v, made')
      BY <1>3, <1>4, <2>2, <3>2 DEF RunFits
    <3> QED
      BY <3>1, <3>3
  <2> QED
    BY <2>1, <2>2
<1>6. IInv' /\ ~FoldedInto(undo, undo')
  BY <1>1, <1>5, MadeKeeps
<1>7. run.retracted \in Nat
  BY InvTyped
<1> QED
  BY <1>5, <1>6, <1>7 DEF KeepsToItsOwn

LEMMA ExecuteHolds ==
    ASSUME IInv, NEW s \in Strokes, Execute(s)
    PROVE  IInv' /\ KeepsToItsOwn
<1>1. PICK strokes : strokes = <<s>>
  OBVIOUS
<1>2. Draw(strokes) /\ run' = IF run.on THEN [run EXCEPT !.pushed = @ + 1] ELSE run
  BY <1>1 DEF Execute
<1> QED
  BY <1>1, <1>2, OthersHolds

LEMMA RunAsOneStepHolds ==
    ASSUME IInv, NEW s \in Strokes, NEW t \in Strokes, RunAsOneStep(s, t)
    PROVE  IInv' /\ KeepsToItsOwn
<1>1. PICK strokes : strokes = <<s, t>>
  OBVIOUS
<1>2. Draw(strokes) /\ run' = IF run.on THEN [run EXCEPT !.pushed = @ + 1] ELSE run
  BY <1>1 DEF RunAsOneStep
<1> QED
  BY <1>1, <1>2, OthersHolds

LEMMA WriteInRunHolds ==
    ASSUME IInv, NEW s \in Strokes, WriteInRun(s)
    PROVE  IInv' /\ KeepsToItsOwn
<1>1. PICK strokes : strokes = <<s>>
  OBVIOUS
<1>2. /\ run.on /\ Draw(strokes) /\ Len(strokes) = 1
      /\ run' = [(IF Whole THEN run ELSE Begun) EXCEPT !.pushed = @ + 1, !.own = @ \cup {made'}]
  BY <1>1 DEF WriteInRun
<1>3. PICK v, e : /\ Pushed(v, e) /\ Made(v) /\ made' = made + Len(strokes)
                  /\ v \in Seq(Seq(1..made')) /\ e \in Seq(1..made')
                  /\ Len(strokes) = 1 => Range(e) = {made'}
  BY <1>1, <1>2, DrawHolds
<1>4. PICK m : m = made'
  OBVIOUS
<1>5. made \in Nat /\ m = made + 1 /\ m \in Nat /\ made <= m /\ m \in 1..m
  <2>1. made \in Nat
    BY InvTyped
  <2>2. m = made + 1
    BY <1>2, <1>3, <1>4
  <2> QED
    BY <2>1, <2>2
<1>6. RunFits(run, undo, made) /\ undo \in Seq(Seq(1..made)) /\ Len(undo) \in Nat
      /\ DOMAIN undo = 1..Len(undo)
  BY InvTyped, LenProperties DEF IInv
<1>7. Len(undo) \in 0..MaxEntries
  <2>1. redo \in Seq(Seq(1..made))
    BY InvTyped
  <2>2. Cardinality(Range(redo) \ {<<>>}) \in Nat
    BY <2>1, RangeIsFinite, FS_CardinalityType
  <2>3. Len(undo) + Cardinality(Range(redo) \ {<<>>}) <= MaxEntries
    BY DEF IInv, StacksFit
  <2>4. \A a, c, x \in Nat : a + c <= x => a \in 0..x
    OBVIOUS
  <2> QED
    BY <1>6, <2>2, <2>3, <2>4, BudgetAssumption
<1>8. PICK r : r = IF Whole THEN run ELSE Begun
  OBVIOUS
<1>9. /\ r \in RunsOf(made) /\ r.retracted <= r.pushed /\ Cardinality(r.own) <= r.pushed
      /\ Len(undo) <= r.depth + r.pushed - r.retracted
      /\ \A i \in 1..Len(undo) : i > r.depth => Range(undo[i]) \subseteq r.own
      /\ r.retracted = run.retracted \/ r.retracted = 0
  <2>1. CASE Whole
    <3>1. r = run /\ WholeOf(run)
      BY <1>8, <2>1 DEF Whole, WholeOf
    <3> QED
      BY <1>2, <1>6, <3>1 DEF RunFits
  <2>2. CASE ~Whole
    <3>1. r = Begun
      BY <1>8, <2>2
    <3>2. /\ r \in RunsOf(made) /\ r.pushed = 0 /\ r.retracted = 0
          /\ r.depth = Len(undo) /\ r.own = {}
      BY <1>7, <3>1, BegunFits
    <3>3. Cardinality(r.own) = 0
      BY <3>2, FS_EmptySet
    <3>4. \A i \in 1..Len(undo) : ~(i > Len(undo))
      BY <1>6
    <3>5. Len(undo) <= Len(undo) + 0 - 0
      BY <1>6
    <3> QED
      BY <3>2, <3>3, <3>4, <3>5
  <2> QED
    BY <2>1, <2>2
<1>10. PICK w : w = [r EXCEPT !.pushed = @ + 1, !.own = @ \cup {m}]
  OBVIOUS
<1>11. run' = w
  BY <1>2, <1>4, <1>8, <1>10
<1>12. Grown(w, r, {m}, m)
  <2>1. r \in RunsOf(m)
    BY <1>5, <1>9, RunsOfMore
  <2>2. PICK o \in SUBSET (1..m) : o = {m}
    BY <1>5
  <2>3. Grown([r EXCEPT !.pushed = @ + 1, !.own = @ \cup o], r, o, m)
    BY <2>1, PushGrows
  <2> QED
    BY <1>10, <2>2, <2>3
<1>13. RunFits(w, v, m) /\ w.retracted = r.retracted
  <2>1. e \in Seq(1..m) /\ Range(e) = {m} /\ v \in Seq(Seq(1..m))
    BY <1>2, <1>3, <1>4
  <2>2. Pushed(v, e)
    BY <1>3
  <2>3. PICK n \in Nat : n = Len(undo)
    BY <1>6
  <2>4. n <= r.depth + r.pushed - r.retracted
        /\ \A i \in 1..n : i > r.depth => Range(undo[i]) \subseteq r.own
    BY <1>9, <2>3
  <2> QED
    BY <1>5, <1>6, <1>9, <1>12, <2>1, <2>2, <2>3, <2>4, RunWrites
<1>14. IInv' /\ ~FoldedInto(undo, undo')
  BY <1>3, <1>4, <1>11, <1>13, MadeKeeps
<1>15. ~(run'.retracted > run.retracted)
  <2>1. run.retracted \in Nat
    BY InvTyped
  <2>2. run'.retracted = run.retracted \/ run'.retracted = 0
    BY <1>9, <1>11, <1>13
  <2> QED
    BY <2>1, <2>2
<1> QED
  BY <1>14, <1>15 DEF KeepsToItsOwn

\* What changes neither the stacks nor the pass.
LEMMA StillKeeps ==
    ASSUME IInv, UNCHANGED <<stacks, made, pass>>, cel' \in Pic,
           warned' \in BOOLEAN, open' \in BOOLEAN, RunFits(run', undo, made)
    PROVE  IInv' /\ ~FoldedInto(undo, undo')
<1>1. /\ undo' = undo /\ redo' = redo /\ steps' = steps /\ files' = files /\ made' = made
      /\ stood' = stood /\ spill' = spill
  BY DEF stacks, pass
<1>2. RestHolds' /\ StacksFit(undo', redo', made') /\ StepsHold' /\ PassFits(spill, steps)'
      /\ Exact(undo, redo, steps, files)' /\ DOMAIN steps' \subseteq 1..made'
  BY <1>1 DEF IInv, RestHolds, StepsHold
<1>3. PICK w : w = run'
  OBVIOUS
<1>4. RunFits(w, undo', made')
  BY <1>1, <1>3
<1>5. IInv'
  BY <1>2, <1>3, <1>4 DEF IInv
<1>6. ~FoldedInto(undo, undo')
  BY <1>1 DEF FoldedInto
<1> QED
  BY <1>5, <1>6

LEMMA DepthFits ==
    ASSUME IInv
    PROVE  Len(undo) \in 0..MaxEntries /\ Len(undo) \in Nat /\ DOMAIN undo = 1..Len(undo)
<1>1. undo \in Seq(Seq(1..made)) /\ redo \in Seq(Seq(1..made))
  BY InvTyped
<1>2. Cardinality(Range(redo) \ {<<>>}) \in Nat
  BY <1>1, RangeIsFinite, FS_CardinalityType
<1>3. Len(undo) + Cardinality(Range(redo) \ {<<>>}) <= MaxEntries
  BY DEF IInv, StacksFit
<1>4. \A a, c, x \in Nat : a + c <= x => a \in 0..x
  OBVIOUS
<1>5. Len(undo) \in Nat /\ DOMAIN undo = 1..Len(undo)
  BY <1>1, LenProperties
<1> QED
  BY <1>2, <1>3, <1>4, <1>5, BudgetAssumption

LEMMA BeginRunHolds ==
    ASSUME IInv, BeginRun
    PROVE  IInv' /\ KeepsToItsOwn
<1>1. UNCHANGED <<cel, stacks, made, warned, pass, open>> /\ run' = Begun
  BY DEF BeginRun
<1>2. PICK w : w = Begun
  OBVIOUS
<1>3. Len(undo) \in 0..MaxEntries /\ Len(undo) \in Nat /\ DOMAIN undo = 1..Len(undo)
  BY DepthFits
<1>4. /\ w \in RunsOf(made) /\ w.pushed = 0 /\ w.retracted = 0
      /\ w.depth = Len(undo) /\ w.own = {}
  BY <1>2, <1>3, BegunFits
<1>5. RunFits(w, undo, made)
  <2>1. Len(undo) <= Len(undo) + 0 - 0 /\ \A i \in 1..Len(undo) : ~(i > Len(undo))
    BY <1>3
  <2>2. Cardinality(w.own) = 0
    BY <1>4, FS_EmptySet
  <2> QED
    BY <1>3, <1>4, <2>1, <2>2 DEF RunFits
<1>6. RunFits(run', undo, made) /\ run'.retracted = 0
  BY <1>1, <1>2, <1>4, <1>5
<1>7. cel' \in Pic /\ warned' \in BOOLEAN /\ open' \in BOOLEAN
  BY <1>1 DEF IInv, RestHolds
<1>8. IInv' /\ ~FoldedInto(undo, undo')
  BY <1>1, <1>6, <1>7, StillKeeps
<1>9. run.retracted \in Nat
  BY InvTyped
<1>10. ~(run'.retracted > run.retracted)
  BY <1>6, <1>9
<1> QED
  BY <1>8, <1>10 DEF KeepsToItsOwn

\* A step taken back is taken from the stack, with its files.
LEMMA TakeBackHolds ==
    ASSUME IInv, TakeBack
    PROVE  IInv' /\ KeepsToItsOwn
<1>1. PICK e, k : /\ e = Last(undo) /\ k = TakenBack(e) /\ CanTakeBack
                  /\ cel' = k.cel /\ UNCHANGED <<made, warned, pass, open>>
                  /\ Leave(Front(undo), redo, k.steps, k.files \ FilesOf(<<e>>))
                  /\ run' = [run EXCEPT !.retracted = @ + 1]
  BY DEF TakeBack
<1>2. /\ Len(undo) > run.depth /\ WholeOf(run) /\ RunFits(run, undo, made)
      /\ run \in RunsOf(made) /\ run.on
  BY <1>1 DEF CanTakeBack, Whole, WholeOf, IInv, RunFits
<1>3. /\ made \in Nat /\ Len(undo) \in Nat /\ DOMAIN undo = 1..Len(undo)
      /\ run.pushed \in Nat /\ run.retracted \in Nat /\ run.depth \in Nat
  <2>1. made \in Nat
    BY InvTyped
  <2> QED
    BY <1>2, <2>1, DepthFits, RunTyped
<1>4. Len(undo) # 0 /\ Len(undo) \in 1..Len(undo) /\ undo # <<>>
  <2>1. Len(undo) # 0 /\ Len(undo) \in 1..Len(undo)
    BY <1>2, <1>3
  <2> QED
    BY <2>1, EmptySeq
<1>5. undo \in Seq(Seq(1..made)) /\ redo \in Seq(Seq(1..made)) /\ StacksFit(undo, redo, made)
      /\ Apart(undo, redo)
  BY InvTyped DEF IInv, StacksFit
<1>6. /\ Last(undo) = undo[Len(undo)] /\ e \in Seq(1..made)
      /\ Front(undo) \in Seq(Seq(1..made)) /\ Len(Front(undo)) = Len(undo) - 1
      /\ DOMAIN Front(undo) = 1..(Len(undo) - 1)
      /\ \A i \in 1..(Len(undo) - 1) : Front(undo)[i] = undo[i]
  BY <1>1, <1>4, <1>5, FrontOf, LenProperties
<1>7. Range(Last(undo)) \subseteq run.own
  BY <1>2, <1>3, <1>4, <1>6 DEF RunFits
<1>8. PICK ns \in Seq(StepNo) : ns = Reverse(e) /\ Range(ns) \subseteq Range(e)
  <2>1. e \in Seq(StepNo)
    BY <1>6, InvTyped
  <2> QED
    BY <2>1, ReverseOf
<1>9. StepsIn(undo) = StepsIn(Front(undo)) \cup Range(e)
  BY <1>1, <1>4, <1>5, StepsOfFront
<1>10. /\ Given(undo, redo, steps, files) /\ PassFits(spill, steps)
       /\ cel \in Pic /\ DOMAIN steps \subseteq 1..made
  BY InvGiven DEF IInv, RestHolds
<1>11. /\ k.cel \in Pic /\ Given(undo, redo, k.steps, k.files) /\ PassFits(spill, k.steps)
       /\ DOMAIN k.steps = DOMAIN steps
  <2>1. Range(ns) \subseteq DOMAIN steps
    BY <1>8, <1>9, <1>10 DEF Given
  <2>2. k = PutBack(ns, "before") /\ "before" \in Half
    BY <1>1, <1>8 DEF TakenBack, Half
  <2> QED
    BY <1>10, <2>1, <2>2, PutBackFits
<1> DEFINE u == Front(undo)
           fs == k.files \ FilesOf(<<e>>)
<1>12. Apart(u, redo) /\ Range(e) \cap (StepsIn(u) \cup StepsIn(redo)) = {}
  BY <1>1, <1>4, <1>5, ApartFront
<1>13. FilesOf(<<e>>) = Range(e) \X Half
  <2>1. StepsIn(<<e>>) = Range(e)
    <3>1. DOMAIN <<e>> = {1} /\ <<e>>[1] = e
      OBVIOUS
    <3> QED
      BY <3>1 DEF StepsIn
  <2> QED
    BY <2>1 DEF FilesOf
<1>14. u \in Seq(Seq(StepNo)) /\ redo \in Seq(Seq(StepNo))
  BY <1>5, <1>6, InvTyped
<1>15. StacksFit(u, redo, made)
  BY <1>4, <1>5, FrontFits
<1> HIDE DEF u, fs
<1>16. Given(u, redo, k.steps, fs)
  <2>1. Exact(u, redo, k.steps, fs)
    <3>1. Exact(undo, redo, k.steps, k.files)
      BY <1>11 DEF Given
    <3>2. FilesOf(u) \cup FilesOf(redo) = (FilesOf(undo) \cup FilesOf(redo)) \ (Range(e) \X Half)
      BY <1>9, <1>12 DEF FilesOf, u
    <3>3. Parked(u, redo, k.steps) = Parked(undo, redo, k.steps) \ (Range(e) \X Half)
      BY <3>2 DEF Parked
    <3>4. fs = k.files \ (Range(e) \X Half)
      BY <1>13 DEF fs
    <3> HIDE DEF Parked
    <3> QED
      BY <3>1, <3>3, <3>4 DEF Exact
  <2>2. StepsIn(u) \cup StepsIn(redo) \subseteq DOMAIN k.steps
    BY <1>9, <1>11 DEF Given, u
  <2> QED
    BY <1>11, <1>12, <1>14, <2>1, <2>2 DEF Given
<1>17. Left(u, redo, DOMAIN k.steps)
  <2>1. PassFits(spill', k.steps)
    BY <1>1, <1>11 DEF pass
  <2>2. Leave(u, redo, k.steps, fs)
    BY <1>1 DEF u, fs
  <2> QED
    BY <1>16, <2>1, <2>2, LeaveLeft
<1>18. PICK w : w = run'
  OBVIOUS
<1>19. /\ w \in RunsOf(made) /\ w.on = run.on /\ w.pushed = run.pushed /\ w.depth = run.depth
       /\ w.own = run.own /\ w.retracted = run.retracted + 1
  <2>1. PICK p \in Nat : p = run.retracted + 1
    BY <1>3
  <2>2. w = [run EXCEPT !.retracted = p]
    BY <1>1, <1>18, <2>1
  <2>3. PICK T, D : T = SUBSET (1..made) /\ D = 0..MaxEntries
    OBVIOUS
  <2>4. run \in [on : BOOLEAN, pushed : Nat, retracted : Nat, depth : D, own : T]
    BY <1>2, <2>3 DEF RunsOf
  <2>5. /\ w \in [on : BOOLEAN, pushed : Nat, retracted : Nat, depth : D, own : T]
        /\ w.on = run.on /\ w.pushed = run.pushed /\ w.depth = run.depth
        /\ w.own = run.own /\ w.retracted = p
    BY <2>2, <2>4
  <2> QED
    BY <2>1, <2>3, <2>5 DEF RunsOf
<1>20. RunFits(w, u, made)
  <2>1. Len(undo) <= run.depth + run.pushed - run.retracted /\ Cardinality(run.own) <= run.pushed
    BY <1>2 DEF RunFits
  <2>2. w.retracted <= w.pushed /\ Len(undo) - 1 <= w.depth + w.pushed - w.retracted
    BY <1>2, <1>3, <1>19, <2>1
  <2>3. \A i \in DOMAIN u : i \in DOMAIN undo /\ u[i] = undo[i]
    <3>1. \A i \in 1..(Len(undo) - 1) : i \in 1..Len(undo)
      BY <1>3
    <3> QED
      BY <1>3, <1>6, <3>1 DEF u
  <2>4. \A i \in DOMAIN u : i > w.depth => Range(u[i]) \subseteq w.own
    BY <1>2, <1>19, <2>3 DEF RunFits
  <2>5. Len(u) = Len(undo) - 1
    BY <1>6 DEF u
  <2> QED
    BY <1>19, <2>1, <2>2, <2>4, <2>5 DEF RunFits
<1>21. IInv' /\ (undo' # <<>> => u # <<>> /\ Last(undo') = Last(u))
  <2>1. made' = made /\ cel' \in Pic /\ warned' \in BOOLEAN /\ open' \in BOOLEAN /\ stood' \in Stands
    BY <1>1, <1>11 DEF IInv, RestHolds, Stands, pass
  <2>2. RunFits(run', u, made)
    BY <1>18, <1>20
  <2> QED
    BY <1>10, <1>11, <1>15, <1>17, <2>1, <2>2, TrimmedKeeps
<1>22. ~FoldedInto(undo, undo')
  <2>1. u # <<>> => Range(Last(u)) \subseteq StepsIn(u)
    <3>1. SUFFICES ASSUME u # <<>> PROVE Range(Last(u)) \subseteq StepsIn(u)
      OBVIOUS
    <3>2. StepsIn(u) = StepsIn(Front(u)) \cup Range(Last(u))
      BY <1>6, <3>1, StepsOfFront DEF u
    <3> QED
      BY <3>2
  <2>2. undo # <<>> /\ undo' # <<>> => Range(Last(undo)) \cap Range(Last(undo')) = {}
    BY <1>1, <1>12, <1>21, <2>1
  <2> QED
    BY <1>5, <2>2, NotFolded
<1> QED
  BY <1>7, <1>21, <1>22 DEF KeepsToItsOwn

\* What a trim leaves where nothing was made, from what it is given.
LEMMA TrimKeeps ==
    ASSUME IInv, made' = made, cel' \in Pic, warned' \in BOOLEAN, open' \in BOOLEAN,
           NEW u, NEW r, StacksFit(u, r, made), NEW st, NEW fs, Given(u, r, st, fs),
           PassFits(spill, st), DOMAIN st = DOMAIN steps, RunFits(run', u, made),
           NEW stand \in Stands, Trim(u, r, st, fs, stand)
    PROVE  IInv' /\ (undo' # <<>> => u # <<>> /\ Last(undo') = Last(u))
<1>1. Left(u, r, DOMAIN st) /\ stood' \in Stands
  BY TrimHolds
<1>2. DOMAIN st \subseteq 1..made
  BY DEF IInv
<1> QED
  BY <1>1, <1>2, TrimmedKeeps

\* Nothing is taken back, and the newest entry is what it was or none of its steps.
LEMMA KeepsWhole ==
    ASSUME IInv, run' = run \/ run' = NoRun,
           undo # <<>> /\ undo' # <<>> =>
               Last(undo') = Last(undo) \/ Range(Last(undo)) \cap Range(Last(undo')) = {}
    PROVE  KeepsToItsOwn
<1>1. StacksFit(undo, redo, made)
  BY DEF IInv
<1>2. ~FoldedInto(undo, undo')
  BY <1>1, NotFolded
<1>3. run.retracted \in Nat /\ NoRun.retracted = 0
  BY InvTyped, NoRunFits
<1>4. ~(run'.retracted > run.retracted)
  BY <1>3
<1> QED
  BY <1>2, <1>4 DEF KeepsToItsOwn

\* Steps an operation reads are among those on the stacks.
LEMMA TopSteps ==
    ASSUME IInv, NEW s, s = undo \/ s = redo, s # <<>>, NEW e, e = Last(s)
    PROVE  /\ e \in Seq(1..made) /\ e \in Seq(StepNo) /\ Range(e) \subseteq DOMAIN steps
           /\ Reverse(e) \in Seq(StepNo) /\ Range(Reverse(e)) \subseteq DOMAIN steps
<1>1. s \in Seq(Seq(1..made))
  BY InvTyped
<1>2. e \in Seq(1..made) /\ StepsIn(s) = StepsIn(Front(s)) \cup Range(e)
  BY <1>1, FrontOf, StepsOfFront
<1>3. e \in Seq(StepNo)
  BY <1>2, InvTyped
<1>4. StepsIn(s) \subseteq DOMAIN steps
  BY InvGiven DEF Given
<1>5. Reverse(e) \in Seq(StepNo) /\ Range(Reverse(e)) \subseteq Range(e)
  BY <1>3, ReverseOf
<1> QED
  BY <1>2, <1>3, <1>4, <1>5

LEMMA EndRunHolds ==
    ASSUME IInv, EndRun
    PROVE  IInv' /\ KeepsToItsOwn
<1>1. /\ run' = NoRun /\ undo' = LetGo /\ redo' = redo /\ cel' = cel /\ steps' = steps
      /\ files' = files /\ made' = made /\ warned' = warned /\ open' = open
      /\ stood' = stood /\ spill' = spill
  BY DEF EndRun, pass
<1>2. /\ StacksFit(LetGo, redo, made) /\ StepsIn(LetGo) = StepsIn(undo)
      /\ undo # <<>> => LetGo # <<>>
      /\ LetGo # undo => Range(Last(LetGo)) \subseteq run.own
  BY LetGoFits DEF IInv
<1>3. StacksFit(undo', redo', made')
  BY <1>1, <1>2
<1>4. StepsHold' /\ PassFits(spill', steps') /\ RestHolds' /\ DOMAIN steps' \subseteq 1..made'
  BY <1>1, <1>2 DEF IInv, RestHolds, StepsHold
<1>5. Exact(undo', redo', steps', files')
  BY <1>1, <1>2 DEF IInv, Exact, Parked, FilesOf
<1>6. PICK w : w = NoRun
  OBVIOUS
<1>7. RunFits(w, undo', made') /\ w.retracted = 0
  BY <1>6, NoRunFits
<1>8. IInv'
  BY <1>1, <1>3, <1>4, <1>5, <1>6, <1>7 DEF IInv
<1>9. FoldedInto(undo, undo') => Range(Last(undo')) \subseteq run.own
  <2>1. CASE LetGo = undo
    BY <1>1, <2>1 DEF FoldedInto
  <2>2. CASE LetGo # undo
    BY <1>1, <1>2, <2>2
  <2> QED
    BY <2>1, <2>2
<1>10. run.retracted \in Nat
  BY InvTyped
<1>11. ~(run'.retracted > run.retracted)
  BY <1>1, <1>6, <1>7, <1>10
<1> QED
  BY <1>8, <1>9, <1>11 DEF KeepsToItsOwn

LEMMA UndoHolds ==
    ASSUME IInv, Undo
    PROVE  IInv' /\ KeepsToItsOwn
<1>1. StacksFit(undo, redo, made) /\ RunFits(run, undo, made) /\ undo # <<>> /\ ~CanTakeBack
  BY DEF IInv, Undo
<1>2. LetGo = undo
  BY <1>1, LetGoFits
<1>3. PICK e, k, u, r :
          /\ e = Last(undo) /\ u = Front(undo) /\ r = Append(redo, e)
          /\ k = TakenBack(e)
          /\ run' = NoRun /\ cel' = k.cel /\ UNCHANGED <<made, warned, open>>
          /\ Trim(u, r, k.steps, k.files, stood)
  BY <1>2 DEF Undo
<1>4. StacksFit(u, r, made) /\ StepsIn(u) \cup StepsIn(r) = StepsIn(undo) \cup StepsIn(redo)
  BY <1>1, <1>3, UndoneFits
<1>5. /\ k.cel \in Pic /\ Given(undo, redo, k.steps, k.files) /\ PassFits(spill, k.steps)
      /\ DOMAIN k.steps = DOMAIN steps
  <2>1. PICK ns \in Seq(StepNo) : ns = Reverse(e) /\ Range(ns) \subseteq DOMAIN steps
    BY <1>1, <1>3, TopSteps
  <2>2. k = PutBack(ns, "before") /\ "before" \in Half
    BY <1>3, <2>1 DEF TakenBack, Half
  <2>3. cel \in Pic /\ Given(undo, redo, steps, files) /\ PassFits(spill, steps)
    BY InvGiven DEF IInv, RestHolds
  <2> QED
    BY <2>1, <2>2, <2>3, PutBackFits
<1>6. Given(u, r, k.steps, k.files)
  <2>1. u \in Seq(Seq(StepNo)) /\ r \in Seq(Seq(StepNo)) /\ Apart(u, r)
    BY <1>4, InvTyped DEF StacksFit
  <2> QED
    BY <1>4, <1>5, <2>1, MovedGiven
<1>7. RunFits(run', u, made)
  BY <1>3, NoRunFits
<1>8. IInv' /\ (undo' # <<>> => u # <<>> /\ Last(undo') = Last(u))
  <2>1. made' = made /\ cel' \in Pic /\ warned' \in BOOLEAN /\ open' \in BOOLEAN /\ stood \in Stands
    BY <1>3, <1>5 DEF IInv, RestHolds, Stands
  <2> QED
    BY <1>3, <1>4, <1>5, <1>6, <1>7, <2>1, TrimKeeps
<1>9. undo' # <<>> => Range(Last(undo)) \cap Range(Last(undo')) = {}
  <2>1. SUFFICES ASSUME undo' # <<>> PROVE Range(Last(undo)) \cap Range(Last(undo')) = {}
    OBVIOUS
  <2>2. u # <<>> /\ Last(undo') = Last(u)
    BY <1>8, <2>1
  <2>3. Range(e) \cap StepsIn(u) = {} /\ u \in Seq(Seq(1..made))
    BY <1>1, <1>3, <1>4, ApartFront DEF StacksFit
  <2>4. Range(Last(u)) \subseteq StepsIn(u)
    <3>1. StepsIn(u) = StepsIn(Front(u)) \cup Range(Last(u))
      BY <2>2, <2>3, StepsOfFront
    <3> QED
      BY <3>1
  <2> QED
    BY <1>3, <2>2, <2>3, <2>4
<1> QED
  BY <1>3, <1>8, <1>9, KeepsWhole

LEMMA RedoHolds ==
    ASSUME IInv, Redo
    PROVE  IInv' /\ KeepsToItsOwn
<1>1. PICK e, k, u, r :
          /\ e = Last(redo) /\ k = DoneAgain(e) /\ r = Front(redo)
          /\ u = IF e = <<>> THEN LetGo ELSE Append(LetGo, e)
          /\ run' = NoRun /\ cel' = k.cel /\ UNCHANGED <<made, warned, open>>
          /\ Trim(u, r, k.steps, k.files, stood)
  BY DEF Redo
<1>2. redo # <<>> /\ StacksFit(undo, redo, made) /\ RunFits(run, undo, made)
  BY DEF IInv, Redo
<1>3. /\ StacksFit(LetGo, redo, made) /\ StepsIn(LetGo) = StepsIn(undo)
      /\ undo # <<>> => LetGo # <<>>
      /\ LetGo # undo => Range(Last(LetGo)) \subseteq run.own
  BY <1>2, LetGoFits
<1>4. StacksFit(u, r, made) /\ StepsIn(u) \cup StepsIn(r) = StepsIn(LetGo) \cup StepsIn(redo)
  <2>1. PICK l, w : l = LetGo /\ w = redo
    OBVIOUS
  <2>2. StacksFit(l, w, made) /\ w # <<>>
    BY <1>2, <1>3, <2>1
  <2>3. Regrown(u, l, Last(w))
    BY <1>1, <2>1 DEF Regrown
  <2>4. StacksFit(u, Front(w), made)
        /\ StepsIn(u) \cup StepsIn(Front(w)) = StepsIn(l) \cup StepsIn(w)
    BY <2>2, <2>3, RedoneFits
  <2> QED
    BY <1>1, <2>1, <2>4
<1>5. /\ k.cel \in Pic /\ Given(undo, redo, k.steps, k.files) /\ PassFits(spill, k.steps)
      /\ DOMAIN k.steps = DOMAIN steps
  <2>1. e \in Seq(StepNo) /\ Range(e) \subseteq DOMAIN steps
    BY <1>1, <1>2, TopSteps
  <2>2. k = PutBack(e, "after") /\ "after" \in Half
    BY <1>1 DEF DoneAgain, Half
  <2>3. cel \in Pic /\ Given(undo, redo, steps, files) /\ PassFits(spill, steps)
    BY InvGiven DEF IInv, RestHolds
  <2> QED
    BY <2>1, <2>2, <2>3, PutBackFits
<1>6. Given(u, r, k.steps, k.files)
  <2>1. u \in Seq(Seq(StepNo)) /\ r \in Seq(Seq(StepNo)) /\ Apart(u, r)
    BY <1>4, InvTyped DEF StacksFit
  <2>2. StepsIn(u) \cup StepsIn(r) = StepsIn(undo) \cup StepsIn(redo)
    BY <1>3, <1>4
  <2> QED
    BY <1>5, <2>1, <2>2, MovedGiven
<1>7. RunFits(run', u, made)
  BY <1>1, NoRunFits
<1>8. IInv' /\ (undo' # <<>> => u # <<>> /\ Last(undo') = Last(u))
  <2>1. made' = made /\ cel' \in Pic /\ warned' \in BOOLEAN /\ open' \in BOOLEAN /\ stood \in Stands
    BY <1>1, <1>5 DEF IInv, RestHolds, Stands
  <2> QED
    BY <1>1, <1>4, <1>5, <1>6, <1>7, <2>1, TrimKeeps
<1>9. FoldedInto(undo, undo') => Range(Last(undo')) \subseteq run.own
  <2>1. SUFFICES ASSUME FoldedInto(undo, undo') PROVE Range(Last(undo')) \subseteq run.own
    OBVIOUS
  <2>2. undo # <<>> /\ undo' # <<>> /\ Last(undo') = Last(u)
    BY <1>8, <2>1 DEF FoldedInto
  <2>3. CASE e = <<>>
    <3>1. Last(undo') = Last(LetGo)
      BY <1>1, <2>2, <2>3
    <3>2. LetGo # undo
      BY <2>1, <3>1 DEF FoldedInto
    <3> QED
      BY <1>3, <3>1, <3>2
  <2>4. CASE e # <<>>
    <3>1. u = Append(LetGo, e) /\ LetGo \in Seq(Seq(1..made)) /\ e \in Seq(1..made)
      BY <1>1, <1>2, <1>3, <2>4, TopSteps DEF StacksFit
    <3>2. Last(u) = e
      <4>1. Len(u) = Len(LetGo) + 1 /\ u[Len(LetGo) + 1] = e
        BY <3>1, AppendProperties
      <4> QED
        BY <4>1 DEF Last
    <3>3. Range(e) \cap StepsIn(undo) = {}
      <4>1. Apart(redo, undo) /\ undo \in Seq(Seq(1..made)) /\ redo \in Seq(Seq(1..made))
        BY <1>2, ApartSwap DEF StacksFit
      <4> QED
        BY <1>1, <1>2, <4>1, ApartFront
    <3>4. Range(Last(undo)) \subseteq StepsIn(undo)
      <4>1. StepsIn(undo) = StepsIn(Front(undo)) \cup Range(Last(undo))
        BY <1>2, <2>2, StepsOfFront DEF StacksFit
      <4> QED
        BY <4>1
    <3>5. ~FoldedInto(undo, undo')
      <4>1. Range(Last(undo)) \cap Range(Last(undo')) = {}
        BY <2>2, <3>2, <3>3, <3>4
      <4> QED
        BY <1>2, <4>1, NotFolded
    <3> QED
      BY <2>1, <3>5
  <2> QED
    BY <2>3, <2>4
<1>10. ~(run'.retracted > run.retracted)
  <2>1. run.retracted \in Nat /\ NoRun.retracted = 0
    BY InvTyped, NoRunFits
  <2> QED
    BY <1>1, <2>1
<1> QED
  BY <1>8, <1>9, <1>10 DEF KeepsToItsOwn

LEMMA ReadAheadHolds ==
    ASSUME IInv, ReadAhead
    PROVE  IInv' /\ KeepsToItsOwn
<1>1. PICK ns, half, k :
          /\ ns \in Seq(StepNo) /\ Range(ns) \subseteq DOMAIN steps /\ half \in Half
          /\ k = ReadAllEarly(ns, half) /\ Trim(undo, redo, k.steps, files, stood)
  <2>1. CASE undo # <<>> /\ \E k \in {EarlyUndo(Last(undo))} : Trim(undo, redo, k.steps, files, stood)
    <3>1. PICK ns : ns = Reverse(Last(undo)) /\ ns \in Seq(StepNo) /\ Range(ns) \subseteq DOMAIN steps
      BY <2>1, TopSteps
    <3> QED
      BY <2>1, <3>1 DEF EarlyUndo, Half
  <2>2. CASE redo # <<>> /\ \E k \in {EarlyRedo(Last(redo))} : Trim(undo, redo, k.steps, files, stood)
    <3>1. PICK ns : ns = Last(redo) /\ ns \in Seq(StepNo) /\ Range(ns) \subseteq DOMAIN steps
      BY <2>2, TopSteps
    <3> QED
      BY <2>2, <3>1 DEF EarlyRedo, Half
  <2> QED
    BY <2>1, <2>2 DEF ReadAhead
<1>2. UNCHANGED <<cel, made, warned, run, open>>
  BY DEF ReadAhead
<1>3. cel \in Pic /\ Given(undo, redo, steps, files) /\ PassFits(spill, steps)
  BY InvGiven DEF IInv, RestHolds
<1>4. /\ Given(undo, redo, k.steps, files) /\ PassFits(spill, k.steps)
      /\ DOMAIN k.steps = DOMAIN steps
  BY <1>1, <1>3, ReadAllEarlyFits
<1>5. /\ made' = made /\ cel' \in Pic /\ warned' \in BOOLEAN /\ open' \in BOOLEAN /\ stood \in Stands
      /\ StacksFit(undo, redo, made) /\ RunFits(run', undo, made)
  BY <1>2 DEF IInv, RestHolds, Stands
<1>6. IInv' /\ (undo' # <<>> => undo # <<>> /\ Last(undo') = Last(undo))
  BY <1>1, <1>4, <1>5, TrimKeeps
<1> QED
  BY <1>2, <1>6, KeepsWhole

LEMMA MemoryWarningHolds ==
    ASSUME IInv, MemoryWarning
    PROVE  IInv' /\ KeepsToItsOwn
<1>1. /\ warned' = TRUE /\ UNCHANGED <<cel, made, run, open>>
      /\ Trim(undo, redo, steps, files, stood)
  BY DEF MemoryWarning
<1>2. Given(undo, redo, steps, files) /\ PassFits(spill, steps)
  BY InvGiven DEF IInv
<1>3. /\ made' = made /\ cel' \in Pic /\ warned' \in BOOLEAN /\ open' \in BOOLEAN /\ stood \in Stands
      /\ StacksFit(undo, redo, made) /\ RunFits(run', undo, made)
  BY <1>1 DEF IInv, RestHolds, Stands
<1>4. IInv' /\ (undo' # <<>> => undo # <<>> /\ Last(undo') = Last(undo))
  BY <1>1, <1>2, <1>3, TrimKeeps
<1> QED
  BY <1>1, <1>4, KeepsWhole

LEMMA LiftWarningHolds ==
    ASSUME IInv, LiftWarning \/ UNCHANGED vars
    PROVE  IInv' /\ KeepsToItsOwn
<1>1. /\ UNCHANGED <<cel, stacks, made, pass, run, open>>
      /\ warned' = FALSE \/ warned' = warned
  BY DEF LiftWarning, vars
<1>2. cel' \in Pic /\ warned' \in BOOLEAN /\ open' \in BOOLEAN /\ RunFits(run', undo, made)
  BY <1>1 DEF IInv, RestHolds
<1>3. IInv'
  BY <1>1, <1>2, StillKeeps
<1>4. undo' = undo /\ run' = run
  BY <1>1 DEF stacks
<1> QED
  BY <1>3, <1>4, KeepsWhole

LEMMA LandHolds ==
    ASSUME IInv, Land
    PROVE  IInv' /\ KeepsToItsOwn
<1>1. PICK taken \in BOOLEAN : Lands(taken)
  BY DEF Land
<1>2. UNCHANGED <<cel, made, warned, run, open>>
  BY <1>1 DEF Lands
<1>3. /\ Given(undo, redo, steps, files) /\ stood \in Stands /\ PassFits(spill, steps)
      /\ DOMAIN steps \subseteq 1..made
  BY InvGiven DEF IInv, RestHolds, Stands
<1>4. Left(undo, redo, DOMAIN steps) /\ stood' \in Stands
  BY <1>1, <1>3, LandsHolds
<1>5. /\ made' = made /\ cel' \in Pic /\ warned' \in BOOLEAN /\ open' \in BOOLEAN
      /\ StacksFit(undo, redo, made) /\ RunFits(run', undo, made)
  BY <1>2 DEF IInv, RestHolds, Stands
<1>6. IInv' /\ (undo' # <<>> => undo # <<>> /\ Last(undo') = Last(undo))
  BY <1>3, <1>4, <1>5, TrimmedKeeps
<1> QED
  BY <1>2, <1>6, KeepsWhole

\* The stacks emptied take their files with them.
LEMMA EmptiedHolds ==
    ASSUME IInv, Emptied, UNCHANGED <<cel, made, warned, spill, run>>, open' \in BOOLEAN,
           stood' \in Stands
    PROVE  IInv' /\ KeepsToItsOwn
<1>1. PICK u, fs : /\ u = <<>> /\ fs = files \ (FilesOf(undo) \cup FilesOf(redo))
                   /\ Leave(u, u, steps, fs)
  BY DEF Emptied
<1>2. /\ Given(undo, redo, steps, files) /\ PassFits(spill', steps)
      /\ DOMAIN steps \subseteq 1..made /\ RunFits(run, undo, made)
  BY InvGiven DEF IInv
<1>3. /\ u \in Seq(Seq(StepNo)) /\ u \in Seq(Seq(1..made)) /\ Len(u) = 0 /\ DOMAIN u = {}
      /\ Range(u) = {} /\ StepsIn(u) = {}
  <2>1. u \in Seq(Seq(StepNo)) /\ u \in Seq(Seq(1..made)) /\ Len(u) = 0 /\ DOMAIN u = {}
    BY <1>1, EmptySeq
  <2>2. Range(u) = {} /\ StepsIn(u) = {}
    BY <2>1 DEF Range, StepsIn
  <2> QED
    BY <2>1, <2>2
<1>4. Apart(u, u)
  BY <1>3 DEF Apart
<1>5. StacksFit(u, u, made)
  <2>1. Cardinality(Range(u) \ {<<>>}) = 0
    BY <1>3, FS_EmptySet
  <2>2. Len(u) + Cardinality(Range(u) \ {<<>>}) <= MaxEntries
    BY <1>3, <2>1, BudgetAssumption
  <2> QED
    BY <1>3, <1>4, <2>2 DEF StacksFit
<1>6. Exact(u, u, steps, fs)
  <2>1. Parked(u, u, steps) = {}
    BY <1>3 DEF Parked, FilesOf
  <2>2. files \subseteq FilesOf(undo) \cup FilesOf(redo)
    BY <1>2 DEF Given, Exact, Parked
  <2>3. fs = {}
    BY <1>1, <2>2
  <2> QED
    BY <2>1, <2>3 DEF Exact
<1>7. Given(u, u, steps, fs)
  BY <1>2, <1>3, <1>4, <1>6 DEF Given
<1>8. Left(u, u, DOMAIN steps)
  BY <1>1, <1>2, <1>7, LeaveLeft
<1>9. RunFits(run', u, made)
  <2>1. run \in RunsOf(made) /\ run.retracted <= run.pushed /\ made \in Nat
    BY <1>2, InvTyped DEF RunFits
  <2>2. run.pushed \in Nat /\ run.retracted \in Nat /\ run.depth \in Nat
    BY <2>1, RunTyped
  <2>3. Len(u) <= run.depth + run.pushed - run.retracted
    BY <1>3, <2>1, <2>2
  <2>4. RunFits(run, u, made)
    BY <1>2, <1>3, <2>3 DEF RunFits
  <2> QED
    BY <2>4
<1>10. IInv' /\ (undo' # <<>> => u # <<>>)
  <2>1. made' = made /\ cel' \in Pic /\ warned' \in BOOLEAN
    BY DEF IInv, RestHolds
  <2> QED
    BY <1>2, <1>5, <1>8, <1>9, <2>1, TrimmedKeeps
<1>11. undo' = <<>>
  BY <1>1, <1>10
<1> QED
  BY <1>10, <1>11, KeepsWhole

LEMMA LeaveWalkBackHolds ==
    ASSUME IInv, LeaveWalkBack
    PROVE  IInv' /\ KeepsToItsOwn
<1>1. StacksFit(undo, redo, made) /\ RunFits(run, undo, made) /\ ~CanTakeBack
  BY DEF IInv, LeaveWalkBack
<1>2. LetGo = undo
  BY <1>1, LetGoFits
<1>3. /\ run' = NoRun /\ undo' = undo /\ redo' = Append(redo, <<>>) /\ cel' = cel /\ steps' = steps
      /\ files' = files /\ made' = made /\ warned' = warned /\ open' = open
      /\ stood' = stood /\ spill' = spill
  BY <1>2 DEF LeaveWalkBack, pass
<1>4. StacksFit(undo', redo', made') /\ StepsIn(redo') = StepsIn(redo)
  BY <1>1, <1>3, WalkBackFits
<1>5. StepsHold' /\ PassFits(spill', steps') /\ RestHolds' /\ DOMAIN steps' \subseteq 1..made'
  BY <1>3, <1>4 DEF IInv, RestHolds, StepsHold
<1>6. Exact(undo', redo', steps', files')
  BY <1>3, <1>4 DEF IInv, Exact, Parked, FilesOf
<1>7. PICK w : w = NoRun
  OBVIOUS
<1>8. RunFits(w, undo', made')
  BY <1>7, NoRunFits
<1>9. IInv'
  BY <1>3, <1>4, <1>5, <1>6, <1>7, <1>8 DEF IInv
<1> QED
  BY <1>3, <1>9, KeepsWhole

LEMMA LoseFileHolds ==
    ASSUME IInv, LoseFile
    PROVE  IInv' /\ KeepsToItsOwn
<1>1. /\ FilesGetLost /\ files' \subseteq files
      /\ undo' = undo /\ redo' = redo /\ steps' = steps /\ cel' = cel /\ made' = made
      /\ warned' = warned /\ run' = run /\ open' = open /\ stood' = stood /\ spill' = spill
  BY DEF LoseFile, pass
<1>2. Exact(undo', redo', steps', files')
  BY <1>1 DEF IInv, Exact
<1>3. PICK w : w = run
  OBVIOUS
<1>4. /\ RestHolds' /\ StacksFit(undo', redo', made') /\ StepsHold' /\ PassFits(spill', steps')
      /\ RunFits(w, undo', made') /\ DOMAIN steps' \subseteq 1..made'
  BY <1>1, <1>3 DEF IInv, RestHolds, StepsHold
<1>5. IInv'
  BY <1>1, <1>2, <1>3, <1>4 DEF IInv
<1> QED
  BY <1>1, <1>5, KeepsWhole

LEMMA InitHolds ==
    ASSUME Init
    PROVE  IInv
<1>1. /\ cel = Blank /\ undo = <<>> /\ redo = <<>> /\ steps = <<>> /\ files = {}
      /\ made = 0 /\ warned = FALSE /\ stood = "no" /\ spill = Idle /\ run = NoRun
      /\ open = TRUE
  BY DEF Init
<1>2. RestHolds
  <2>1. 0 \in 0..MaxEdits /\ Blank \in Pic
    BY BudgetAssumption DEF Blank, Pic
  <2> QED
    BY <1>1, <2>1 DEF RestHolds
<1>3. PICK u : u = <<>>
  OBVIOUS
<1>4. u \in Seq(Seq(1..made)) /\ Len(u) = 0 /\ DOMAIN u = {} /\ Range(u) = {} /\ StepsIn(u) = {}
  <2>1. u \in Seq(Seq(1..made)) /\ Len(u) = 0 /\ DOMAIN u = {}
    BY <1>3, EmptySeq
  <2> QED
    BY <2>1 DEF Range, StepsIn
<1>5. StacksFit(u, u, made)
  <2>1. Apart(u, u)
    BY <1>4 DEF Apart
  <2>2. Cardinality(Range(u) \ {<<>>}) = 0
    BY <1>4, FS_EmptySet
  <2>3. Len(u) + Cardinality(Range(u) \ {<<>>}) <= MaxEntries
    BY <1>4, <2>2, BudgetAssumption
  <2> QED
    BY <1>4, <2>1, <2>3 DEF StacksFit
<1>6. DOMAIN steps = {} /\ SnapsFit(steps)
  BY <1>1, <1>3, <1>4 DEF SnapsFit
<1>7. RestSteps(spill) = {} /\ PassFits(spill, steps)
  <2>1. spill.rest = u
    BY <1>1, <1>3 DEF Idle
  <2>2. RestSteps(spill) = {} /\ spill.rest \in Seq(StepNo \X Half)
    BY <1>3, <1>4, <2>1, EmptySeq DEF RestSteps
  <2> QED
    BY <1>1, <2>2 DEF PassFits
<1>8. StepsHold /\ Exact(undo, redo, steps, files)
  BY <1>1, <1>3, <1>4, <1>6, <1>7 DEF StepsHold, Exact, Parked, FilesOf
<1>9. PICK w : w = run
  OBVIOUS
<1>10. RunFits(w, undo, made)
  BY <1>1, <1>9, NoRunFits
<1> QED
  BY <1>1, <1>2, <1>3, <1>5, <1>6, <1>7, <1>8, <1>9, <1>10 DEF IInv

\* Every step keeps the invariant, and the hold to its own.
LEMMA NextHolds ==
    ASSUME IInv, [Next]_vars
    PROVE  IInv' /\ KeepsToItsOwn
<1>1. CASE \E s \in Strokes : Execute(s) \/ WriteInRun(s)
  BY <1>1, ExecuteHolds, WriteInRunHolds
<1>2. CASE \E s, t \in Strokes : RunAsOneStep(s, t)
  BY <1>2, RunAsOneStepHolds
<1>3. CASE BeginRun \/ TakeBack \/ EndRun
  BY <1>3, BeginRunHolds, TakeBackHolds, EndRunHolds
<1>4. CASE Undo \/ Redo \/ ReadAhead \/ LeaveWalkBack
  BY <1>4, UndoHolds, RedoHolds, ReadAheadHolds, LeaveWalkBackHolds
<1>5. CASE MemoryWarning \/ LiftWarning \/ UNCHANGED vars
  BY <1>5, MemoryWarningHolds, LiftWarningHolds
<1>6. CASE Land \/ LoseFile
  BY <1>6, LandHolds, LoseFileHolds
<1>7. CASE Clear \/ Dispose
  <2>1. Emptied /\ UNCHANGED <<cel, made, warned, spill, run>>
    BY <1>7 DEF Clear, Dispose, pass
  <2>2. open' \in BOOLEAN /\ stood' \in Stands
    BY <1>7 DEF Clear, Dispose, pass, IInv, RestHolds, Stands
  <2> QED
    BY <2>1, <2>2, EmptiedHolds
<1> QED
  BY <1>1, <1>2, <1>3, <1>4, <1>5, <1>6, <1>7 DEF Next

\* What the invariant says of the types.
LEMMA InvIsTyped ==
    ASSUME IInv
    PROVE  TypeOK
<1>1. /\ cel \in Pic /\ made \in 0..MaxEdits /\ warned \in BOOLEAN /\ open \in BOOLEAN
      /\ stood \in {"no", "refused", "stuck"}
      /\ undo \in Seq(Seq(1..made)) /\ redo \in Seq(Seq(1..made))
  BY DEF IInv, RestHolds, StacksFit
<1>2. <<>> \notin Range(undo) /\ Len(undo) <= MaxEntries
  <2>1. Len(undo) \in 0..MaxEntries
    BY DepthFits
  <2>2. \A i \in DOMAIN undo : undo[i] # <<>>
    BY DEF IInv, StacksFit
  <2> QED
    BY <2>1, <2>2, BudgetAssumption DEF Range
<1>3. /\ DOMAIN steps = StepsIn(undo) \cup StepsIn(redo) \cup {f[1] : f \in Range(spill.rest)}
      /\ \A n \in DOMAIN steps, half \in Half : steps[n][half] \in Snapshots
  BY DEF IInv, StepsHold, SnapsFit, RestSteps
<1>4. files \subseteq StepNo \X Half
  <2>1. StepsIn(undo) \subseteq StepNo /\ StepsIn(redo) \subseteq StepNo
    BY InvGiven, StepsAreSteps DEF Given
  <2> QED
    BY <2>1 DEF IInv, Exact, Parked, FilesOf
<1>5. spill # Idle => /\ spill.stack \in {"undo", "redo"} /\ spill.index > 0
                      /\ spill.rest # <<>>
                      /\ Slow(steps[spill.rest[1][1]][spill.rest[1][2]])
  BY DEF IInv, PassFits
<1>6. run.depth \in 0..MaxEntries /\ run.own \subseteq 1..made /\ run.retracted <= run.pushed
  BY DEF IInv, RunFits, RunsOf
<1> QED
  BY <1>1, <1>2, <1>3, <1>4, <1>5, <1>6 DEF TypeOK

LEMMA InvIsExact ==
    ASSUME IInv, ~FilesGetLost
    PROVE  RoomIsExact
BY DEF IInv, Exact, Parked, RoomIsExact

LEMMA InvAlways == Spec => []IInv
<1>1. Init => IInv
  BY InitHolds
<1>2. IInv /\ [Next]_vars => IInv'
  BY NextHolds
<1> QED
  BY <1>1, <1>2, PTL DEF Spec

-----------------------------------------------------------------------------
(* The byte budget: what the stacks weigh, and what a shed leaves.          *)

\* The tiles the steps N have in memory, and how many they are.
Tiles(N, half, st) ==
    {tile \in N \X Place : InRam(st[tile[1]][half]) /\ tile[2] \in st[tile[1]][half].own}
Weigh(N, half, st) == Cardinality(Tiles(N, half, st))

LEMMA StackWeighs ==
    ASSUME NEW stack, NEW half, NEW st
    PROVE  StackWeight(stack, half, st) = Weigh(StepsIn(stack), half, st)
BY DEF StackWeight, Weigh, Tiles

LEMMA TilesOf ==
    ASSUME NEW N, N \subseteq StepNo, NEW half, NEW st
    PROVE  /\ IsFiniteSet(Tiles(N, half, st)) /\ Weigh(N, half, st) \in Nat
           /\ Weigh(N, half, st) = 0 <=> Tiles(N, half, st) = {}
<1>1. IsFiniteSet(StepNo) /\ IsFiniteSet(Place)
  BY BudgetAssumption, PlaceAssumption, FS_Interval DEF StepNo
<1>2. IsFiniteSet(StepNo \X Place)
  BY <1>1, FS_Product
<1>3. Tiles(N, half, st) \in SUBSET (StepNo \X Place)
  BY DEF Tiles
<1>4. IsFiniteSet(Tiles(N, half, st))
  BY <1>2, <1>3, FS_Subset
<1> QED
  BY <1>4, FS_CardinalityType, FS_EmptySet DEF Weigh

LEMMA TilesSplit ==
    ASSUME NEW M, NEW N, NEW half, NEW st
    PROVE  Tiles(M \cup N, half, st) = Tiles(M, half, st) \cup Tiles(N, half, st)
BY DEF Tiles

\* Steps apart weigh what they weigh together; more steps weigh no less; and
\* those that weigh nothing can be left out.
LEMMA WeighApart ==
    ASSUME NEW M, M \subseteq StepNo, NEW N, N \subseteq StepNo, M \cap N = {},
           NEW half, NEW st
    PROVE  Weigh(M \cup N, half, st) = Weigh(M, half, st) + Weigh(N, half, st)
<1> DEFINE m == Tiles(M, half, st)
           n == Tiles(N, half, st)
<1>1. IsFiniteSet(m) /\ IsFiniteSet(n)
  BY TilesOf
<1>2. m \cap n = {}
  BY DEF Tiles
<1>3. Tiles(M \cup N, half, st) = m \cup n
  BY TilesSplit
<1> HIDE DEF m, n
<1>4. Cardinality(m) \in Nat /\ Cardinality(n) \in Nat /\ Cardinality(m \cap n) = 0
  BY <1>1, <1>2, FS_CardinalityType, FS_EmptySet
<1>5. Cardinality(m \cup n) = Cardinality(m) + Cardinality(n) - Cardinality(m \cap n)
  BY <1>1, FS_Union
<1>6. Cardinality(m \cup n) = Cardinality(m) + Cardinality(n)
  BY <1>4, <1>5
<1> QED
  BY <1>3, <1>6 DEF Weigh, m, n

LEMMA WeighMore ==
    ASSUME NEW N, N \subseteq StepNo, NEW M, M \subseteq N, NEW half, NEW st
    PROVE  Weigh(M, half, st) <= Weigh(N, half, st)
<1>1. IsFiniteSet(Tiles(N, half, st))
  BY TilesOf
<1>2. Tiles(M, half, st) \in SUBSET Tiles(N, half, st)
  BY DEF Tiles
<1> QED
  BY <1>1, <1>2, FS_Subset DEF Weigh

\* Steps none of which weighs anything.
Nothing(N, half, st) == \A n \in N : Weigh({n}, half, st) = 0

LEMMA WeighOnly ==
    ASSUME NEW N, N \subseteq StepNo, NEW M, M \subseteq N, NEW half, NEW st,
           Nothing(N \ M, half, st)
    PROVE  Weigh(N, half, st) = Weigh(M, half, st)
<1>1. ASSUME NEW tile \in Tiles(N, half, st), tile[1] \notin M
      PROVE  FALSE
  <2>1. tile[1] \in N /\ tile \in Tiles({tile[1]}, half, st)
    BY DEF Tiles
  <2>2. {tile[1]} \subseteq StepNo
    BY <2>1
  <2>3. Tiles({tile[1]}, half, st) = {}
    BY <1>1, <2>1, <2>2, TilesOf DEF Nothing
  <2> QED
    BY <2>1, <2>3
<1>2. Tiles(N, half, st) \subseteq Tiles(M, half, st)
  BY <1>1 DEF Tiles
<1>3. Tiles(M, half, st) \subseteq Tiles(N, half, st)
  BY DEF Tiles
<1> QED
  BY <1>2, <1>3 DEF Weigh

\* Snapshots that agree weigh the same.
LEMMA WeighSame ==
    ASSUME NEW N, NEW half, NEW st, NEW ot, \A n \in N : ot[n] = st[n]
    PROVE  Weigh(N, half, ot) = Weigh(N, half, st)
<1>1. Tiles(N, half, ot) = Tiles(N, half, st)
  BY DEF Tiles
<1> QED
  BY <1>1 DEF Weigh

LEMMA StepsOfOne ==
    ASSUME NEW e
    PROVE  StepsIn(<<e>>) = Range(e)
<1>1. DOMAIN <<e>> = {1} /\ <<e>>[1] = e
  OBVIOUS
<1> QED
  BY <1>1 DEF StepsIn

LEMMA StepsOfDeep ==
    ASSUME NEW X, NEW s \in Seq(X), NEW d \in 0..Len(s), NEW n
    PROVE  n \in StepsIn(SubSeq(s, 1, d)) <=> \E i \in 1..d : n \in Range(s[i])
<1>1. \A i \in 1..d : s[i] \in X
  OBVIOUS
<1>2. DOMAIN SubSeq(s, 1, d) = 1..d /\ \A i \in 1..d : SubSeq(s, 1, d)[i] = s[i]
  BY <1>1, SubSeqProperties
<1> QED
  BY <1>2, StepOf

LEMMA DeepIsStack ==
    ASSUME NEW stack \in Seq(Seq(StepNo)), NEW d \in 0..Len(stack)
    PROVE  /\ SubSeq(stack, 1, d) \in Seq(Seq(StepNo))
           /\ StepsIn(SubSeq(stack, 1, d)) \subseteq StepNo
<1>1. \A i \in 1..d : stack[i] \in Seq(StepNo)
  OBVIOUS
<1>2. SubSeq(stack, 1, d) \in Seq(Seq(StepNo))
  BY <1>1, SubSeqProperties
<1> QED
  BY <1>2, StepsAreSteps

\* Entries of a stack that weigh nothing, above one place and up to another.
Weightless(stack, half, st, above, upto) ==
    \A i \in (above + 1)..upto : StackWeight(<<stack[i]>>, half, st) = 0

\* What a shed counts releases enough, or leaves nothing that weighs below
\* the entries it has to keep.
LEMMA ShedCountPays ==
    ASSUME NEW stack \in Seq(Seq(StepNo)), NEW half, NEW st, NEW excess \in Int,
           NEW keep \in Nat, keep <= Len(stack),
           NEW c, c = ShedCount(stack, half, st, excess, keep)
    PROVE  /\ c \in 0..(Len(stack) - keep)
           /\ \/ StackWeight(SubSeq(stack, 1, c), half, st) >= excess
              \/ Weightless(stack, half, st, c, Len(stack) - keep)
<1> DEFINE upTo(n) == StackWeight(SubSeq(stack, 1, n), half, st)
           enough  == {n \in 0..(Len(stack) - keep) : upTo(n) >= excess}
           walked  == IF enough # {} THEN Min(enough) ELSE Len(stack) - keep
           paying  == {n \in 1..walked : StackWeight(<<stack[n]>>, half, st) > 0}
<1>0. Len(stack) \in Nat
  OBVIOUS
<1>1. c \in 0..(Len(stack) - keep)
  BY <1>0, ShedCountFits
<1>2. c = IF paying = {} THEN 0 ELSE Max(paying)
  BY DEF ShedCount
<1>3. /\ walked \in 0..(Len(stack) - keep)
      /\ enough # {} => upTo(walked) >= excess
      /\ enough = {} => walked = Len(stack) - keep
  <2>1. enough \in SUBSET Nat
    OBVIOUS
  <2>2. enough # {} => Min(enough) \in enough
    <3> HIDE DEF enough
    <3> QED
      BY <2>1, MinIsLeast
  <2> QED
    BY <1>0, <2>2
<1>4. c \in 0..walked /\ \A n \in paying : n <= c
  <2>1. walked \in Nat /\ paying \in SUBSET (0..walked)
    BY <1>3
  <2> HIDE DEF paying, walked
  <2>2. CASE paying = {}
    BY <1>2, <2>1, <2>2
  <2>3. CASE paying # {}
    BY <1>2, <2>1, <2>3, MaxIsGreatest
  <2> QED
    BY <2>2, <2>3
<1>5. \A i \in 1..Len(stack) : stack[i] \in Seq(StepNo) /\ StackWeight(<<stack[i]>>, half, st) \in Nat
  <2> TAKE i \in 1..Len(stack)
  <2>1. stack[i] \in Seq(StepNo)
    OBVIOUS
  <2>2. <<stack[i]>> \in Seq(Seq(StepNo))
    BY <2>1
  <2> QED
    BY <2>1, <2>2, WeightIsNat
<1>6. Weightless(stack, half, st, c, walked)
  <2> SUFFICES ASSUME NEW i \in (c + 1)..walked PROVE StackWeight(<<stack[i]>>, half, st) = 0
    BY DEF Weightless
  <2>1. i \in 1..walked /\ i \in 1..Len(stack) /\ i > c
    <3> HIDE DEF walked, paying
    <3> QED
      BY <1>0, <1>1, <1>3
  <2>2. i \notin paying
    <3> HIDE DEF paying
    <3> QED
      BY <1>1, <1>4, <2>1
  <2>3. ~(StackWeight(<<stack[i]>>, half, st) > 0)
    BY <2>1, <2>2
  <2> QED
    BY <1>5, <2>1, <2>3
<1>7. CASE enough = {}
  BY <1>1, <1>3, <1>6, <1>7
<1>8. CASE enough # {}
  <2> DEFINE N == StepsIn(SubSeq(stack, 1, walked))
             M == StepsIn(SubSeq(stack, 1, c))
  <2>1. walked \in 0..Len(stack) /\ c \in 0..Len(stack) /\ c <= walked
    <3> HIDE DEF walked
    <3> QED
      BY <1>0, <1>1, <1>3, <1>4
  <2>2. N \subseteq StepNo
    <3> HIDE DEF walked
    <3> QED
      BY <2>1, DeepIsStack
  <2>3. M \subseteq N
    <3>1. \A n \in M : \E i \in 1..walked : n \in Range(stack[i])
      <4> HIDE DEF walked
      <4>1. \A i \in 1..c : i \in 1..walked
        BY <2>1
      <4> QED
        BY <2>1, <4>1, StepsOfDeep
    <3> HIDE DEF walked
    <3> QED
      BY <2>1, <3>1, StepsOfDeep
  <2>4. ASSUME NEW n \in N, n \notin M PROVE Weigh({n}, half, st) = 0
    <3> HIDE DEF walked
    <3>1. PICK i \in 1..walked : n \in Range(stack[i])
      BY <2>1, <2>4, StepsOfDeep
    <3>2. ~(i \in 1..c)
      BY <2>1, <2>4, <3>1, StepsOfDeep
    <3>3. i \in (c + 1)..walked /\ i \in 1..Len(stack)
      BY <2>1, <3>1, <3>2
    <3>4. StackWeight(<<stack[i]>>, half, st) = 0
      BY <1>6, <3>3 DEF Weightless
    <3>5. Weigh(Range(stack[i]), half, st) = 0
      BY <3>4, StackWeighs, StepsOfOne
    <3>6. Range(stack[i]) \subseteq StepNo /\ {n} \subseteq Range(stack[i])
      BY <1>5, <3>1, <3>3 DEF Range
    <3>7. Weigh({n}, half, st) \in Nat /\ Weigh({n}, half, st) <= 0
      BY <3>5, <3>6, WeighMore, TilesOf
    <3> QED
      BY <3>7
  <2>5. Weigh(N, half, st) = Weigh(M, half, st)
    <3>1. Nothing(N \ M, half, st)
      BY <2>4 DEF Nothing
    <3> HIDE DEF N, M
    <3> QED
      BY <2>2, <2>3, <3>1, WeighOnly
  <2>6. upTo(walked) = StackWeight(SubSeq(stack, 1, c), half, st)
    BY <2>5, StackWeighs
  <2>7. upTo(walked) >= excess
    BY <1>3, <1>8
  <2> QED
    BY <1>1, <2>6, <2>7
<1> QED
  BY <1>7, <1>8

\* The stacks u and r, no step in two of their entries.
Stacked(u, r) == u \in Seq(Seq(StepNo)) /\ r \in Seq(Seq(StepNo)) /\ Apart(u, r)

LEMMA RetainedWeighs ==
    ASSUME NEW u, NEW r, NEW st
    PROVE  Retained(u, r, st) = Weigh(StepsIn(u), "before", st) + Weigh(StepsIn(r), "after", st)
BY StackWeighs DEF Retained

\* A stack weighs what was dropped of it and what is left.
LEMMA WeightSplit ==
    ASSUME NEW u, NEW r, Stacked(u, r), NEW s, s = u \/ s = r,
           NEW d \in 0..Len(s), NEW v \in Seq(Seq(StepNo)), Later(v, s, d), NEW half, NEW st
    PROVE  StackWeight(s, half, st) =
               StackWeight(SubSeq(s, 1, d), half, st) + StackWeight(v, half, st)
<1> DEFINE M == StepsIn(SubSeq(s, 1, d))
           N == StepsIn(v)
<1>1. s \in Seq(Seq(StepNo))
  BY DEF Stacked
<1>2. StepsIn(s) = M \cup N
  BY <1>1, StepsSplit
<1>3. M \subseteq StepNo /\ N \subseteq StepNo
  BY <1>1, DeepIsStack, StepsAreSteps
<1>4. M \cap N = {}
  <2>1. u \in Seq(Seq(StepNo)) /\ r \in Seq(Seq(StepNo)) /\ Apart(u, r)
    BY DEF Stacked
  <2>2. 0 \in 0..Len(u) /\ 0 \in 0..Len(r) /\ Later(u, u, 0) /\ Later(r, r, 0)
    BY <2>1 DEF Later
  <2>3. CASE s = u
    BY <2>1, <2>2, <2>3, LaterApart
  <2>4. CASE s = r
    BY <2>1, <2>2, <2>4, LaterApart
  <2> QED
    BY <2>3, <2>4
<1> HIDE DEF M, N
<1>5. Weigh(M \cup N, half, st) = Weigh(M, half, st) + Weigh(N, half, st)
  BY <1>3, <1>4, WeighApart
<1> QED
  BY <1>2, <1>5, StackWeighs DEF M, N

\* The entries of a stack above upto are of the steps M.
TopIn(s, upto, M) == \A i \in (upto + 1)..Len(s) : Range(s[i]) \subseteq M

\* The steps left of a stack weigh nothing where their entries do not.
LEMMA WeightlessRest ==
    ASSUME NEW s \in Seq(Seq(StepNo)), NEW d \in 0..Len(s), NEW v \in Seq(Seq(StepNo)),
           Later(v, s, d), NEW upto \in 0..Len(s), NEW half, NEW st,
           Weightless(s, half, st, d, upto),
           NEW M, M \subseteq StepsIn(v), TopIn(s, upto, M)
    PROVE  StackWeight(v, half, st) = Weigh(M, half, st)
<1>1. StepsIn(v) \subseteq StepNo /\ Len(s) \in Nat
  BY StepsAreSteps
<1>2. ASSUME NEW n \in StepsIn(v) \ M PROVE Weigh({n}, half, st) = 0
  <2>1. PICK i \in (d + 1)..Len(s) : n \in Range(s[i])
    BY StepsSplit
  <2>2. ~(i \in (upto + 1)..Len(s))
    BY <1>2, <2>1 DEF TopIn
  <2>3. i \in (d + 1)..upto /\ i \in 1..Len(s)
    BY <1>1, <2>1, <2>2
  <2>4. StackWeight(<<s[i]>>, half, st) = 0
    BY <2>3 DEF Weightless
  <2>5. Weigh(Range(s[i]), half, st) = 0
    BY <2>4, StackWeighs, StepsOfOne
  <2>6. s[i] \in Seq(StepNo)
    BY <2>3
  <2>7. Range(s[i]) \subseteq StepNo /\ {n} \subseteq Range(s[i])
    BY <2>1, <2>6 DEF Range
  <2>8. Weigh({n}, half, st) \in Nat /\ Weigh({n}, half, st) <= 0
    BY <2>5, <2>7, WeighMore, TilesOf
  <2> QED
    BY <2>8
<1>3. Nothing(StepsIn(v) \ M, half, st)
  BY <1>2 DEF Nothing
<1>4. Weigh(StepsIn(v), half, st) = Weigh(M, half, st)
  BY <1>1, <1>3, WeighOnly
<1> QED
  BY <1>4, StackWeighs

LEMMA WeighNone ==
    ASSUME NEW half, NEW st
    PROVE  Weigh({}, half, st) = 0
<1>1. Tiles({}, half, st) = {}
  BY DEF Tiles
<1> QED
  BY <1>1, FS_EmptySet DEF Weigh

LEMMA EmptyWeighs ==
    ASSUME NEW half, NEW st
    PROVE  StackWeight(<<>>, half, st) = 0
<1>1. StepsIn(<<>>) = {}
  BY DEF StepsIn
<1> QED
  BY <1>1, WeighNone, StackWeighs

\* With the snapshots st the stacks u and r are over budget by the newest
\* entry alone; and what is so of the stacks at rest.
ByNewest(u, r, st, budget) ==
    Retained(u, r, st) > budget =>
        u # <<>> /\ Retained(u, r, st) = StackWeight(<<Last(u)>>, "before", st)
AtRest(u, r, st, sp, budget) == sp.base \in Nat /\ (sp = Idle => ByNewest(u, r, st, budget))
Rested == AtRest(undo, redo, steps, spill, Bytes)'

LEMMA LeaveWeighs ==
    ASSUME NEW u \in Seq(Seq(StepNo)), NEW r, NEW st, NEW fs, Leave(u, r, st, fs)
    PROVE  /\ undo' = u /\ redo' = r
           /\ Retained(undo', redo', steps') = Retained(u, r, st)
           /\ u # <<>> => StackWeight(<<Last(u)>>, "before", steps') =
                          StackWeight(<<Last(u)>>, "before", st)
<1>1. undo' = u /\ redo' = r
  BY DEF Leave
<1>2. \A n \in StepsIn(u) \cup StepsIn(r) : steps'[n] = st[n]
  BY DEF Leave
<1> PICK ot : ot = steps'
  OBVIOUS
<1>3. \A n \in StepsIn(u) : ot[n] = st[n]
  BY <1>2
<1>4. \A n \in StepsIn(r) : ot[n] = st[n]
  BY <1>2
<1>5. Retained(u, r, ot) = Retained(u, r, st)
  BY <1>3, <1>4, WeighSame, RetainedWeighs
<1>6. u # <<>> => StackWeight(<<Last(u)>>, "before", ot) = StackWeight(<<Last(u)>>, "before", st)
  <2> HAVE u # <<>>
  <2>1. StepsIn(u) = StepsIn(Front(u)) \cup Range(Last(u))
    BY StepsOfFront
  <2>2. \A n \in Range(Last(u)) : ot[n] = st[n]
    BY <1>3, <2>1
  <2> QED
    BY <2>2, WeighSame, StackWeighs, StepsOfOne
<1> QED
  BY <1>1, <1>5, <1>6

LEMMA LeaveRests ==
    ASSUME NEW u \in Seq(Seq(StepNo)), NEW r, NEW st, NEW fs, Leave(u, r, st, fs),
           spill'.base \in Nat, ByNewest(u, r, st, Bytes')
    PROVE  Rested
BY LeaveWeighs DEF Rested, AtRest, ByNewest

LEMMA ShedEntriesRests ==
    ASSUME NEW u, NEW r, Stacked(u, r), NEW st, NEW fs, OverBudget(u, r, st),
           ShedEntries(u, r, st, fs), spill'.base \in Nat
    PROVE  Rested
<1>1. PICK excess, e, left, d :
        /\ excess = Retained(u, r, st) - Bytes'
        /\ e = ShedCount(r, "after", st, excess, 0)
        /\ left = excess - StackWeight(SubSeq(r, 1, e), "after", st)
        /\ d = IF left > 0 /\ u # <<>> THEN ShedCount(u, "before", st, left, 1) ELSE 0
        /\ Leave(SubSeq(u, d + 1, Len(u)), SubSeq(r, e + 1, Len(r)), st,
                 fs \ (FilesOf(SubSeq(u, 1, d)) \cup FilesOf(SubSeq(r, 1, e))))
  BY DEF ShedEntries
<1>2. u \in Seq(Seq(StepNo)) /\ r \in Seq(Seq(StepNo)) /\ Len(u) \in Nat /\ Len(r) \in Nat
  BY DEF Stacked
<1>20. PICK wu, wr, b : /\ wu = StackWeight(u, "before", st) /\ wr = StackWeight(r, "after", st)
                     /\ b = Bytes'
  OBVIOUS
<1>3. wu \in Nat /\ wr \in Nat /\ b \in Nat /\ excess = wu + wr - b /\ excess \in Nat \ {0}
  <2>1. wu \in Nat /\ wr \in Nat /\ b \in Nat
    BY <1>2, <1>20, WeightIsNat, BytesAreNat
  <2>2. Retained(u, r, st) = wu + wr
    BY <1>20 DEF Retained
  <2>3. Retained(u, r, st) > b
    BY <1>20 DEF OverBudget
  <2> QED
    BY <1>1, <1>20, <2>1, <2>2, <2>3
<1>4. /\ e \in 0..Len(r)
      /\ \/ StackWeight(SubSeq(r, 1, e), "after", st) >= excess
         \/ Weightless(r, "after", st, e, Len(r))
  <2>1. excess \in Int /\ 0 \in Nat /\ 0 <= Len(r) /\ Len(r) - 0 = Len(r)
    BY <1>2, <1>3
  <2>2. /\ e \in 0..(Len(r) - 0)
        /\ \/ StackWeight(SubSeq(r, 1, e), "after", st) >= excess
           \/ Weightless(r, "after", st, e, Len(r) - 0)
    BY <1>1, <1>2, <2>1, ShedCountPays
  <2> QED
    BY <2>1, <2>2
<1> DEFINE w == SubSeq(r, e + 1, Len(r))
           v == SubSeq(u, d + 1, Len(u))
<1>5. w \in Seq(Seq(StepNo)) /\ Later(w, r, e)
  BY <1>2, <1>4, DropDeep
<1>21. PICK gone, rest : /\ gone = StackWeight(SubSeq(r, 1, e), "after", st)
                      /\ rest = StackWeight(w, "after", st)
  OBVIOUS
<1>6. gone \in Nat /\ rest \in Nat /\ wr = gone + rest
  <2>1. SubSeq(r, 1, e) \in Seq(Seq(StepNo))
    BY <1>2, <1>4, DeepIsStack
  <2> HIDE DEF w
  <2>2. gone \in Nat /\ rest \in Nat
    BY <1>5, <1>21, <2>1, WeightIsNat
  <2>3. wr = StackWeight(SubSeq(r, 1, e), "after", st) + StackWeight(w, "after", st)
    BY <1>4, <1>5, <1>20, WeightSplit
  <2> QED
    BY <1>21, <2>2, <2>3
<1>7. left = excess - gone
  BY <1>1, <1>21
<1>8. CASE gone >= excess
  <2>1. ~(left > 0)
    BY <1>3, <1>6, <1>7, <1>8
  <2>2. d = 0
    BY <1>1, <2>1
  <2>3. v = u
    BY <1>2, <2>2, SubSeqProperties
  <2>4. Retained(u, w, st) = wu + rest
    BY <1>20, <1>21 DEF Retained
  <2>5. wu + rest <= b
    BY <1>3, <1>6, <1>8
  <2>6. ByNewest(u, w, st, Bytes')
    BY <1>3, <1>6, <1>20, <2>4, <2>5 DEF ByNewest
  <2>7. Leave(u, w, st, fs \ (FilesOf(SubSeq(u, 1, d)) \cup FilesOf(SubSeq(r, 1, e))))
    BY <1>1, <2>3
  <2> HIDE DEF w
  <2> QED
    BY <1>2, <2>6, <2>7, LeaveRests
<1>9. CASE ~(gone >= excess)
  <2>1. Weightless(r, "after", st, e, Len(r))
    BY <1>4, <1>9, <1>21
  <2>2. rest = 0
    <3>1. TopIn(r, Len(r), {})
      BY <1>2 DEF TopIn
    <3>2. Len(r) \in 0..Len(r)
      BY <1>2
    <3> HIDE DEF w
    <3>3. rest = Weigh({}, "after", st)
      <4>1. {} \subseteq StepsIn(w)
        OBVIOUS
      <4> QED
        BY <1>2, <1>4, <1>5, <1>21, <2>1, <3>1, <3>2, <4>1, WeightlessRest
    <3> QED
      BY <3>3, WeighNone
  <2>3. left \in Nat \ {0}
    BY <1>3, <1>6, <1>7, <1>9
  <2>4. CASE u = <<>>
    <3>1. v = <<>> /\ v \in Seq(Seq(StepNo))
      <4>1. d = 0
        BY <1>1, <2>4
      <4> QED
        BY <1>2, <2>4, <4>1, SubSeqProperties
    <3>2. StackWeight(<<>>, "before", st) = 0
      BY EmptyWeighs
    <3>3. Retained(v, w, st) = 0
      <4>1. Retained(v, w, st) = 0 + 0
        BY <1>21, <2>2, <3>1, <3>2 DEF Retained
      <4> QED
        BY <4>1
    <3> HIDE DEF v, w
    <3>4. ByNewest(v, w, st, Bytes')
      BY <1>3, <1>20, <3>3 DEF ByNewest
    <3>5. Leave(v, w, st, fs \ (FilesOf(SubSeq(u, 1, d)) \cup FilesOf(SubSeq(r, 1, e))))
      BY <1>1 DEF v, w
    <3> QED
      BY <3>1, <3>4, <3>5, LeaveRests
  <2>5. CASE u # <<>>
    <3>1. d = ShedCount(u, "before", st, left, 1) /\ 1 <= Len(u)
      BY <1>1, <1>2, <2>3, <2>5, EmptySeq
    <3>2. /\ d \in 0..(Len(u) - 1)
          /\ \/ StackWeight(SubSeq(u, 1, d), "before", st) >= left
             \/ Weightless(u, "before", st, d, Len(u) - 1)
      BY <1>2, <2>3, <3>1, ShedCountPays
    <3>3. d \in 0..Len(u) /\ d < Len(u)
      BY <1>2, <3>1, <3>2
    <3>4. v \in Seq(Seq(StepNo)) /\ Later(v, u, d)
      BY <1>2, <3>3, DropDeep
    <3>20. PICK off, kept : /\ off = StackWeight(SubSeq(u, 1, d), "before", st)
                         /\ kept = StackWeight(v, "before", st)
      OBVIOUS
    <3>5. off \in Nat /\ kept \in Nat /\ wu = off + kept
      <4>1. SubSeq(u, 1, d) \in Seq(Seq(StepNo))
        BY <1>2, <3>3, DeepIsStack
      <4> HIDE DEF v
      <4>2. off \in Nat /\ kept \in Nat
        BY <3>4, <3>20, <4>1, WeightIsNat
      <4>3. wu = StackWeight(SubSeq(u, 1, d), "before", st) + StackWeight(v, "before", st)
        BY <1>20, <3>3, <3>4, WeightSplit
      <4> QED
        BY <3>20, <4>2, <4>3
    <3>6. v # <<>> /\ Last(v) = Last(u) /\ Range(Last(u)) \subseteq StepsIn(v)
      <4> HIDE DEF v
      <4>1. Len(v) = Len(u) - d /\ \A i \in 1..(Len(u) - d) : v[i] = u[i + d]
        BY <3>4 DEF Later
      <4>2. Len(v) \in 1..(Len(u) - d) /\ Len(v) + d = Len(u)
        BY <1>2, <3>3, <4>1
      <4>3. v # <<>>
        BY <3>4, <4>2, EmptySeq
      <4>4. v[Len(v)] = u[Len(u)]
        BY <4>1, <4>2
      <4>5. Last(v) = Last(u)
        BY <4>4 DEF Last
      <4>6. StepsIn(v) = StepsIn(Front(v)) \cup Range(Last(v))
        BY <3>4, <4>3, StepsOfFront
      <4> QED
        BY <4>3, <4>5, <4>6
    <3>7. Retained(v, w, st) = kept
      <4>1. Retained(v, w, st) = kept + rest
        BY <1>21, <3>20 DEF Retained
      <4> QED
        BY <2>2, <3>5, <4>1
    <3>8. ByNewest(v, w, st, Bytes')
      <4>1. CASE off >= left
        <5>1. kept <= b
          BY <1>3, <1>6, <1>7, <2>2, <3>5, <4>1
        <5> HIDE DEF v, w
        <5> QED
          BY <1>3, <1>20, <3>5, <3>7, <5>1 DEF ByNewest
      <4>2. CASE ~(off >= left)
        <5>1. Weightless(u, "before", st, d, Len(u) - 1)
          BY <3>2, <3>20, <4>2
        <5>2. TopIn(u, Len(u) - 1, Range(Last(u)))
          <6>1. \A i \in (Len(u) - 1 + 1)..Len(u) : i = Len(u)
            BY <1>2
          <6> QED
            BY <6>1 DEF Last, TopIn
        <5>3. Len(u) - 1 \in 0..Len(u)
          BY <1>2, <3>1
        <5>6. PICK top : top = Len(u) - 1
          OBVIOUS
        <5>7. Weightless(u, "before", st, d, top) /\ TopIn(u, top, Range(Last(u))) /\ top \in 0..Len(u)
          BY <5>1, <5>2, <5>3, <5>6
        <5> HIDE DEF v, w
        <5>4. kept = Weigh(Range(Last(u)), "before", st)
          BY <1>2, <3>3, <3>4, <3>6, <3>20, <5>7, WeightlessRest
        <5>5. kept = StackWeight(<<Last(v)>>, "before", st)
          BY <3>6, <5>4, StackWeighs, StepsOfOne
        <5> QED
          BY <3>6, <3>7, <5>5 DEF ByNewest
      <4> QED
        BY <4>1, <4>2
    <3> HIDE DEF v, w
    <3>9. Leave(v, w, st, fs \ (FilesOf(SubSeq(u, 1, d)) \cup FilesOf(SubSeq(r, 1, e))))
      BY <1>1 DEF v, w
    <3> QED
      BY <3>4, <3>8, <3>9, LeaveRests
  <2> QED
    BY <2>4, <2>5
<1> QED
  BY <1>8, <1>9

LEMMA ShedRests ==
    ASSUME NEW u, NEW r, Stacked(u, r), NEW st, NEW fs, Shed(u, r, st, fs),
           spill'.base \in Nat
    PROVE  Rested
<1>1. u \in Seq(Seq(StepNo))
  BY DEF Stacked
<1>2. CASE ~OverBudget(u, r, st) /\ Leave(u, r, st, fs)
  <2>1. ByNewest(u, r, st, Bytes')
    BY <1>2 DEF OverBudget, ByNewest
  <2> QED
    BY <1>1, <1>2, <2>1, LeaveRests
<1>3. PICK bare : bare = NoneAhead(st)
  OBVIOUS
<1>4. CASE ~OverBudget(u, r, bare) /\ Leave(u, r, bare, fs)
  <2>1. ByNewest(u, r, bare, Bytes')
    BY <1>4 DEF OverBudget, ByNewest
  <2> QED
    BY <1>1, <1>4, <2>1, LeaveRests
<1>5. CASE OverBudget(u, r, bare) /\ ShedEntries(u, r, bare, fs)
  BY <1>5, ShedEntriesRests
<1> QED
  BY <1>2, <1>3, <1>4, <1>5 DEF Shed

\* A pass that ends is over budget by the newest entry alone; one that goes
\* on is not idle.
LEMMA IdleBase ==
    /\ Idle.base \in Nat /\ Idle.rest = <<>>
    /\ \A go, base : /\ Spilling(go, base).base = base
                     /\ go.stack # "none" => Spilling(go, base) # Idle
<1>1. Idle.base \in Nat /\ Idle.rest = <<>> /\ Idle.stack = "none"
  BY DEF Idle
<1>2. \A go, base : Spilling(go, base).base = base /\ Spilling(go, base).stack = go.stack
  BY DEF Spilling
<1> QED
  BY <1>1, <1>2

LEMMA StandDownRests ==
    ASSUME NEW u, NEW r, Stacked(u, r), NEW st, NEW fs, NEW why,
           StandDown(u, r, st, fs, why)
    PROVE  Rested
<1>1. spill' = Idle /\ Shed(u, r, st, fs)
  BY DEF StandDown
<1> QED
  BY <1>1, IdleBase, ShedRests

LEMMA GoesOnRests ==
    ASSUME NEW u \in Seq(Seq(StepNo)), NEW r, NEW fs, NEW go, go.stack # "none",
           NEW base \in Nat, spill' = Spilling(go, base), Leave(u, r, go.steps, fs)
    PROVE  Rested
BY IdleBase DEF Rested, AtRest

LEMMA StartPassRests ==
    ASSUME NEW u, NEW r, Stacked(u, r), NEW st, NEW fs, NEW total \in Nat,
           StartPass(u, r, st, fs, total)
    PROVE  Rested
<1>1. PICK go :
        \/ /\ go.stack # "none"
           /\ spill' = Spilling(go, total) /\ Leave(u, r, go.steps, fs)
        \/ ~OverBudget(u, r, go.steps) /\ spill' = Idle /\ Leave(u, r, go.steps, fs)
        \/ StandDown(u, r, go.steps, fs, "stuck")
  BY DEF StartPass
<1>2. u \in Seq(Seq(StepNo))
  BY DEF Stacked
<1>3. CASE go.stack # "none" /\ spill' = Spilling(go, total) /\ Leave(u, r, go.steps, fs)
  BY <1>2, <1>3, GoesOnRests
<1>4. CASE ~OverBudget(u, r, go.steps) /\ spill' = Idle /\ Leave(u, r, go.steps, fs)
  <2>1. ByNewest(u, r, go.steps, Bytes')
    BY <1>4 DEF OverBudget, ByNewest
  <2> QED
    BY <1>2, <1>4, <2>1, IdleBase, LeaveRests
<1>5. CASE StandDown(u, r, go.steps, fs, "stuck")
  BY <1>5, StandDownRests
<1> QED
  BY <1>1, <1>3, <1>4, <1>5

LEMMA StackedWeighs ==
    ASSUME NEW u, NEW r, Stacked(u, r), NEW st
    PROVE  Retained(u, r, st) \in Nat
BY WeightIsNat DEF Stacked, Retained

LEMMA TrimRests ==
    ASSUME NEW u, NEW r, Stacked(u, r), NEW st, NEW fs, spill.base \in Nat,
           NEW stand, Trim(u, r, st, fs, stand)
    PROVE  Rested
<1>1. PICK total : /\ total = Retained(u, r, st)
                   /\ \/ StartPass(u, r, st, fs, total)
                      \/ UNCHANGED spill /\ Shed(u, r, st, fs)
                      \/ /\ ~(total > Bytes' /\ spill = Idle)
                         /\ UNCHANGED spill /\ Leave(u, r, st, fs)
  BY DEF Trim
<1>2. u \in Seq(Seq(StepNo)) /\ total \in Nat
  BY <1>1, StackedWeighs DEF Stacked
<1>3. CASE StartPass(u, r, st, fs, total)
  BY <1>2, <1>3, StartPassRests
<1>4. CASE UNCHANGED spill /\ Shed(u, r, st, fs)
  BY <1>4, ShedRests
<1>5. CASE /\ ~(total > Bytes' /\ spill = Idle)
           /\ UNCHANGED spill /\ Leave(u, r, st, fs)
  <2>1. CASE spill = Idle
    <3>1. ByNewest(u, r, st, Bytes')
      BY <1>1, <1>5, <2>1 DEF ByNewest
    <3> QED
      BY <1>2, <1>5, <3>1, LeaveRests
  <2>2. CASE spill # Idle
    BY <1>5, <2>2 DEF Rested, AtRest
  <2> QED
    BY <2>1, <2>2
<1> QED
  BY <1>1, <1>3, <1>4, <1>5

LEMMA ProceedRests ==
    ASSUME Stacked(undo, redo), NEW st, NEW fs, spill.base \in Nat, Proceed(st, fs)
    PROVE  Rested
<1>1. PICK go, left :
        /\ left = Retained(undo, redo, go.steps)
        /\ \/ /\ go.stack # "none" /\ spill' = Spilling(go, spill.base)
              /\ Leave(undo, redo, go.steps, fs)
           \/ StandDown(undo, redo, go.steps, fs, "stuck")
           \/ StartPass(undo, redo, go.steps, fs, left)
           \/ /\ ~(left >= spill.base) /\ ~(left < spill.base /\ left > Bytes')
              /\ spill' = Idle /\ Leave(undo, redo, go.steps, fs)
  BY DEF Proceed
<1>2. undo \in Seq(Seq(StepNo)) /\ left \in Nat
  BY <1>1, StackedWeighs DEF Stacked
<1>3. CASE /\ go.stack # "none" /\ spill' = Spilling(go, spill.base)
           /\ Leave(undo, redo, go.steps, fs)
  <2>1. PICK base : base = spill.base
    OBVIOUS
  <2> QED
    BY <1>2, <1>3, <2>1, GoesOnRests
<1>4. CASE StandDown(undo, redo, go.steps, fs, "stuck")
  BY <1>4, StandDownRests
<1>5. CASE StartPass(undo, redo, go.steps, fs, left)
  BY <1>2, <1>5, StartPassRests
<1>6. CASE /\ ~(left >= spill.base) /\ ~(left < spill.base /\ left > Bytes')
           /\ spill' = Idle /\ Leave(undo, redo, go.steps, fs)
  <2>1. PICK base, budget : base = spill.base /\ budget = Bytes'
    OBVIOUS
  <2>2. base \in Nat /\ budget \in Nat /\ ~(left >= base) /\ ~(left < base /\ left > budget)
    BY <1>6, <2>1, BytesAreNat
  <2>3. ~(left > budget)
    BY <1>2, <2>2
  <2>4. ByNewest(undo, redo, go.steps, Bytes')
    BY <1>1, <2>1, <2>3 DEF ByNewest
  <2> QED
    BY <1>2, <1>6, <2>4, IdleBase, LeaveRests
<1> QED
  BY <1>1, <1>3, <1>4, <1>5, <1>6

LEMMA EntryParkedRests ==
    ASSUME Stacked(undo, redo), NEW st, NEW fs, spill.base \in Nat,
           NEW ok, EntryParked(ok, st, fs)
    PROVE  Rested
BY ProceedRests, StandDownRests DEF EntryParked

LEMMA LandRests ==
    ASSUME Stacked(undo, redo), PassFits(spill, steps), spill.base \in Nat, Land
    PROVE  open' = open /\ spill'.base \in Nat /\ (open => Rested)
<1>1. PICK rest, ok, st, fs :
        /\ open' = open
        /\ \/ rest # <<>> /\ spill' = [spill EXCEPT !.rest = rest, !.ok = ok]
           \/ open /\ EntryParked(ok, st, fs)
           \/ ~open /\ spill' = Idle
  BY DEF Land, Lands
<1>2. CASE rest # <<>> /\ spill' = [spill EXCEPT !.rest = rest, !.ok = ok]
  <2>1. "base" \in DOMAIN spill /\ "rest" \in DOMAIN spill
    BY DEF PassFits, Idle
  <2>2. spill'.base = spill.base /\ spill'.rest = rest
    BY <1>2, <2>1
  <2> QED
    BY <1>1, <1>2, <2>2, IdleBase DEF Rested, AtRest
<1>3. CASE open /\ EntryParked(ok, st, fs)
  <2>1. Rested
    BY <1>3, EntryParkedRests
  <2> QED
    BY <1>1, <2>1 DEF Rested, AtRest
<1>4. CASE ~open /\ spill' = Idle
  BY <1>1, <1>4, IdleBase
<1> QED
  BY <1>1, <1>2, <1>3, <1>4

-----------------------------------------------------------------------------
(* What the operations leave at rest.                                       *)

\* With nothing to write under way the stacks are over budget by the newest
\* entry alone; and a memory warning has made the budget smaller.
BInv ==
    /\ warned => Tight < Normal
    /\ spill.base \in Nat
    /\ open /\ spill = Idle => ByNewest(undo, redo, steps, Bytes)

LEMMA InvStacked ==
    ASSUME IInv
    PROVE  Stacked(undo, redo)
BY InvTyped DEF IInv, StacksFit, Stacked

LEMMA FitStacked ==
    ASSUME IInv, NEW u, NEW r, StacksFit(u, r, made)
    PROVE  Stacked(u, r)
BY InvTyped DEF StacksFit, Stacked

LEMMA RestedKeeps ==
    ASSUME BInv, UNCHANGED warned, Rested
    PROVE  BInv'
BY DEF BInv, Rested, AtRest

LEMMA TrimKeepsRest ==
    ASSUME IInv, BInv, UNCHANGED warned, NEW u, NEW r, StacksFit(u, r, made),
           NEW st, NEW fs, NEW stand, Trim(u, r, st, fs, stand)
    PROVE  BInv'
<1>1. Stacked(u, r) /\ spill.base \in Nat
  BY FitStacked DEF BInv
<1>2. Rested
  BY <1>1, TrimRests
<1> QED
  BY <1>2, RestedKeeps

\* A new entry pushed over the steps made.
LEMMA PushStacked ==
    ASSUME IInv, NEW m \in Nat, made <= m, m <= MaxEdits,
           NEW e \in Seq(1..m), Range(e) \cap (1..made) = {},
           NEW g, g = Append(undo, e), NEW d \in 0..Len(g)
    PROVE  Stacked(SubSeq(g, d + 1, Len(g)), <<>>)
<1>1. /\ undo \in Seq(Seq(1..made)) /\ Apart(undo, redo) /\ made \in Nat
      /\ undo \in Seq(Seq(StepNo))
  BY InvTyped DEF IInv, StacksFit
<1>2. e \in Seq(StepNo)
  <2>1. 1..m \subseteq StepNo
    BY BudgetAssumption DEF StepNo
  <2> QED
    BY <2>1, SeqMonotonic
<1>3. PICK none \in Seq(Seq(StepNo)) : none = <<>>
  BY EmptySeq
<1>4. DOMAIN none = {} /\ StepsIn(none) = {} /\ Len(none) = 0
  BY <1>3 DEF StepsIn
<1>5. Apart(undo, none)
  BY <1>1, <1>4 DEF Apart
<1>6. StepsIn(undo) \subseteq 1..made
  <2>1. ASSUME NEW k \in StepsIn(undo) PROVE k \in 1..made
    <3>1. PICK i \in DOMAIN undo : k \in Range(undo[i])
      BY <2>1, StepOf
    <3>2. undo[i] \in Seq(1..made)
      BY <1>1, <3>1
    <3> QED
      BY <3>1, <3>2, RangeOfSeq
  <2> QED
    BY <2>1
<1>7. Apart(g, none) /\ g \in Seq(Seq(StepNo))
  <2>1. Range(e) \cap (StepsIn(undo) \cup StepsIn(none)) = {}
    BY <1>4, <1>6
  <2> QED
    BY <1>1, <1>2, <1>5, <2>1, ApartAppend, AppendProperties
<1>8. PICK v : v = SubSeq(g, d + 1, Len(g))
  OBVIOUS
<1>9. v \in Seq(Seq(StepNo)) /\ Later(v, g, d)
  BY <1>7, <1>8, DropDeep
<1>10. Later(none, none, 0) /\ 0 \in 0..Len(none)
  BY <1>4 DEF Later
<1>11. Apart(v, none)
  BY <1>7, <1>9, <1>10, LaterApart
<1> QED
  BY <1>3, <1>8, <1>9, <1>11 DEF Stacked

LEMMA DrawRests ==
    ASSUME IInv, BInv, NEW strokes, NEW s \in Strokes, NEW t \in Strokes,
           strokes = <<s>> \/ strokes = <<s, t>>, Draw(strokes)
    PROVE  BInv'
<1>1. PICK m, e, st :
        /\ m = made + Len(strokes) /\ m <= MaxEdits /\ e = [i \in 1..Len(strokes) |-> made + i]
        /\ UNCHANGED warned /\ Push(e, st)
  BY DEF Draw
<1>2. made \in Nat /\ Len(strokes) \in {1, 2}
  BY InvTyped
<1>3. m \in Nat /\ made <= m
  BY <1>1, <1>2
<1>4. e \in Seq(1..m) /\ Range(e) \cap (1..made) = {}
  <2>1. \A i \in 1..Len(strokes) : made + i \in 1..m /\ made + i \notin 1..made
    BY <1>1, <1>2
  <2>2. e \in [1..Len(strokes) -> 1..m] /\ Len(strokes) \in Nat /\ DOMAIN e = 1..Len(strokes)
    BY <1>1, <1>2, <2>1
  <2>3. e \in Seq(1..m)
    BY <2>2, SeqDef
  <2>4. Range(e) = {made + i : i \in 1..Len(strokes)}
    BY <1>1, <2>2 DEF Range
  <2> QED
    BY <2>1, <2>3, <2>4
<1>5. PICK g, d, fs :
        /\ g = Append(undo, e) /\ d = IF Len(g) > MaxEntries THEN Len(g) - MaxEntries ELSE 0
        /\ Trim(SubSeq(g, d + 1, Len(g)), <<>>, st, fs, "no")
  BY <1>1 DEF Push
<1>6. d \in 0..Len(g)
  <2>1. Len(g) \in Nat
    <3>1. Len(g) = Len(undo) + 1 /\ Len(undo) \in Nat
      BY <1>4, <1>5, DepthFits, InvTyped, AppendProperties
    <3> QED
      BY <3>1
  <2>2. MaxEntries \in Nat
    BY BudgetAssumption
  <2> QED
    BY <1>5, <2>1, <2>2
<1>7. Stacked(SubSeq(g, d + 1, Len(g)), <<>>)
  BY <1>1, <1>3, <1>4, <1>5, <1>6, PushStacked
<1>8. PICK v, none : v = SubSeq(g, d + 1, Len(g)) /\ none = <<>>
  OBVIOUS
<1>9. Stacked(v, none) /\ Trim(v, none, st, fs, "no") /\ spill.base \in Nat
  BY <1>5, <1>7, <1>8 DEF BInv
<1>10. Rested
  BY <1>9, TrimRests
<1> QED
  BY <1>1, <1>10, RestedKeeps

LEMMA UndoRests ==
    ASSUME IInv, BInv, Undo
    PROVE  BInv'
<1>1. StacksFit(undo, redo, made) /\ RunFits(run, undo, made) /\ undo # <<>> /\ ~CanTakeBack
  BY DEF IInv, Undo
<1>2. LetGo = undo
  BY <1>1, LetGoFits
<1>3. PICK k, u, r :
          /\ u = Front(undo) /\ r = Append(redo, Last(undo))
          /\ UNCHANGED warned /\ Trim(u, r, k.steps, k.files, stood)
  BY <1>2 DEF Undo
<1>4. StacksFit(u, r, made)
  BY <1>1, <1>3, UndoneFits
<1> QED
  BY <1>3, <1>4, TrimKeepsRest

LEMMA RedoRests ==
    ASSUME IInv, BInv, Redo
    PROVE  BInv'
<1>1. PICK e, k, u, r :
          /\ e = Last(redo) /\ r = Front(redo)
          /\ u = IF e = <<>> THEN LetGo ELSE Append(LetGo, e)
          /\ UNCHANGED warned /\ Trim(u, r, k.steps, k.files, stood)
  BY DEF Redo
<1>2. redo # <<>> /\ StacksFit(undo, redo, made) /\ RunFits(run, undo, made)
  BY DEF IInv, Redo
<1>3. StacksFit(u, r, made)
  <2>1. PICK l, w : l = LetGo /\ w = redo
    OBVIOUS
  <2>2. StacksFit(l, w, made) /\ w # <<>>
    BY <1>2, <2>1, LetGoFits
  <2>3. Regrown(u, l, Last(w))
    BY <1>1, <2>1 DEF Regrown
  <2>4. StacksFit(u, Front(w), made)
    BY <2>2, <2>3, RedoneFits
  <2> QED
    BY <1>1, <2>1, <2>4
<1> QED
  BY <1>1, <1>3, TrimKeepsRest

LEMMA TrimmedRests ==
    ASSUME IInv, BInv, ReadAhead \/ MemoryWarning
    PROVE  BInv'
<1>1. PICK st : Trim(undo, redo, st, files, stood)
  BY DEF ReadAhead, MemoryWarning
<1>2. Rested
  BY <1>1, InvStacked, TrimRests DEF BInv
<1>3. warned' => Tight < Normal
  BY DEF ReadAhead, MemoryWarning, BInv
<1> QED
  BY <1>2, <1>3 DEF BInv, Rested, AtRest

LEMMA LandKeepsRest ==
    ASSUME IInv, BInv, Land
    PROVE  BInv'
<1>1. open' = open /\ spill'.base \in Nat /\ (open => Rested)
  BY InvStacked, LandRests DEF IInv, BInv
<1>2. warned' = warned
  BY DEF Land, Lands
<1> QED
  BY <1>1, <1>2 DEF BInv, Rested, AtRest

\* Steps put back leave the others' snapshots alone.
LEMMA RestoredFrame ==
    ASSUME NEW D, NEW k \in Shown(D), NEW n \in D, NEW half \in Half,
           NEW l, l = Restored(k, n, half), NEW m \in D, m # n
    PROVE  l.steps[m] = k.steps[m]
<1>1. PICK st \in [D -> [Half -> Snapshots]] : st = k.steps
  BY DEF Shown
<1>2. DOMAIN k = {"cel", "steps", "files"} /\ k = [cel |-> k.cel, steps |-> st, files |-> k.files]
  BY <1>1 DEF Shown
<1>3. PICK p, t, fs, c : \/ l = [k EXCEPT !.cel = c]
                         \/ l = [cel |-> p, steps |-> [k.steps EXCEPT ![n][half] = t], files |-> fs]
                         \/ l = [k EXCEPT !.steps[n][half].ahead = {}]
  BY DEF Restored
<1>4. CASE l = [k EXCEPT !.cel = c]
  BY <1>2, <1>4
<1>5. CASE l = [cel |-> p, steps |-> [k.steps EXCEPT ![n][half] = t], files |-> fs]
  BY <1>1, <1>5
<1>6. CASE l = [k EXCEPT !.steps[n][half].ahead = {}]
  <2>1. PICK s : s = [st[n][half] EXCEPT !.ahead = {}]
    OBVIOUS
  <2>2. l.steps = [st EXCEPT ![n][half] = s]
    BY <1>1, <1>2, <1>6, <2>1
  <2> QED
    BY <1>1, <2>2
<1> QED
  BY <1>3, <1>4, <1>5, <1>6

LEMMA PutBackFrame ==
    ASSUME cel \in Pic, Given(undo, redo, steps, files),
           NEW ns \in Seq(StepNo), Range(ns) \subseteq DOMAIN steps, NEW half \in Half,
           NEW k, k = PutBack(ns, half), NEW m \in DOMAIN steps, m \notin Range(ns)
    PROVE  k.steps[m] = steps[m]
<1> DEFINE D == DOMAIN steps
           S == {q \in Shown(D) : q.steps[m] = steps[m]}
<1>1. AsItIs \in S
  <2>1. files \in SUBSET (StepNo \X Half)
    <3>1. StepsIn(undo) \subseteq StepNo /\ StepsIn(redo) \subseteq StepNo
      BY StepsAreSteps DEF Given
    <3> QED
      BY <3>1 DEF Given, Exact, Parked, FilesOf
  <2>2. AsItIs \in Shown(D) /\ AsItIs.steps = steps
    BY <2>1 DEF AsItIs, Shown, Given, SnapsFit
  <2> QED
    BY <2>2
<1>2. ASSUME NEW i \in 1..Len(ns), NEW q \in S PROVE Restored(q, ns[i], half) \in S
  <2>1. PICK n \in D : n = ns[i] /\ n # m
    BY DEF Range
  <2>2. PICK l : l = Restored(q, n, half)
    OBVIOUS
  <2>3. q \in Shown(D)
    OBVIOUS
  <2>4. l \in Shown(D)
    BY <2>1, <2>2, <2>3, RestoredFits
  <2>5. l.steps[m] = q.steps[m]
    BY <2>1, <2>2, <2>3, RestoredFrame
  <2> QED
    BY <2>1, <2>2, <2>4, <2>5
<1>3. k \in S
  <2>1. Len(ns) \in Nat
    OBVIOUS
  <2> HIDE DEF S
  <2> QED
    BY <1>1, <1>2, <2>1, PutBackStays
<1> QED
  BY <1>3

\* The newest entry taken from stacks over budget by it alone.
LEMMA TakenRests ==
    ASSUME NEW u, NEW r, Stacked(u, r), u # <<>>, NEW st, NEW budget \in Nat,
           ByNewest(u, r, st, budget),
           NEW ot, \A n \in StepsIn(Front(u)) \cup StepsIn(r) : ot[n] = st[n]
    PROVE  ~(Retained(Front(u), r, ot) > budget)
<1>1. u \in Seq(Seq(StepNo)) /\ r \in Seq(Seq(StepNo)) /\ Apart(u, r)
  BY DEF Stacked
<1> DEFINE F == StepsIn(Front(u))
           T == Range(Last(u))
           R == StepsIn(r)
<1>2. /\ StepsIn(u) = F \cup T /\ T \cap F = {} /\ F \cap T = {}
      /\ StepsIn(u) \subseteq StepNo /\ R \subseteq StepNo
  BY <1>1, StepsOfFront, ApartFront, StepsAreSteps
<1> PICK f, t, w, g, x : /\ f = Weigh(F, "before", st) /\ t = Weigh(T, "before", st)
                         /\ w = Weigh(R, "after", st)
                         /\ g = Weigh(F, "before", ot) /\ x = Weigh(R, "after", ot)
  OBVIOUS
<1>3. g = f /\ x = w
  BY WeighSame
<1>4. f \in Nat /\ t \in Nat /\ w \in Nat
  BY <1>2, TilesOf
<1>5. Weigh(F \cup T, "before", st) = f + t
  BY <1>2, WeighApart
<1>6. Retained(u, r, st) = (f + t) + w
  BY <1>2, <1>5, RetainedWeighs
<1>7. Retained(Front(u), r, ot) = f + w
  BY <1>3, RetainedWeighs
<1>8. StackWeight(<<Last(u)>>, "before", st) = t
  BY StackWeighs, StepsOfOne
<1>9. (f + t) + w > budget => (f + t) + w = t
  BY <1>6, <1>8 DEF ByNewest
<1>10. ~(f + w > budget)
  BY <1>4, <1>9
<1> QED
  BY <1>7, <1>10

LEMMA TakeBackRests ==
    ASSUME IInv, BInv, TakeBack
    PROVE  BInv'
<1>1. PICK e, k : /\ e = Last(undo) /\ k = TakenBack(e) /\ CanTakeBack
                  /\ UNCHANGED <<warned, spill, open>>
                  /\ Leave(Front(undo), redo, k.steps, k.files \ FilesOf(<<e>>))
  BY DEF TakeBack, pass
<1>2. undo # <<>>
  <2>1. Len(undo) > run.depth /\ run.depth \in Nat
    BY <1>1, BudgetAssumption DEF CanTakeBack, IInv, RunFits, RunsOf
  <2> QED
    BY <2>1, Len(<<>>) = 0
<1>3. Stacked(undo, redo)
  BY InvStacked
<1>4. PICK ns \in Seq(StepNo) : ns = Reverse(e) /\ Range(ns) \subseteq Range(e) /\ Range(ns) \subseteq DOMAIN steps
  <2>1. e \in Seq(StepNo) /\ Reverse(e) \in Seq(StepNo) /\ Range(Reverse(e)) \subseteq DOMAIN steps
    BY <1>1, <1>2, TopSteps
  <2> QED
    BY <2>1, ReverseOf
<1>5. /\ StepsIn(undo) = StepsIn(Front(undo)) \cup Range(e)
      /\ Range(e) \cap (StepsIn(Front(undo)) \cup StepsIn(redo)) = {}
  BY <1>1, <1>2, <1>3, StepsOfFront, ApartFront DEF Stacked
<1>6. cel \in Pic /\ Given(undo, redo, steps, files)
  BY InvGiven DEF IInv, RestHolds
<1>7. \A n \in StepsIn(Front(undo)) \cup StepsIn(redo) : k.steps[n] = steps[n]
  <2> TAKE n \in StepsIn(Front(undo)) \cup StepsIn(redo)
  <2>1. n \in DOMAIN steps /\ n \notin Range(ns)
    BY <1>4, <1>5, <1>6 DEF Given
  <2>2. k = PutBack(ns, "before") /\ "before" \in Half
    BY <1>1, <1>4 DEF TakenBack, Half
  <2> QED
    BY <1>4, <1>6, <2>1, <2>2, PutBackFrame
<1>8. \A n \in StepsIn(Front(undo)) \cup StepsIn(redo) : steps'[n] = steps[n]
  BY <1>1, <1>7 DEF Leave
<1>9. undo' = Front(undo) /\ redo' = redo /\ Bytes' = Bytes /\ Bytes' \in Nat
  BY <1>1, BytesAreNat DEF Leave, Bytes
<1>10. ASSUME open, spill = Idle PROVE ~(Retained(undo', redo', steps') > Bytes')
  <2>1. PICK ot, budget : ot = steps' /\ budget = Bytes
    OBVIOUS
  <2>2. ByNewest(undo, redo, steps, budget) /\ budget \in Nat
    BY <1>9, <1>10, <2>1 DEF BInv
  <2>3. ~(Retained(Front(undo), redo, ot) > budget)
    BY <1>2, <1>3, <1>8, <2>1, <2>2, TakenRests
  <2> QED
    BY <1>9, <2>1, <2>3
<1> QED
  BY <1>1, <1>10 DEF BInv, ByNewest

\* The newest entry grown by the entries below it.
LEMMA FoldedRests ==
    ASSUME NEW u \in Seq(Seq(StepNo)), u # <<>>, NEW r \in Seq(Seq(StepNo)),
           NEW v \in Seq(Seq(StepNo)), v # <<>>, StepsIn(v) = StepsIn(u),
           Range(Last(u)) \subseteq Range(Last(v)), NEW st, NEW budget,
           ByNewest(u, r, st, budget)
    PROVE  ByNewest(v, r, st, budget)
<1>1. Retained(v, r, st) = Retained(u, r, st)
  BY RetainedWeighs
<1>2. /\ StepsIn(u) \subseteq StepNo /\ StepsIn(r) \subseteq StepNo
      /\ Range(Last(v)) \subseteq StepsIn(v) /\ Range(Last(u)) \subseteq StepNo
  <2>1. StepsIn(v) = StepsIn(Front(v)) \cup Range(Last(v))
        /\ StepsIn(u) = StepsIn(Front(u)) \cup Range(Last(u))
    BY StepsOfFront
  <2> QED
    BY <2>1, StepsAreSteps
<1> PICK a, b, c, w : /\ a = Weigh(Range(Last(u)), "before", st) /\ b = Weigh(Range(Last(v)), "before", st)
                      /\ c = Weigh(StepsIn(u), "before", st) /\ w = Weigh(StepsIn(r), "after", st)
  OBVIOUS
<1>3. a \in Nat /\ b \in Nat /\ c \in Nat /\ w \in Nat
  BY <1>2, TilesOf
<1>4. a <= b
  BY <1>2, WeighMore
<1>5. b <= c
  BY <1>2, WeighMore
<1>6. Retained(u, r, st) = c + w
  BY RetainedWeighs
<1>7. /\ StackWeight(<<Last(u)>>, "before", st) = a
      /\ StackWeight(<<Last(v)>>, "before", st) = b
  BY StackWeighs, StepsOfOne
<1>8. c + w > budget => c + w = a
  BY <1>6, <1>7 DEF ByNewest
<1>9. c + w = a => c + w = b
  BY <1>3, <1>4, <1>5
<1> QED
  BY <1>1, <1>6, <1>7, <1>8, <1>9 DEF ByNewest

LEMMA EndRunRests ==
    ASSUME IInv, BInv, EndRun
    PROVE  BInv'
<1>1. /\ undo' = LetGo /\ redo' = redo /\ steps' = steps /\ UNCHANGED <<warned, spill, open>>
  BY DEF EndRun, pass
<1>2. PICK l : l = LetGo
  OBVIOUS
<1>3. /\ StepsIn(l) = StepsIn(undo) /\ StacksFit(l, redo, made)
      /\ undo # <<>> => l # <<>> /\ Range(Last(undo)) \subseteq Range(Last(l))
  BY <1>2, LetGoFits DEF IInv
<1>4. Stacked(l, redo) /\ Stacked(undo, redo) /\ Bytes' = Bytes
  BY <1>1, <1>3, FitStacked, InvStacked DEF Bytes
<1>5. ASSUME open, spill = Idle PROVE ByNewest(l, redo, steps, Bytes)
  <2>1. ByNewest(undo, redo, steps, Bytes)
    BY <1>5 DEF BInv
  <2>2. CASE undo = <<>>
    <3>1. Retained(l, redo, steps) = Retained(undo, redo, steps)
      BY <1>3, RetainedWeighs
    <3> QED
      BY <2>1, <2>2, <3>1 DEF ByNewest
  <2>3. CASE undo # <<>>
    BY <1>3, <1>4, <2>1, <2>3, FoldedRests DEF Stacked
  <2> QED
    BY <2>2, <2>3
<1> QED
  BY <1>1, <1>2, <1>4, <1>5 DEF BInv

LEMMA LeaveWalkBackRests ==
    ASSUME IInv, BInv, LeaveWalkBack
    PROVE  BInv'
<1>1. StacksFit(undo, redo, made) /\ RunFits(run, undo, made) /\ ~CanTakeBack
  BY DEF IInv, LeaveWalkBack
<1>2. LetGo = undo
  BY <1>1, LetGoFits
<1>3. /\ undo' = undo /\ redo' = Append(redo, <<>>) /\ steps' = steps
      /\ UNCHANGED <<warned, spill, open>>
  BY <1>2 DEF LeaveWalkBack, pass
<1>4. StepsIn(redo') = StepsIn(redo)
  BY <1>1, <1>3, WalkBackFits
<1>5. Retained(undo', redo', steps') = Retained(undo, redo, steps) /\ Bytes' = Bytes
  BY <1>3, <1>4, RetainedWeighs DEF Bytes
<1> QED
  BY <1>3, <1>5 DEF BInv, ByNewest

\* The stacks, the pass and the budget left as they are, or the budget raised.
LEMMA StillRests ==
    ASSUME IInv, BInv, UNCHANGED <<undo, redo, steps, spill>>, open' = open,
           warned' = warned \/ warned' = FALSE
    PROVE  BInv'
<1>1. CASE warned' = warned
  BY <1>1 DEF BInv, Bytes
<1>2. CASE warned' = FALSE /\ warned
  <2>1. Bytes = Tight /\ Bytes' = Normal /\ Tight < Normal /\ Tight \in Nat /\ Normal \in Nat
    BY <1>2, BudgetAssumption DEF Bytes, BInv
  <2>2. Retained(undo, redo, steps) \in Nat
    BY InvStacked, StackedWeighs
  <2>3. PICK w : w = Retained(undo, redo, steps)
    OBVIOUS
  <2>4. w > Normal => w > Tight
    BY <2>1, <2>2, <2>3
  <2> QED
    BY <1>2, <2>1, <2>3, <2>4 DEF BInv, ByNewest
<1> QED
  BY <1>1, <1>2 DEF IInv, RestHolds

LEMMA EmptiedRests ==
    ASSUME IInv, BInv, Emptied, UNCHANGED <<warned, spill>>
    PROVE  BInv'
<1>1. undo' = <<>> /\ redo' = <<>>
  BY DEF Emptied, Leave
<1>2. Retained(undo', redo', steps') = 0
  <2>1. Retained(undo', redo', steps') = 0 + 0
    BY <1>1, EmptyWeighs DEF Retained
  <2> QED
    BY <2>1
<1>3. ~(Retained(undo', redo', steps') > Bytes')
  BY <1>2, BytesAreNat
<1> QED
  BY <1>3 DEF BInv, ByNewest

LEMMA InitRests ==
    ASSUME Init
    PROVE  BInv
<1>1. /\ undo = <<>> /\ redo = <<>> /\ warned = FALSE /\ spill = Idle
  BY DEF Init
<1>2. Retained(undo, redo, steps) = 0
  <2>1. Retained(undo, redo, steps) = 0 + 0
    BY <1>1, EmptyWeighs DEF Retained
  <2> QED
    BY <2>1
<1>3. ~(Retained(undo, redo, steps) > Bytes)
  BY <1>1, <1>2, BudgetAssumption DEF Bytes
<1> QED
  BY <1>1, <1>3, IdleBase DEF BInv, ByNewest

LEMMA NextRests ==
    ASSUME IInv, BInv, [Next]_vars
    PROVE  BInv'
<1>1. ASSUME NEW s \in Strokes, Execute(s) \/ WriteInRun(s) PROVE BInv'
  <2>1. PICK d : d = <<s>> /\ Draw(d)
    BY <1>1 DEF Execute, WriteInRun
  <2> QED
    BY <2>1, DrawRests
<1>2. ASSUME NEW s \in Strokes, NEW t \in Strokes, RunAsOneStep(s, t) PROVE BInv'
  <2>1. PICK d : d = <<s, t>> /\ Draw(d)
    BY <1>2 DEF RunAsOneStep
  <2> QED
    BY <2>1, DrawRests
<1>3. CASE TakeBack \/ EndRun
  BY <1>3, TakeBackRests, EndRunRests
<1>4. CASE Undo \/ Redo \/ LeaveWalkBack
  BY <1>4, UndoRests, RedoRests, LeaveWalkBackRests
<1>5. CASE ReadAhead \/ MemoryWarning
  BY <1>5, TrimmedRests
<1>6. CASE BeginRun \/ LiftWarning \/ LoseFile \/ UNCHANGED vars
  <2>1. UNCHANGED <<undo, redo, steps, spill>> /\ open' = open /\ (warned' = warned \/ warned' = FALSE)
    BY <1>6 DEF BeginRun, LiftWarning, LoseFile, vars, stacks, pass
  <2> QED
    BY <2>1, StillRests
<1>7. CASE Land
  BY <1>7, LandKeepsRest
<1>8. CASE Clear \/ Dispose
  <2>1. Emptied /\ UNCHANGED <<warned, spill>>
    BY <1>8 DEF Clear, Dispose, pass
  <2> QED
    BY <2>1, EmptiedRests
<1> QED
  BY <1>1, <1>2, <1>3, <1>4, <1>5, <1>6, <1>7, <1>8 DEF Next

-----------------------------------------------------------------------------
(* The pictures: no pass and no shed changes one.                           *)

\* A snapshot that is in st and in ot has one picture and owns the same tiles.
Alike(st, ot) ==
    \A n \in DOMAIN st \cap DOMAIN ot, h \in Half :
        ot[n][h].pic = st[n][h].pic /\ ot[n][h].own = st[n][h].own

\* Alike through a third.
LEMMA AlikeVia ==
    ASSUME NEW st, NEW ot, NEW pt, DOMAIN ot = DOMAIN st, Alike(st, ot), Alike(ot, pt)
    PROVE  Alike(st, pt)
BY DEF Alike

\* Parking halves with nothing to write changes no picture.
LEMMA ParkBareAlike ==
    ASSUME NEW st, SnapsFit(st), NEW hs, NEW ot, ot = ParkBare(st, hs)
    PROVE  DOMAIN ot = DOMAIN st /\ Alike(st, ot)
<1>1. DOMAIN ot = DOMAIN st
  BY DEF ParkBare
<1>2. ASSUME NEW n \in DOMAIN st, NEW h \in Half
      PROVE  ot[n][h].pic = st[n][h].pic /\ ot[n][h].own = st[n][h].own
  <2>1. PICK s \in Snapshots : s = st[n][h]
    BY DEF SnapsFit
  <2>2. PICK a : ot[n][h] = IF a THEN [s EXCEPT !.at = IF @ = "held" THEN "bare" ELSE @, !.ahead = {}] ELSE s
    BY <2>1 DEF ParkBare
  <2> QED
    BY <2>1, <2>2 DEF Snapshots
<1> QED
  BY <1>1, <1>2 DEF Alike

\* Nor does giving back the copies read ahead.
LEMMA NoneAheadAlike ==
    ASSUME NEW st, SnapsFit(st), NEW ot, ot = NoneAhead(st)
    PROVE  DOMAIN ot = DOMAIN st /\ Alike(st, ot)
<1>1. DOMAIN ot = DOMAIN st
  BY DEF NoneAhead
<1>2. ASSUME NEW n \in DOMAIN st, NEW h \in Half
      PROVE  ot[n][h].pic = st[n][h].pic /\ ot[n][h].own = st[n][h].own
  <2>1. PICK s \in Snapshots : s = st[n][h]
    BY DEF SnapsFit
  <2>2. ot[n][h] = [s EXCEPT !.ahead = {}]
    BY <2>1 DEF NoneAhead
  <2> QED
    BY <2>1, <2>2 DEF Snapshots
<1> QED
  BY <1>1, <1>2 DEF Alike

\* Nor what is left of the snapshots,
LEMMA LeaveAlike ==
    ASSUME NEW u, NEW r, NEW st, NEW fs, Leave(u, r, st, fs)
    PROVE  Alike(st, steps')
BY DEF Leave, Alike

\* a shed,
LEMMA ShedAlike ==
    ASSUME NEW u, NEW r, NEW st, NEW fs, SnapsFit(st), Shed(u, r, st, fs)
    PROVE  Alike(st, steps')
<1>1. PICK bare : bare = NoneAhead(st)
  OBVIOUS
<1>2. DOMAIN bare = DOMAIN st /\ Alike(st, bare)
  BY <1>1, NoneAheadAlike
<1>3. \E v, w, gs : Leave(v, w, st, gs) \/ Leave(v, w, bare, gs)
  BY <1>1 DEF Shed, ShedEntries
<1>4. Alike(st, steps') \/ Alike(bare, steps')
  BY <1>3, LeaveAlike
<1> QED
  BY <1>2, <1>4, AlikeVia

\* a walk of the pass,
LEMMA PassOfAlike ==
    ASSUME NEW st, SnapsFit(st), NEW u, NEW r, NEW rw, NEW uw,
           NEW go, go = PassOf(u, r, st, rw, uw)
    PROVE  SnapsFit(go.steps) /\ DOMAIN go.steps = DOMAIN st /\ Alike(st, go.steps)
<1>1. \E hs : go.steps = ParkBare(st, hs)
  BY DEF PassOf, PassAt
<1> QED
  BY <1>1, ParkBareAlike, ParkBareKin DEF Kin

\* a pass begun,
LEMMA StartPassAlike ==
    ASSUME NEW u, NEW r, NEW st, NEW fs, SnapsFit(st), NEW total,
           StartPass(u, r, st, fs, total)
    PROVE  Alike(st, steps')
<1>1. PICK rw, uw, go :
        /\ go = PassOf(u, r, st, rw, uw)
        /\ Leave(u, r, go.steps, fs) \/ StandDown(u, r, go.steps, fs, "stuck")
  BY DEF StartPass
<1>2. SnapsFit(go.steps) /\ DOMAIN go.steps = DOMAIN st /\ Alike(st, go.steps)
  BY <1>1, PassOfAlike
<1>3. Alike(go.steps, steps')
  BY <1>1, <1>2, LeaveAlike, ShedAlike DEF StandDown
<1> QED
  BY <1>2, <1>3, AlikeVia

\* a trim,
LEMMA TrimAlike ==
    ASSUME NEW u, NEW r, NEW st, NEW fs, SnapsFit(st), NEW stand,
           Trim(u, r, st, fs, stand)
    PROVE  Alike(st, steps')
<1>1. PICK total :
        StartPass(u, r, st, fs, total) \/ Shed(u, r, st, fs) \/ Leave(u, r, st, fs)
  BY DEF Trim
<1> QED
  BY <1>1, StartPassAlike, ShedAlike, LeaveAlike

\* a pass that goes on,
LEMMA EntryParkedAlike ==
    ASSUME NEW st, NEW fs, SnapsFit(st), NEW ok, EntryParked(ok, st, fs)
    PROVE  Alike(st, steps')
<1>1. CASE Proceed(st, fs)
  <2>1. PICK rw, uw, go, left :
          /\ go = PassOf(undo, redo, st, rw, uw)
          /\ \/ Leave(undo, redo, go.steps, fs)
             \/ StandDown(undo, redo, go.steps, fs, "stuck")
             \/ StartPass(undo, redo, go.steps, fs, left)
    BY <1>1 DEF Proceed
  <2>2. SnapsFit(go.steps) /\ DOMAIN go.steps = DOMAIN st /\ Alike(st, go.steps)
    BY <2>1, PassOfAlike
  <2>3. Alike(go.steps, steps')
    BY <2>1, <2>2, LeaveAlike, ShedAlike, StartPassAlike DEF StandDown
  <2> QED
    BY <2>2, <2>3, AlikeVia
<1>2. CASE StandDown(undo, redo, st, fs, "refused")
  BY <1>2, ShedAlike DEF StandDown
<1> QED
  BY <1>1, <1>2 DEF EntryParked

\* or a write that comes back.
LEMMA LandAlike ==
    ASSUME SnapsFit(steps), PassFits(spill, steps), Land
    PROVE  Alike(steps, steps')
<1>1. PICK taken \in BOOLEAN : Lands(taken)
  BY DEF Land
<1>2. PICK file, landed, hs, st, fs :
        /\ file = spill.rest[1]
        /\ landed = IF taken THEN [steps EXCEPT ![file[1]][file[2]].at = "room"] ELSE steps
        /\ st = ParkBare(landed, hs)
        /\ Leave(undo, redo, st, fs) \/ \E ok : EntryParked(ok, st, fs)
  BY <1>1 DEF Lands
<1>3. SnapsFit(landed) /\ DOMAIN landed = DOMAIN steps /\ Alike(steps, landed)
  <2>1. CASE ~taken
    BY <1>2, <2>1 DEF Alike
  <2>2. CASE taken
    <3>1. spill # Idle /\ spill.rest # <<>> /\ spill.rest \in Seq(StepNo \X Half)
      BY <1>1 DEF Lands, PassFits
    <3>2. file \in Range(spill.rest) /\ file \in StepNo \X Half
      BY <1>2, <3>1, EmptySeq DEF Range
    <3>3. PICK n, h : n = file[1] /\ h = file[2] /\ n \in DOMAIN steps /\ h \in Half
      BY <3>2 DEF PassFits, RestSteps
    <3>4. PICK t : t = [steps[n][h] EXCEPT !.at = "room"]
      OBVIOUS
    <3>5. steps[n][h] \in Snapshots /\ steps \in [DOMAIN steps -> [Half -> Snapshots]]
      BY <3>3 DEF SnapsFit
    <3>6. t \in Snapshots /\ t.pic = steps[n][h].pic /\ t.own = steps[n][h].own
      BY <3>4, <3>5 DEF Snapshots
    <3>7. landed = [steps EXCEPT ![n][h] = t]
      BY <1>2, <2>2, <3>3, <3>4
    <3>8. /\ landed \in [DOMAIN steps -> [Half -> Snapshots]]
          /\ \A m \in DOMAIN steps, g \in Half : landed[m][g] = IF <<m, g>> = <<n, h>> THEN t ELSE steps[m][g]
      BY <3>3, <3>5, <3>6, <3>7, SwapFits
    <3> QED
      BY <3>6, <3>8 DEF SnapsFit, Alike
  <2> QED
    BY <2>1, <2>2
<1>4. SnapsFit(st) /\ DOMAIN st = DOMAIN landed /\ Alike(landed, st)
  BY <1>2, <1>3, ParkBareAlike, ParkBareKin DEF Kin
<1>5. Alike(st, steps')
  BY <1>2, <1>4, LeaveAlike, EntryParkedAlike
<1> QED
  BY <1>3, <1>4, <1>5, AlikeVia

-----------------------------------------------------------------------------
(* The pictures: a half put back where its step's other half is shown.      *)

\* Each half put back leads from Q[i - 1] into Q[i].
LEMMA PutBackLeads ==
    ASSUME NEW ns, Len(ns) \in Nat, NEW half, NEW R, NEW Q, AsItIs \in Q[0],
           \A i \in 0..Len(ns) : Q[i] \subseteq R,
           \A i \in 1..Len(ns) : \A k \in Q[i - 1] : Restored(k, ns[i], half) \in Q[i]
    PROVE  PutBack(ns, half) \in Q[Len(ns)]
<1> DEFINE n == Len(ns)
           B == AsItIs
           G(q, i) == Restored(q, ns[i], half)
           Fcn(f) == f = [i \in 0..n |-> IF i = 0 THEN B ELSE G(f[i - 1], i)]
           F == [i \in 1..n |-> [q \in R |-> G(q, i)]]
<1>1. PutBack(ns, half) = (CHOOSE f : Fcn(f))[n]
  BY DEF PutBack
<1>2. /\ B \in Q[0] /\ n \in Nat /\ \A i \in 0..n : Q[i] \subseteq R
      /\ \A i \in 1..n : \A q \in Q[i - 1] : G(q, i) \in Q[i]
  OBVIOUS
<1> HIDE DEF B, G, n
<1>3. \A i \in 1..n : \A q \in R : F[i][q] = G(q, i)
  OBVIOUS
<1> HIDE DEF F
<1>4. PICK k \in [0..n -> R] : WorkedOut(k, F, 0, n, B, Q)
  <2>1. Leads(F, 0, n, B, Q)
    <3>1. ASSUME NEW i \in (0 + 1)..n, NEW q \in Q[i - 1] PROVE F[i][q] \in Q[i]
      <4>1. i \in 1..n /\ i - 1 \in 0..n
        BY <1>2
      <4> QED
        BY <1>2, <1>3, <4>1
    <3> QED
      BY <1>2, <3>1 DEF Leads
  <2>2. n \in Nat /\ 0 \in Nat /\ 0 <= n
    BY <1>2
  <2> QED
    BY <1>2, <2>1, <2>2, Iterates
<1>5. \A i \in 0..n : k[i] = IF i = 0 THEN B ELSE G(k[i - 1], i)
  <2> TAKE i \in 0..n
  <2>1. CASE i # 0
    <3>1. i \in 1..n /\ i \in (0 + 1)..n /\ i - 1 \in 0..n
      BY <1>2, <2>1
    <3>2. k[i] = F[i][k[i - 1]] /\ k[i - 1] \in R
      BY <1>4, <3>1 DEF WorkedOut
    <3> QED
      BY <1>3, <2>1, <3>1, <3>2
  <2>2. CASE i = 0
    BY <1>4, <2>2 DEF WorkedOut
  <2> QED
    BY <2>1, <2>2
<1>6. Fcn(k)
  BY <1>4, <1>5
<1>7. PICK f : f = CHOOSE g : Fcn(g)
  OBVIOUS
<1>8. Fcn(f)
  BY <1>6, <1>7
<1>9. f[0] \in Q[0] /\ \A i \in (0 + 1)..n : f[i - 1] \in Q[i - 1] => f[i] \in Q[i]
  <2>1. f[0] = B
    BY <1>2, <1>8
  <2>2. ASSUME NEW i \in (0 + 1)..n, f[i - 1] \in Q[i - 1] PROVE f[i] \in Q[i]
    <3>1. i \in 1..n /\ i # 0 /\ i \in 0..n
      BY <1>2
    <3>2. f[i] = G(f[i - 1], i)
      BY <1>8, <3>1
    <3> QED
      BY <1>2, <2>2, <3>1, <3>2
  <2> QED
    BY <1>2, <2>1, <2>2
<1>10. f[n] \in Q[n]
  <2>1. n \in Nat /\ 0 \in Nat /\ n \in 0..n
    BY <1>2
  <2>2. \A i \in 0..n : f[i] \in Q[i]
    BY <2>1, <1>9, StaysIn
  <2> QED
    BY <2>1, <2>2
<1> QED
  BY <1>1, <1>7, <1>10 DEF n

\* A picture assembled where the other half is shown is the half itself.
LEMMA AssembledBeside ==
    ASSUME NEW s \in Snapshots, NEW live \in Pic, OwnsApart(s, live)
    PROVE  Assembled(s, live) = s.pic /\ \A x \in SharedPlaces(s) : live[x] # 0
<1>1. s.pic \in [Place -> 0..MaxEdits] /\ s.own \subseteq Place
  BY DEF Snapshots, Pic
<1>2. \A x \in SharedPlaces(s) : live[x] = s.pic[x] /\ s.pic[x] # 0
  BY <1>1 DEF SharedPlaces, OwnsApart
<1>3. \A x \in Place : (IF x \in s.own THEN s.pic[x]
                        ELSE IF x \in SharedPlaces(s) THEN live[x] ELSE 0) = s.pic[x]
  BY <1>1, <1>2 DEF SharedPlaces
<1> QED
  BY <1>1, <1>2, <1>3 DEF Assembled

\* A half put back where the other is shown shows its picture, whether it was
\* held, read ahead or parked, and changes no picture.
LEMMA RestoredShows ==
    ASSUME NEW D, NEW k \in Shown(D), NEW n \in D, NEW half \in Half,
           OwnsApart(k.steps[n][half], k.cel),
           k.steps[n][half].at = "room" => <<n, half>> \in k.files,
           NEW l, l = Restored(k, n, half)
    PROVE  l.cel = k.steps[n][half].pic /\ Alike(k.steps, l.steps)
<1>1. PICK s \in Snapshots : s = k.steps[n][half]
  BY DEF Shown
<1>2. PICK st \in [D -> [Half -> Snapshots]] : st = k.steps
  BY DEF Shown
<1>3. PICK live \in Pic : live = k.cel
  BY DEF Shown
<1>4. k = [cel |-> live, steps |-> st, files |-> k.files]
  BY <1>2, <1>3 DEF Shown
<1>5. OwnsApart(s, live) /\ (s.at = "room" => <<n, half>> \in k.files)
  BY <1>1, <1>3
<1>6. Assembled(s, live) = s.pic /\ ReadsBack(s, <<n, half>> \in k.files, live)
  BY <1>5, AssembledBeside DEF ReadsBack
<1>7. CASE s.at = "held"
  <2>1. l = [k EXCEPT !.cel = s.pic]
    BY <1>1, <1>7 DEF Restored
  <2>2. l.cel = s.pic /\ l.steps = st
    BY <1>4, <2>1
  <2> QED
    BY <1>1, <1>2, <2>2 DEF Alike
<1>8. CASE s.at # "held"
  <2>1. PICK adopted : adopted = Adopted(s, live)
    OBVIOUS
  <2>2. adopted # {} => (CHOOSE q \in adopted : TRUE) = live
    BY <2>1 DEF Adopted
  <2>3. PICK p : p = IF adopted # {} THEN Assembled(s, CHOOSE q \in adopted : TRUE)
                     ELSE Assembled(s, live)
    OBVIOUS
  <2>4. p = s.pic
    BY <1>6, <2>2, <2>3
  <2>5. l = [cel   |-> p,
             steps |-> [k.steps EXCEPT ![n][half] =
                          [@ EXCEPT !.pic = p, !.at = "held", !.ahead = {}]],
             files |-> k.files \ {<<n, half>>}]
    BY <1>1, <1>3, <1>6, <1>8, <2>1, <2>3 DEF Restored
  <2>6. PICK t : t = [s EXCEPT !.pic = p, !.at = "held", !.ahead = {}]
    OBVIOUS
  <2>7. t \in Snapshots /\ t.pic = s.pic /\ t.own = s.own
    BY <2>4, <2>6 DEF Snapshots
  <2>8. PICK ot : ot = [st EXCEPT ![n][half] = t]
    OBVIOUS
  <2>9. l.cel = p /\ l.steps = ot
    BY <1>1, <1>2, <2>5, <2>6, <2>8
  <2>10. /\ ot \in [D -> [Half -> Snapshots]]
         /\ \A m \in D, g \in Half : ot[m][g] = IF <<m, g>> = <<n, half>> THEN t ELSE st[m][g]
    BY <2>7, <2>8, SwapFits
  <2> QED
    BY <1>1, <1>2, <2>4, <2>7, <2>9, <2>10 DEF Alike
<1> QED
  BY <1>7, <1>8

\* A half read ahead changes no picture.
LEMMA ReadEarlyAlike ==
    ASSUME NEW D, NEW k \in Shown(D), NEW n \in D, NEW half \in Half,
           NEW l, l = ReadEarly(k, n, half)
    PROVE  Alike(k.steps, l.steps)
<1>1. PICK s \in Snapshots : s = k.steps[n][half]
  BY DEF Shown
<1>2. PICK st \in [D -> [Half -> Snapshots]] : st = k.steps
  BY DEF Shown
<1>3. k = [cel |-> k.cel, steps |-> st, files |-> k.files] /\ k.cel \in Pic
  BY <1>2 DEF Shown
<1>4. PICK c, a : /\ a \in {{}} \cup {{q} : q \in Pic}
                  /\ \/ l = [k EXCEPT !.cel = c]
                     \/ l = [k EXCEPT !.cel = c, !.steps[n][half].ahead = a]
                     \/ l = [k EXCEPT !.steps[n][half].ahead = a]
  <2>1. {k.cel} \in {{}} \cup {{q} : q \in Pic} /\ {} \in {{}} \cup {{q} : q \in Pic}
    BY <1>3
  <2> QED
    BY <2>1 DEF ReadEarly
<1>5. l.steps = st \/ l.steps = [st EXCEPT ![n][half] = [s EXCEPT !.ahead = a]]
  BY <1>1, <1>2, <1>3, <1>4
<1>6. CASE l.steps = st
  BY <1>2, <1>6 DEF Alike
<1>7. CASE l.steps = [st EXCEPT ![n][half] = [s EXCEPT !.ahead = a]]
  <2>1. PICK t : t = [s EXCEPT !.ahead = a]
    OBVIOUS
  <2>2. t \in Snapshots /\ t.pic = s.pic /\ t.own = s.own
    BY <1>4, <2>1 DEF Snapshots
  <2>3. PICK ot : ot = [st EXCEPT ![n][half] = t]
    OBVIOUS
  <2>4. /\ ot \in [D -> [Half -> Snapshots]]
        /\ \A m \in D, g \in Half : ot[m][g] = IF <<m, g>> = <<n, half>> THEN t ELSE st[m][g]
    BY <2>2, <2>3, SwapFits
  <2>5. l.steps = ot
    BY <1>7, <2>1, <2>3
  <2> QED
    BY <1>1, <1>2, <2>2, <2>4, <2>5 DEF Alike
<1> QED
  BY <1>5, <1>6, <1>7

\* Halves own apart over snapshots alike.
LEMMA AlikeSided ==
    ASSUME NEW st, NEW ot, Sided(st), Alike(st, ot), DOMAIN ot \subseteq DOMAIN st
    PROVE  Sided(ot)
<1>1. "before" \in Half /\ "after" \in Half /\ \A h \in Half : Other(h) \in Half
  BY DEF Half, Other
<1>2. ASSUME NEW n \in DOMAIN ot, NEW h \in Half
      PROVE  OwnsApart(ot[n][h], ot[n][Other(h)].pic)
  <2>1. OwnsApart(st[n][h], st[n][Other(h)].pic)
    BY DEF Sided
  <2>2. /\ ot[n][h].own = st[n][h].own /\ ot[n][h].pic = st[n][h].pic
        /\ ot[n][Other(h)].pic = st[n][Other(h)].pic
    BY <1>1 DEF Alike
  <2> QED
    BY <2>1, <2>2 DEF OwnsApart
<1> QED
  BY <1>2 DEF Sided

\* Before a walk the cel shows what it shows.
LEMMA AsItIsShown ==
    ASSUME cel \in Pic, Given(undo, redo, steps, files)
    PROVE  AsItIs \in Shown(DOMAIN steps) /\ AsItIs.steps = steps /\ AsItIs.files = files
           /\ AsItIs.cel = cel
<1>1. files \in SUBSET (StepNo \X Half)
  <2>1. StepsIn(undo) \subseteq StepNo /\ StepsIn(redo) \subseteq StepNo
    BY StepsAreSteps DEF Given
  <2> QED
    BY <2>1 DEF Given, Exact, Parked, FilesOf
<1> QED
  BY <1>1 DEF AsItIs, Shown, Given, SnapsFit

\* From the picture p each half of ns is put back where the other is shown.
Walks(ns, half, st, p) ==
    \A i \in 1..Len(ns) :
        st[ns[i]][Other(half)].pic = IF i = 1 THEN p ELSE st[ns[i - 1]][half].pic

\* A walk that shows each half on the other ends at its last half.
LEMMA PutBackShows ==
    ASSUME ~FilesGetLost, cel \in Pic, Given(undo, redo, steps, files), Sided(steps),
           NEW ns \in Seq(StepNo), Range(ns) \subseteq StepsIn(undo) \cup StepsIn(redo),
           NEW half \in Half, Walks(ns, half, steps, cel),
           NEW k, k = PutBack(ns, half)
    PROVE  /\ Alike(steps, k.steps)
           /\ k.cel = IF ns = <<>> THEN cel ELSE steps[ns[Len(ns)]][half].pic
<1> DEFINE D == DOMAIN steps
           P == [i \in 0..Len(ns) |-> IF i = 0 THEN cel ELSE steps[ns[i]][half].pic]
           Good(q) == Exact(undo, redo, q.steps, q.files) /\ Alike(steps, q.steps)
           Q == [i \in 0..Len(ns) |-> {q \in Shown(D) : Good(q) /\ q.cel = P[i]}]
<1>1. StepsIn(undo) \cup StepsIn(redo) \subseteq D
  BY DEF Given
<1>2. Len(ns) \in Nat /\ \A i \in 1..Len(ns) : ns[i] \in StepsIn(undo) \cup StepsIn(redo)
  BY DEF Range
<1>3. P[0] = cel /\ \A i \in 1..Len(ns) : P[i] = steps[ns[i]][half].pic
  BY <1>2
<1>4. /\ \A i \in 0..Len(ns) : Q[i] \subseteq Shown(D)
      /\ \A i \in 0..Len(ns) : \A q : q \in Q[i] <=> q \in Shown(D) /\ Good(q) /\ q.cel = P[i]
  OBVIOUS
<1> HIDE DEF Q
<1>5. AsItIs \in Q[0]
  <2>1. 0 \in 0..Len(ns)
    BY <1>2
  <2>2. Alike(steps, steps) /\ Exact(undo, redo, steps, files)
    BY DEF Alike, Given
  <2> QED
    BY <1>3, <1>4, <2>1, <2>2, AsItIsShown
<1>6. ASSUME NEW i \in 1..Len(ns), NEW q \in Q[i - 1] PROVE Restored(q, ns[i], half) \in Q[i]
  <2>1. i - 1 \in 0..Len(ns) /\ i \in 0..Len(ns)
    BY <1>2
  <2>2. q \in Shown(D) /\ Good(q) /\ q.cel = P[i - 1]
    BY <1>4, <2>1
  <2>3. PICK n \in D : n = ns[i] /\ n \in StepsIn(undo) \cup StepsIn(redo)
    BY <1>1, <1>2
  <2>4. PICK l : l = Restored(q, n, half)
    OBVIOUS
  <2>5. DOMAIN q.steps = D
    BY <2>2 DEF Shown
  <2>6. P[i - 1] = steps[n][Other(half)].pic
    <3>1. CASE i = 1
      BY <1>3, <2>3, <3>1 DEF Walks
    <3>2. CASE i # 1
      <4>1. i - 1 \in 1..Len(ns)
        BY <1>2, <3>2
      <4> QED
        BY <1>3, <2>3, <3>2, <4>1 DEF Walks
    <3> QED
      BY <3>1, <3>2
  <2>7. q.steps[n][half].pic = steps[n][half].pic /\ q.steps[n][half].own = steps[n][half].own
    BY <2>2, <2>5 DEF Alike
  <2>8. OwnsApart(q.steps[n][half], q.cel)
    <3>1. OwnsApart(steps[n][half], steps[n][Other(half)].pic)
      BY DEF Sided
    <3> QED
      BY <2>2, <2>6, <2>7, <3>1 DEF OwnsApart
  <2>9. q.steps[n][half].at = "room" => <<n, half>> \in q.files
    BY <2>2, <2>3 DEF Exact, Parked, FilesOf
  <2>10. l.cel = q.steps[n][half].pic /\ Alike(q.steps, l.steps)
    BY <2>2, <2>4, <2>8, <2>9, RestoredShows
  <2>11. /\ l \in Shown(D)
         /\ \A u, r : StepsIn(u) \cup StepsIn(r) \subseteq D /\ Exact(u, r, q.steps, q.files)
                        => Exact(u, r, l.steps, l.files)
    BY <2>2, <2>4, RestoredFits
  <2>12. Good(l)
    BY <1>1, <2>2, <2>5, <2>10, <2>11, AlikeVia
  <2>13. l.cel = P[i]
    BY <1>3, <2>3, <2>7, <2>10
  <2> QED
    BY <1>4, <2>1, <2>3, <2>4, <2>11, <2>12, <2>13
<1>7. k \in Q[Len(ns)]
  BY <1>2, <1>4, <1>5, <1>6, PutBackLeads
<1>8. Good(k) /\ k.cel = P[Len(ns)]
  <2>1. Len(ns) \in 0..Len(ns)
    BY <1>2
  <2> QED
    BY <1>4, <1>7, <2>1
<1>9. P[Len(ns)] = IF ns = <<>> THEN cel ELSE steps[ns[Len(ns)]][half].pic
  <2>1. ns = <<>> <=> Len(ns) = 0
    BY EmptySeq
  <2> QED
    BY <1>2, <1>3, <2>1
<1> QED
  BY <1>8, <1>9

\* Reading an entry ahead changes no picture.
LEMMA ReadAllEarlyAlike ==
    ASSUME cel \in Pic, Given(undo, redo, steps, files),
           NEW ns \in Seq(StepNo), Range(ns) \subseteq DOMAIN steps, NEW half \in Half,
           NEW k, k = ReadAllEarly(ns, half)
    PROVE  Alike(steps, k.steps)
<1> DEFINE D == DOMAIN steps
           S == {q \in Shown(D) : Alike(steps, q.steps)}
<1>1. AsItIs \in S
  <2>1. Alike(steps, steps)
    BY DEF Alike
  <2> QED
    BY <2>1, AsItIsShown
<1>2. ASSUME NEW i \in 1..Len(ns), NEW q \in S PROVE ReadEarly(q, ns[i], half) \in S
  <2>1. PICK n \in D : n = ns[i]
    BY DEF Range
  <2>2. PICK l : l = ReadEarly(q, n, half)
    OBVIOUS
  <2>3. q \in Shown(D) /\ Alike(steps, q.steps) /\ DOMAIN q.steps = D
    BY DEF Shown
  <2>4. l \in Shown(D)
    BY <2>2, <2>3, ReadEarlyFits
  <2>5. Alike(q.steps, l.steps)
    BY <2>2, <2>3, ReadEarlyAlike
  <2> QED
    BY <2>1, <2>2, <2>3, <2>4, <2>5, AlikeVia
<1>3. k \in S
  <2>1. Len(ns) \in Nat
    OBVIOUS
  <2> HIDE DEF S
  <2> QED
    BY <1>1, <1>2, <2>1, ReadAllEarlyStays
<1> QED
  BY <1>3

-----------------------------------------------------------------------------
(* The pictures: each step was made on the one before it left.              *)

\* The entries of u follow one another and lead up to the picture p.
Past(u, st, p) ==
    \A i \in 1..Len(u) :
        /\ Joined(u[i], st)
        /\ To(u[i], st) = IF i = Len(u) THEN p ELSE From(u[i + 1], st)

\* Those of r lead on from p: at[i] is shown where i of them are still ahead.
Onward(r, st, at, p) ==
    /\ at[Len(r)] = p
    /\ \A i \in 1..Len(r) :
         \/ r[i] = <<>> /\ at[i - 1] = at[i]
         \/ /\ r[i] # <<>> /\ Joined(r[i], st)
            /\ at[i] = From(r[i], st) /\ at[i - 1] = To(r[i], st)
Future(r, st, p) == \E at : Onward(r, st, at, p)

\* One entry over snapshots alike.
SameEntry(e, st, ot) ==
    /\ Joined(e, st) => Joined(e, ot)
    /\ e # <<>> => From(e, ot) = From(e, st) /\ To(e, ot) = To(e, st)

\* An entry is the same over snapshots alike,
LEMMA EntryAlike ==
    ASSUME NEW st, NEW ot, Alike(st, ot), NEW e \in Seq(StepNo),
           Range(e) \subseteq DOMAIN st, Range(e) \subseteq DOMAIN ot
    PROVE  SameEntry(e, st, ot)
<1>1. "before" \in Half /\ "after" \in Half
  BY DEF Half
<1>2. ASSUME NEW i \in 1..Len(e)
      PROVE  ot[e[i]].before.pic = st[e[i]].before.pic /\ ot[e[i]].after.pic = st[e[i]].after.pic
  <2>1. e[i] \in DOMAIN st \cap DOMAIN ot
    BY DEF Range
  <2> QED
    BY <1>1, <2>1 DEF Alike
<1>3. Len(e) \in Nat /\ (e # <<>> => Len(e) # 0)
  BY EmptySeq
<1>4. Joined(e, st) => Joined(e, ot)
  <2>1. \A i \in 1..(Len(e) - 1) : i \in 1..Len(e) /\ i + 1 \in 1..Len(e)
    BY <1>3
  <2> QED
    BY <1>2, <2>1 DEF Joined
<1>5. e # <<>> => From(e, ot) = From(e, st) /\ To(e, ot) = To(e, st)
  <2>1. e # <<>> => 1 \in 1..Len(e) /\ Len(e) \in 1..Len(e)
    BY <1>3
  <2> QED
    BY <1>2, <2>1 DEF From, To, Last
<1> QED
  BY <1>4, <1>5 DEF SameEntry

\* and so is each of a stack,
LEMMA StackAlike ==
    ASSUME NEW st, NEW ot, Alike(st, ot), NEW s \in Seq(Seq(StepNo)),
           StepsIn(s) \subseteq DOMAIN st, StepsIn(s) \subseteq DOMAIN ot,
           NEW i \in 1..Len(s)
    PROVE  SameEntry(s[i], st, ot)
<1>1. s[i] \in Seq(StepNo) /\ Range(s[i]) \subseteq StepsIn(s)
  BY StepOf
<1> QED
  BY <1>1, EntryAlike

\* what lies behind,
LEMMA PastAlike ==
    ASSUME NEW st, NEW ot, Alike(st, ot), NEW u \in Seq(Seq(StepNo)),
           StepsIn(u) \subseteq DOMAIN st, StepsIn(u) \subseteq DOMAIN ot,
           \A i \in DOMAIN u : u[i] # <<>>, NEW p, Past(u, st, p)
    PROVE  Past(u, ot, p) /\ \A i \in 1..Len(u) : From(u[i], ot) = From(u[i], st)
<1>1. \A i \in 1..Len(u) : SameEntry(u[i], st, ot) /\ u[i] # <<>>
  BY StackAlike
<1>2. \A i \in 1..Len(u) : i # Len(u) => i + 1 \in 1..Len(u)
  BY LenProperties
<1>3. ASSUME NEW i \in 1..Len(u)
      PROVE  Joined(u[i], ot) /\ To(u[i], ot) = IF i = Len(u) THEN p ELSE From(u[i + 1], ot)
  <2>1. Joined(u[i], st) /\ To(u[i], st) = IF i = Len(u) THEN p ELSE From(u[i + 1], st)
    BY DEF Past
  <2> QED
    BY <1>1, <1>2, <2>1 DEF SameEntry
<1> QED
  BY <1>1, <1>3 DEF Past, SameEntry

\* and what lies ahead.
LEMMA FutureAlike ==
    ASSUME NEW st, NEW ot, Alike(st, ot), NEW r \in Seq(Seq(StepNo)),
           StepsIn(r) \subseteq DOMAIN st, StepsIn(r) \subseteq DOMAIN ot,
           NEW p, Future(r, st, p)
    PROVE  Future(r, ot, p)
<1>1. \A i \in 1..Len(r) : SameEntry(r[i], st, ot)
  BY StackAlike
<1>2. PICK at : Onward(r, st, at, p)
  BY DEF Future
<1>3. Onward(r, ot, at, p)
  BY <1>1, <1>2 DEF Onward, SameEntry
<1> QED
  BY <1>3 DEF Future

\* Without entries of the deep end the rest still leads up to p.
LEMMA PastLater ==
    ASSUME NEW st, NEW X, NEW u \in Seq(X), NEW d, NEW v, Later(v, u, d),
           NEW p, Past(u, st, p)
    PROVE  Past(v, st, p) /\ \A i \in 1..Len(v) : From(v[i], st) = From(u[i + d], st)
<1>1. PICK n, m : n = Len(u) /\ m = Len(v) /\ n \in Nat /\ d \in 0..n /\ m = n - d
  BY LenProperties DEF Later
<1>2. \A i \in 1..m : i + d \in 1..n /\ (i = m <=> i + d = n) /\ (i # m => i + 1 \in 1..m)
                      /\ (i + 1) + d = (i + d) + 1
  BY <1>1
<1>3. \A i \in 1..m : v[i] = u[i + d]
  BY <1>1 DEF Later
<1>4. ASSUME NEW i \in 1..m
      PROVE  Joined(v[i], st) /\ To(v[i], st) = IF i = m THEN p ELSE From(v[i + 1], st)
  <2>1. PICK j : j = i + d /\ j \in 1..n
    BY <1>2
  <2>2. Joined(u[j], st) /\ To(u[j], st) = IF j = n THEN p ELSE From(u[j + 1], st)
    BY <1>1, <2>1 DEF Past
  <2>3. v[i] = u[j] /\ (i # m => v[i + 1] = u[j + 1]) /\ (i = m <=> j = n)
    BY <1>2, <1>3, <2>1
  <2> QED
    BY <2>2, <2>3
<1> QED
  BY <1>1, <1>3, <1>4 DEF Past

\* Those left of redo still lead on from p.
LEMMA FutureLater ==
    ASSUME NEW st, NEW X, NEW r \in Seq(X), NEW d, NEW v, Later(v, r, d),
           NEW p, Future(r, st, p)
    PROVE  Future(v, st, p)
<1>1. PICK n, m : n = Len(r) /\ m = Len(v) /\ n \in Nat /\ d \in 0..n /\ m = n - d
  BY LenProperties DEF Later
<1>2. PICK at : Onward(r, st, at, p)
  BY DEF Future
<1>3. PICK bt : bt = [i \in 0..m |-> at[i + d]]
  OBVIOUS
<1>4. bt[m] = p
  BY <1>1, <1>2, <1>3 DEF Onward
<1>5. ASSUME NEW i \in 1..m
      PROVE  \/ v[i] = <<>> /\ bt[i - 1] = bt[i]
             \/ /\ v[i] # <<>> /\ Joined(v[i], st)
                /\ bt[i] = From(v[i], st) /\ bt[i - 1] = To(v[i], st)
  <2>1. PICK j : j = i + d /\ j \in 1..n /\ j - 1 = (i - 1) + d /\ i \in 0..m /\ i - 1 \in 0..m
    BY <1>1
  <2>2. v[i] = r[j] /\ bt[i] = at[j] /\ bt[i - 1] = at[j - 1]
    BY <1>1, <1>3, <2>1 DEF Later
  <2>3. \/ r[j] = <<>> /\ at[j - 1] = at[j]
        \/ /\ r[j] # <<>> /\ Joined(r[j], st)
           /\ at[j] = From(r[j], st) /\ at[j - 1] = To(r[j], st)
    BY <1>1, <1>2, <2>1 DEF Onward
  <2> QED
    BY <2>2, <2>3
<1>6. Onward(v, st, bt, p)
  BY <1>1, <1>4, <1>5 DEF Onward
<1> QED
  BY <1>6 DEF Future

\* Without its top the stack leads up to what the top was made on.
LEMMA PastFront ==
    ASSUME NEW st, NEW X, NEW u \in Seq(X), u # <<>>, NEW p, Past(u, st, p)
    PROVE  /\ Past(Front(u), st, From(Last(u), st))
           /\ Joined(Last(u), st) /\ To(Last(u), st) = p
<1>1. PICK n, v, e : n = Len(u) /\ v = Front(u) /\ e = Last(u)
  OBVIOUS
<1>2. /\ n \in Nat \ {0} /\ Len(v) = n - 1 /\ e = u[n]
      /\ \A i \in 1..(n - 1) : v[i] = u[i]
  BY <1>1, FrontOf
<1>3. \A i \in 1..(n - 1) : i \in 1..n /\ i # n /\ i + 1 \in 1..n /\ (i # n - 1 => i + 1 \in 1..(n - 1))
                            /\ (i = n - 1 => i + 1 = n)
  BY <1>2
<1>4. ASSUME NEW i \in 1..(n - 1)
      PROVE  Joined(v[i], st) /\ To(v[i], st) = IF i = n - 1 THEN From(e, st) ELSE From(v[i + 1], st)
  <2>1. Joined(u[i], st) /\ To(u[i], st) = From(u[i + 1], st)
    BY <1>1, <1>3 DEF Past
  <2>2. u[i + 1] = IF i = n - 1 THEN e ELSE v[i + 1]
    BY <1>2, <1>3
  <2> QED
    BY <1>2, <2>1, <2>2
<1>5. Past(v, st, From(e, st))
  BY <1>2, <1>4 DEF Past
<1>6. n \in 1..n
  BY <1>2
<1> QED
  BY <1>1, <1>2, <1>5, <1>6 DEF Past

\* An entry made on what is shown leads further.
LEMMA PastAppend ==
    ASSUME NEW st, NEW X, NEW u \in Seq(X), NEW e \in X, Past(u, st, From(e, st)),
           Joined(e, st), NEW v, v = Append(u, e)
    PROVE  Past(v, st, To(e, st))
<1>1. PICK n : n = Len(u) /\ n \in Nat
  BY LenProperties
<1>2. Len(v) = n + 1 /\ v[n + 1] = e /\ \A i \in 1..n : v[i] = u[i]
  BY <1>1, AppendProperties
<1>3. \A i \in 1..(n + 1) : \/ i = n + 1
                            \/ i # n + 1 /\ i \in 1..n /\ (i = n => i + 1 = n + 1)
                               /\ (i # n => i + 1 \in 1..n)
  BY <1>1
<1>4. ASSUME NEW i \in 1..(n + 1)
      PROVE  Joined(v[i], st) /\ To(v[i], st) = IF i = n + 1 THEN To(e, st) ELSE From(v[i + 1], st)
  <2>1. CASE i = n + 1
    BY <1>2, <2>1
  <2>2. CASE i # n + 1
    <3>1. i \in 1..n /\ (i = n => i + 1 = n + 1) /\ (i # n => i + 1 \in 1..n)
      BY <1>3, <2>2
    <3>2. Joined(u[i], st) /\ To(u[i], st) = IF i = n THEN From(e, st) ELSE From(u[i + 1], st)
      BY <1>1, <3>1 DEF Past
    <3> QED
      BY <1>2, <2>2, <3>1, <3>2
  <2> QED
    BY <2>1, <2>2
<1> QED
  BY <1>2, <1>4 DEF Past

\* Without its top redo leads on from what the top leaves.
LEMMA FutureFront ==
    ASSUME NEW st, NEW X, NEW r \in Seq(X), r # <<>>, NEW p, Future(r, st, p),
           NEW e, e = Last(r)
    PROVE  /\ e = <<>> => Future(Front(r), st, p)
           /\ e # <<>> => Future(Front(r), st, To(e, st)) /\ Joined(e, st) /\ p = From(e, st)
<1>1. PICK n, v : n = Len(r) /\ v = Front(r)
  OBVIOUS
<1>2. n \in Nat \ {0} /\ Len(v) = n - 1 /\ e = r[n] /\ \A i \in 1..(n - 1) : v[i] = r[i]
  BY <1>1, FrontOf
<1>3. PICK at : Onward(r, st, at, p)
  BY DEF Future
<1>4. \A i \in 1..(n - 1) : i \in 1..n
  BY <1>2
<1>5. Onward(v, st, at, at[n - 1])
  BY <1>1, <1>2, <1>3, <1>4 DEF Onward
<1>6. at[n] = p /\ \/ e = <<>> /\ at[n - 1] = at[n]
                   \/ /\ e # <<>> /\ Joined(e, st)
                      /\ at[n] = From(e, st) /\ at[n - 1] = To(e, st)
  <2>1. n \in 1..n
    BY <1>2
  <2> QED
    BY <1>1, <1>2, <1>3, <2>1 DEF Onward
<1>7. Future(v, st, at[n - 1])
  BY <1>5 DEF Future
<1> QED
  BY <1>1, <1>6, <1>7

\* An entry taken back leads on to what lay ahead.
LEMMA FutureAppend ==
    ASSUME NEW st, NEW X, NEW r \in Seq(X), NEW e \in X, NEW p, Future(r, st, p),
           NEW q, \/ e = <<>> /\ q = p
                  \/ e # <<>> /\ Joined(e, st) /\ q = From(e, st) /\ p = To(e, st),
           NEW v, v = Append(r, e)
    PROVE  Future(v, st, q)
<1>1. PICK n : n = Len(r) /\ n \in Nat
  BY LenProperties
<1>2. Len(v) = n + 1 /\ v[n + 1] = e /\ \A i \in 1..n : v[i] = r[i]
  BY <1>1, AppendProperties
<1>3. PICK at : Onward(r, st, at, p)
  BY DEF Future
<1>4. PICK bt : bt = [i \in 0..(n + 1) |-> IF i = n + 1 THEN q ELSE at[i]]
  OBVIOUS
<1>5. bt[n + 1] = q /\ bt[n] = p /\ \A i \in 1..n : bt[i] = at[i] /\ bt[i - 1] = at[i - 1]
  BY <1>1, <1>3, <1>4 DEF Onward
<1>6. ASSUME NEW i \in 1..(n + 1)
      PROVE  \/ v[i] = <<>> /\ bt[i - 1] = bt[i]
             \/ /\ v[i] # <<>> /\ Joined(v[i], st)
                /\ bt[i] = From(v[i], st) /\ bt[i - 1] = To(v[i], st)
  <2>1. CASE i = n + 1
    <3>1. i - 1 = n
      BY <1>1, <2>1
    <3> QED
      BY <1>2, <1>5, <2>1, <3>1
  <2>2. CASE i # n + 1
    <3>1. i \in 1..n
      BY <1>1, <2>2
    <3>2. \/ r[i] = <<>> /\ at[i - 1] = at[i]
          \/ /\ r[i] # <<>> /\ Joined(r[i], st)
             /\ at[i] = From(r[i], st) /\ at[i - 1] = To(r[i], st)
      BY <1>1, <1>3, <3>1 DEF Onward
    <3> QED
      BY <1>2, <1>5, <3>1, <3>2
  <2> QED
    BY <2>1, <2>2
<1>7. Onward(v, st, bt, q)
  BY <1>2, <1>5, <1>6 DEF Onward
<1> QED
  BY <1>7 DEF Future

\* Empty stacks lead anywhere.
LEMMA NoneAheadOf ==
    ASSUME NEW st, NEW p
    PROVE  Future(<<>>, st, p) /\ Past(<<>>, st, p)
<1>1. Onward(<<>>, st, [i \in {0} |-> p], p)
  BY DEF Onward
<1> QED
  BY <1>1 DEF Future, Past

-----------------------------------------------------------------------------
(* The line of the stacks.                                                  *)

\* g[i] is what lies ahead on the lowest i entries of r.
AheadBy(g, r, st) ==
    /\ g[0] = <<>>
    /\ \A i \in 1..Len(r) :
         \/ r[i] = <<>> /\ g[i] = g[i - 1]
         \/ r[i] # <<>> /\ g[i] = <<To(r[i], st)>> \o g[i - 1]

\* Ahead is worked out along the stack.
LEMMA AheadIs ==
    ASSUME NEW st, NEW r, Len(r) \in Nat, NEW g, AheadBy(g, r, st)
    PROVE  Ahead(r, st) = g[Len(r)]
<1> DEFINE n == Len(r)
           G(q, i) == CASE i = 0 -> <<>>
                        [] i > 0 /\ r[i] = <<>> -> q
                        [] OTHER -> <<To(r[i], st)>> \o q
           Fcn(f) == f = [i \in 0..n |-> G(f[i - 1], i)]
           k == [i \in 0..n |-> g[i]]
           Q == [i \in 0..n |-> {g[i]}]
<1>1. Ahead(r, st) = (CHOOSE f : Fcn(f))[n]
  BY DEF Ahead
<1>2. n \in Nat
  OBVIOUS
<1>3. \A i \in 1..n : i # 0 /\ i > 0 /\ i \in 0..n /\ i - 1 \in 0..n
  OBVIOUS
<1>4. g[0] = G(<<>>, 0) /\ \A i \in 1..n : g[i] = G(g[i - 1], i)
  BY <1>3 DEF AheadBy
<1>5. Fcn(k)
  <2>1. \A i \in 0..n : g[i] = CASE i = 0 -> <<>>
                                 [] i > 0 /\ r[i] = <<>> -> k[i - 1]
                                 [] OTHER -> <<To(r[i], st)>> \o k[i - 1]
    <3> TAKE i \in 0..n
    <3>1. CASE i = 0
      BY <1>4, <3>1
    <3>2. CASE i # 0
      <4>1. i \in 1..n /\ k[i - 1] = g[i - 1]
        BY <1>2, <1>3, <3>2
      <4> QED
        BY <1>4, <4>1
    <3> QED
      BY <3>1, <3>2
  <2> QED
    BY <2>1
<1>6. PICK f : f = CHOOSE h : Fcn(h)
  OBVIOUS
<1>7. Fcn(f)
  <2> HIDE DEF Fcn
  <2> QED
    BY <1>5, <1>6
<1>8. f[0] \in Q[0] /\ \A i \in (0 + 1)..n : f[i - 1] \in Q[i - 1] => f[i] \in Q[i]
  <2>1. f[0] \in Q[0]
    <3>1. 0 \in 0..n
      BY <1>2
    <3> QED
      BY <1>4, <1>7, <3>1
  <2>2. ASSUME NEW i \in (0 + 1)..n, f[i - 1] \in Q[i - 1] PROVE f[i] \in Q[i]
    <3>1. i \in 1..n /\ i \in 0..n /\ i - 1 \in 0..n
      BY <1>2
    <3>2. f[i - 1] = g[i - 1] /\ f[i] = G(f[i - 1], i)
      BY <1>7, <2>2, <3>1
    <3> QED
      BY <1>4, <3>1, <3>2
  <2> QED
    BY <2>1, <2>2
<1>9. \A i \in 0..n : f[i] \in Q[i]
  <2> HIDE DEF Q, n, Fcn
  <2>1. 0 \in Nat
    OBVIOUS
  <2> QED
    BY <1>2, <1>8, <2>1, StaysIn
<1>10. f[n] = g[n]
  <2>1. n \in 0..n
    BY <1>2
  <2> QED
    BY <1>9, <2>1
<1> QED
  BY <1>1, <1>6, <1>10

\* What lies ahead can be worked out, and is pictures.
PicsOf(st) == \A n \in DOMAIN st, h \in Half : st[n][h].pic \in Pic

\* Snapshots are of pictures.
LEMMA SnapsShow ==
    ASSUME NEW st, SnapsFit(st)
    PROVE  PicsOf(st)
<1>1. ASSUME NEW n \in DOMAIN st, NEW h \in Half PROVE st[n][h].pic \in Pic
  <2>1. PICK s \in Snapshots : s = st[n][h]
    BY DEF SnapsFit
  <2> QED
    BY <2>1 DEF Snapshots
<1> QED
  BY <1>1 DEF PicsOf

\* An entry was made on a picture and left one.
LEMMA EntryShows ==
    ASSUME NEW st, PicsOf(st), NEW e \in Seq(StepNo), Range(e) \subseteq DOMAIN st, e # <<>>
    PROVE  From(e, st) \in Pic /\ To(e, st) \in Pic
<1>1. "before" \in Half /\ "after" \in Half
  BY DEF Half
<1>2. Len(e) \in Nat /\ Len(e) # 0
  BY EmptySeq
<1>3. 1 \in DOMAIN e /\ Len(e) \in DOMAIN e
  BY <1>2
<1> QED
  BY <1>1, <1>3 DEF PicsOf, From, To, Last, Range

\* What lies ahead is pictures, one per entry that has steps.
LEMMA AheadWorks ==
    ASSUME NEW st, PicsOf(st), NEW r \in Seq(Seq(StepNo)), StepsIn(r) \subseteq DOMAIN st
    PROVE  /\ \E g : AheadBy(g, r, st) /\ Ahead(r, st) = g[Len(r)] /\ \A i \in 0..Len(r) : g[i] \in Seq(Pic)
           /\ Ahead(r, st) \in Seq(Pic)
<1> DEFINE n == Len(r)
           R == Seq(Pic)
           G(q, i) == IF r[i] = <<>> THEN q ELSE <<To(r[i], st)>> \o q
           Q == [i \in 0..n |-> R]
           F == [i \in 1..n |-> [q \in R |-> G(q, i)]]
<1>1. n \in Nat
  OBVIOUS
<1>2. ASSUME NEW i \in 1..n, NEW q \in R PROVE G(q, i) \in R
  <2>1. CASE r[i] = <<>>
    BY <2>1
  <2>2. CASE r[i] # <<>>
    <3>1. r[i] \in Seq(StepNo) /\ Range(r[i]) \subseteq DOMAIN st
      BY StepOf
    <3>2. To(r[i], st) \in Pic
      BY <2>2, <3>1, EntryShows
    <3>3. PICK one : one = <<To(r[i], st)>>
      OBVIOUS
    <3>4. one \in Seq(Pic) /\ q \in Seq(Pic)
      BY <3>2, <3>3
    <3>5. one \o q \in Seq(Pic)
      BY <3>4, ConcatProperties
    <3> QED
      BY <2>2, <3>3, <3>5
  <2> QED
    BY <2>1, <2>2
<1>3. <<>> \in R
  OBVIOUS
<1> HIDE DEF R, G, n
<1>4. /\ \A i \in 0..n : Q[i] = R
      /\ \A i \in 1..n : \A q \in R : F[i][q] = G(q, i)
  OBVIOUS
<1> HIDE DEF Q, F
<1>5. PICK k \in [0..n -> R] : WorkedOut(k, F, 0, n, <<>>, Q)
  <2>1. Leads(F, 0, n, <<>>, Q)
    <3>1. ASSUME NEW i \in (0 + 1)..n, NEW q \in Q[i - 1] PROVE F[i][q] \in Q[i]
      <4>1. i \in 1..n /\ i - 1 \in 0..n /\ i \in 0..n
        BY <1>1
      <4> QED
        BY <1>2, <1>4, <4>1
    <3>2. 0 \in 0..n
      BY <1>1
    <3> QED
      BY <1>3, <1>4, <3>1, <3>2 DEF Leads
  <2>2. n \in Nat /\ 0 \in Nat /\ 0 <= n
    BY <1>1
  <2> QED
    BY <1>4, <2>1, <2>2, Iterates
<1>6. AheadBy(k, r, st)
  <2>1. k[0] = <<>>
    BY <1>5 DEF WorkedOut
  <2>2. ASSUME NEW i \in 1..n PROVE k[i] = G(k[i - 1], i)
    <3>1. i \in (0 + 1)..n /\ i - 1 \in 0..n
      BY <1>1
    <3>2. k[i] = F[i][k[i - 1]] /\ k[i - 1] \in R
      BY <1>5, <3>1 DEF WorkedOut
    <3> QED
      BY <1>4, <3>2
  <2> QED
    BY <2>1, <2>2 DEF AheadBy, G, n
<1>7. Ahead(r, st) = k[n]
  BY <1>1, <1>6, AheadIs DEF n
<1>8. \A i \in 0..n : k[i] \in R
  BY <1>5
<1>9. n \in 0..n
  BY <1>1
<1> QED
  BY <1>6, <1>7, <1>8, <1>9 DEF R, n

\* It is the same over snapshots alike,
LEMMA AheadAlike ==
    ASSUME NEW st, NEW ot, Alike(st, ot), PicsOf(st), NEW r \in Seq(Seq(StepNo)),
           StepsIn(r) \subseteq DOMAIN st, StepsIn(r) \subseteq DOMAIN ot
    PROVE  Ahead(r, ot) = Ahead(r, st)
<1>1. PICK g : AheadBy(g, r, st) /\ Ahead(r, st) = g[Len(r)]
  BY AheadWorks
<1>2. \A i \in 1..Len(r) : SameEntry(r[i], st, ot)
  BY StackAlike
<1>3. AheadBy(g, r, ot)
  BY <1>1, <1>2 DEF AheadBy, SameEntry
<1> QED
  BY <1>1, <1>3, AheadIs, LenProperties

\* one less without the top,
LEMMA AheadFront ==
    ASSUME NEW st, PicsOf(st), NEW r \in Seq(Seq(StepNo)), StepsIn(r) \subseteq DOMAIN st,
           r # <<>>, NEW e, e = Last(r)
    PROVE  Ahead(r, st) = IF e = <<>> THEN Ahead(Front(r), st)
                          ELSE <<To(e, st)>> \o Ahead(Front(r), st)
<1>1. PICK n, v : n = Len(r) /\ v = Front(r)
  OBVIOUS
<1>2. n \in Nat \ {0} /\ Len(v) = n - 1 /\ e = r[n] /\ \A i \in 1..(n - 1) : v[i] = r[i]
  BY <1>1, FrontOf
<1>3. PICK g : AheadBy(g, r, st) /\ Ahead(r, st) = g[n]
  BY <1>1, AheadWorks
<1>4. (\A i \in 1..(n - 1) : i \in 1..n) /\ n \in 1..n /\ n - 1 \in Nat
  BY <1>2
<1>5. AheadBy(g, v, st)
  BY <1>1, <1>2, <1>3, <1>4 DEF AheadBy
<1>6. Ahead(v, st) = g[n - 1]
  BY <1>2, <1>4, <1>5, AheadIs
<1> QED
  BY <1>1, <1>2, <1>3, <1>4, <1>6 DEF AheadBy

\* one more with an entry on top,
LEMMA AheadAppend ==
    ASSUME NEW st, PicsOf(st), NEW r \in Seq(Seq(StepNo)), StepsIn(r) \subseteq DOMAIN st,
           NEW e, NEW v, v = Append(r, e)
    PROVE  Ahead(v, st) = IF e = <<>> THEN Ahead(r, st) ELSE <<To(e, st)>> \o Ahead(r, st)
<1>1. PICK n : n = Len(r) /\ n \in Nat
  BY LenProperties
<1>2. Len(v) = n + 1 /\ v[n + 1] = e /\ \A i \in 1..n : v[i] = r[i]
  BY <1>1, AppendProperties
<1>3. PICK g : AheadBy(g, r, st) /\ Ahead(r, st) = g[n]
  BY <1>1, AheadWorks
<1>4. PICK last : last = IF e = <<>> THEN g[n] ELSE <<To(e, st)>> \o g[n]
  OBVIOUS
<1>5. PICK h : h = [i \in 0..(n + 1) |-> IF i = n + 1 THEN last ELSE g[i]]
  OBVIOUS
<1>6. h[n + 1] = last /\ h[n] = g[n] /\ h[0] = g[0] /\ \A i \in 1..n : h[i] = g[i] /\ h[i - 1] = g[i - 1]
  BY <1>1, <1>5
<1>7. \A i \in 1..(n + 1) : i \in 1..n \/ (i = n + 1 /\ i - 1 = n)
  BY <1>1
<1>8. AheadBy(h, v, st)
  BY <1>1, <1>2, <1>3, <1>4, <1>6, <1>7 DEF AheadBy
<1>9. Ahead(v, st) = h[n + 1]
  <2>1. Len(v) \in Nat
    BY <1>1, <1>2
  <2> QED
    BY <1>2, <1>8, <2>1, AheadIs
<1> QED
  BY <1>3, <1>4, <1>6, <1>9

\* and none where redo is empty.
LEMMA AheadNone ==
    ASSUME NEW st
    PROVE  Ahead(<<>>, st) = <<>>
<1>1. AheadBy([i \in {0} |-> <<>>], <<>>, st) /\ Len(<<>>) = 0
  BY DEF AheadBy
<1> QED
  BY <1>1, AheadIs

\* Sequences of pictures joined.
LEMMA PicsAssociate ==
    ASSUME NEW a \in Seq(Pic), NEW b \in Seq(Pic), NEW c \in Seq(Pic)
    PROVE  (a \o b) \o c = a \o (b \o c)
BY ConcatAssociative

\* Fewer entries at the deep end, fewer pictures at the far end.
LEMMA AheadLater ==
    ASSUME NEW st, PicsOf(st), NEW r \in Seq(Seq(StepNo)), StepsIn(r) \subseteq DOMAIN st,
           NEW d, NEW v \in Seq(Seq(StepNo)), Later(v, r, d), StepsIn(v) \subseteq DOMAIN st
    PROVE  \E rest \in Seq(Pic) : Ahead(r, st) = Ahead(v, st) \o rest
<1>1. PICK n, m : n = Len(r) /\ m = Len(v) /\ n \in Nat /\ d \in 0..n /\ m = n - d /\ m \in Nat
  BY LenProperties DEF Later
<1>2. PICK g : AheadBy(g, r, st) /\ Ahead(r, st) = g[n] /\ \A i \in 0..n : g[i] \in Seq(Pic)
  BY <1>1, AheadWorks
<1>3. PICK h : AheadBy(h, v, st) /\ Ahead(v, st) = h[m] /\ \A i \in 0..m : h[i] \in Seq(Pic)
  BY <1>1, AheadWorks
<1>4. PICK rest : rest = g[d] /\ rest \in Seq(Pic)
  BY <1>1, <1>2
<1>5. PICK f : f = [i \in 0..m |-> g[i + d]]
  OBVIOUS
<1>6. PICK Q : Q = [i \in 0..m |-> {h[i] \o rest}]
  OBVIOUS
<1>7. f[0] \in Q[0]
  <2>1. 0 \in 0..m /\ 0 + d = d
    BY <1>1
  <2>2. h[0] = <<>>
    BY <1>3 DEF AheadBy
  <2>3. <<>> \o rest = rest
    BY <1>4, ConcatEmptySeq
  <2> QED
    BY <1>4, <1>5, <1>6, <2>1, <2>2, <2>3
<1>8. ASSUME NEW i \in (0 + 1)..m, f[i - 1] \in Q[i - 1] PROVE f[i] \in Q[i]
  <2>1. PICK j : /\ j = i + d /\ j \in 1..n /\ j - 1 = (i - 1) + d
                 /\ i \in 0..m /\ i - 1 \in 0..m /\ i \in 1..m
    BY <1>1
  <2>2. f[i] = g[j] /\ f[i - 1] = g[j - 1] /\ g[j - 1] = h[i - 1] \o rest /\ v[i] = r[j]
    BY <1>1, <1>5, <1>6, <1>8, <2>1 DEF Later
  <2>3. CASE r[j] = <<>>
    BY <1>1, <1>2, <1>3, <1>6, <2>1, <2>2, <2>3 DEF AheadBy
  <2>4. CASE r[j] # <<>>
    <3>1. PICK one : one = <<To(r[j], st)>> /\ g[j] = one \o g[j - 1] /\ h[i] = one \o h[i - 1]
      BY <1>1, <1>2, <1>3, <2>1, <2>2, <2>4 DEF AheadBy
    <3>2. one \in Seq(Pic)
      <4>1. r[j] \in Seq(StepNo) /\ Range(r[j]) \subseteq DOMAIN st
        BY <1>1, <2>1, StepOf
      <4>2. To(r[j], st) \in Pic
        BY <2>4, <4>1, EntryShows
      <4> QED
        BY <3>1, <4>2
    <3>3. one \o (h[i - 1] \o rest) = (one \o h[i - 1]) \o rest
      <4>1. PICK q : q = h[i - 1]
        OBVIOUS
      <4>2. q \in Seq(Pic) /\ rest \in Seq(Pic)
        BY <1>3, <1>4, <2>1, <4>1
      <4>3. (one \o q) \o rest = one \o (q \o rest)
        BY <3>2, <4>2, PicsAssociate
      <4> QED
        BY <4>1, <4>3
    <3> QED
      BY <1>6, <2>1, <2>2, <3>1, <3>3
  <2> QED
    BY <2>3, <2>4
<1>9. f[m] = h[m] \o rest
  <2>1. \A i \in 0..m : f[i] \in Q[i]
    <3>1. 0 \in Nat
      OBVIOUS
    <3> QED
      BY <1>1, <1>7, <1>8, <3>1, StaysIn
  <2>2. m \in 0..m
    BY <1>1
  <2> QED
    BY <1>6, <2>1, <2>2
<1>10. f[m] = g[n]
  <2>1. m \in 0..m /\ m + d = n
    BY <1>1
  <2> QED
    BY <1>5, <2>1
<1> QED
  BY <1>2, <1>3, <1>4, <1>9, <1>10

\* l is the line of u with a ahead, p shown.
LineFits(l, u, a, st, p) ==
    /\ Len(l) = Len(u) + 1 + Len(a)
    /\ \A i \in 1..Len(u) : l[i] = From(u[i], st)
    /\ l[Len(u) + 1] = p
    /\ \A j \in 1..Len(a) : l[Len(u) + 1 + j] = a[j]

\* The stacks u and r over the snapshots st.
StackedOver(u, r, st) ==
    /\ u \in Seq(Seq(StepNo)) /\ r \in Seq(Seq(StepNo))
    /\ \A i \in DOMAIN u : u[i] # <<>>
    /\ StepsIn(u) \cup StepsIn(r) \subseteq DOMAIN st /\ SnapsFit(st)

\* Two sequences of pictures joined.
LEMMA PicsConcat ==
    ASSUME NEW a \in Seq(Pic), NEW b \in Seq(Pic)
    PROVE  /\ a \o b \in Seq(Pic) /\ Len(a \o b) = Len(a) + Len(b)
           /\ Len(a) \in Nat /\ Len(b) \in Nat
           /\ \A i \in 1..(Len(a) + Len(b)) :
                (a \o b)[i] = IF i <= Len(a) THEN a[i] ELSE b[i - Len(a)]
  BY ConcatProperties, LenProperties

\* A function of the first n numbers is a sequence of n.
LEMMA PicsListed ==
    ASSUME NEW n \in Nat, NEW b \in [1..n -> Pic]
    PROVE  b \in Seq(Pic) /\ Len(b) = n
<1>1. b \in Seq(Pic)
  BY SeqDef
<1>2. PICK k : k = Len(b) /\ k \in Nat /\ DOMAIN b = 1..k
  BY <1>1, LenProperties
<1>3. 1..k = 1..n
  BY <1>2
<1>4. k = n
  <2>1. \A i : i \in 1..k <=> i \in 1..n
    BY <1>3
  <2>2. ~(k < n)
    <3>1. k < n => n \in 1..n /\ n \notin 1..k
      BY <1>2
    <3> QED
      BY <2>1, <3>1
  <2>3. ~(n < k)
    <3>1. n < k => k \in 1..k /\ k \notin 1..n
      BY <1>2
    <3> QED
      BY <2>1, <3>1
  <2> QED
    BY <1>2, <2>2, <2>3
<1> QED
  BY <1>1, <1>2, <1>4

\* The line of two stacks fits them.
LEMMA LineOfFits ==
    ASSUME NEW u, NEW r, NEW st, StackedOver(u, r, st), NEW p \in Pic
    PROVE  /\ LineFits(LineOf(u, r, st, p), u, Ahead(r, st), st, p)
           /\ LineOf(u, r, st, p) \in Seq(Pic) /\ Ahead(r, st) \in Seq(Pic)
<1>1. PICK n : n = Len(u) /\ n \in Nat
  BY LenProperties DEF StackedOver
<1>2. PICK a : a = Ahead(r, st) /\ a \in Seq(Pic)
  BY AheadWorks, SnapsShow DEF StackedOver
<1>3. \A i \in 1..n : From(u[i], st) \in Pic
  <2> TAKE i \in 1..n
  <2>1. u[i] \in Seq(StepNo) /\ u[i] # <<>> /\ Range(u[i]) \subseteq DOMAIN st
    BY <1>1, StepOf DEF StackedOver
  <2> QED
    BY <2>1, EntryShows, SnapsShow DEF StackedOver
<1>4. PICK b : b = [i \in 1..n |-> From(u[i], st)]
  OBVIOUS
<1>5. b \in Seq(Pic) /\ Len(b) = n /\ \A i \in 1..n : b[i] = From(u[i], st)
  <2>1. b \in [1..n -> Pic]
    BY <1>3, <1>4
  <2>2. b \in Seq(Pic) /\ Len(b) = n
    BY <1>1, <2>1, PicsListed
  <2> QED
    BY <1>4, <2>2
<1>6. PICK one : one = <<p>>
  OBVIOUS
<1>7. one \in Seq(Pic) /\ Len(one) = 1 /\ one[1] = p
  BY <1>6
<1>8. PICK c : c = b \o one
  OBVIOUS
<1>9. /\ c \in Seq(Pic) /\ Len(c) = n + 1
      /\ \A i \in 1..(n + 1) : c[i] = IF i <= n THEN b[i] ELSE one[i - n]
  <2>1. /\ b \o one \in Seq(Pic) /\ Len(b \o one) = Len(b) + Len(one)
        /\ \A i \in 1..(Len(b) + Len(one)) :
             (b \o one)[i] = IF i <= Len(b) THEN b[i] ELSE one[i - Len(b)]
    BY <1>5, <1>7, PicsConcat
  <2> QED
    BY <1>5, <1>7, <1>8, <2>1
<1>10. c[n + 1] = p /\ \A i \in 1..n : c[i] = b[i] /\ i \in 1..(n + 1)
  <2>1. ~(n + 1 <= n) /\ (n + 1) - n = 1 /\ n + 1 \in 1..(n + 1)
    BY <1>1
  <2>2. \A i \in 1..n : i <= n /\ i \in 1..(n + 1)
    BY <1>1
  <2> QED
    BY <1>7, <1>9, <2>1, <2>2
<1>11. PICK l : l = c \o a
  OBVIOUS
<1>12. PICK k : k = Len(a) /\ k \in Nat
  BY <1>2, LenProperties
<1>13. /\ l \in Seq(Pic) /\ Len(l) = n + 1 + k
       /\ \A i \in 1..(n + 1 + k) : l[i] = IF i <= n + 1 THEN c[i] ELSE a[i - (n + 1)]
  <2>1. /\ c \o a \in Seq(Pic) /\ Len(c \o a) = Len(c) + Len(a)
        /\ \A i \in 1..(Len(c) + Len(a)) :
             (c \o a)[i] = IF i <= Len(c) THEN c[i] ELSE a[i - Len(c)]
    BY <1>2, <1>9, PicsConcat
  <2> QED
    BY <1>9, <1>11, <1>12, <2>1
<1>14. \A i \in 1..(n + 1) : l[i] = c[i]
  <2>1. \A i \in 1..(n + 1) : i <= n + 1 /\ i \in 1..(n + 1 + k)
    BY <1>1, <1>12
  <2> QED
    BY <1>13, <2>1
<1>15. \A j \in 1..k : l[n + 1 + j] = a[j]
  <2>1. \A j \in 1..k : ~(n + 1 + j <= n + 1) /\ n + 1 + j \in 1..(n + 1 + k) /\ (n + 1 + j) - (n + 1) = j
    BY <1>1, <1>12
  <2> QED
    BY <1>13, <2>1
<1>16. n + 1 \in 1..(n + 1)
  BY <1>1
<1>17. LineFits(l, u, a, st, p)
  BY <1>1, <1>5, <1>10, <1>12, <1>13, <1>14, <1>15, <1>16 DEF LineFits
<1>18. l = LineOf(u, r, st, p)
  BY <1>1, <1>2, <1>4, <1>6, <1>8, <1>11 DEF LineOf
<1> QED
  BY <1>2, <1>13, <1>17, <1>18

\* Fewer entries at the two deep ends: the line, forgotten at its ends.
LEMMA FitSettles ==
    ASSUME NEW u, NEW v, NEW a \in Seq(Pic), NEW b \in Seq(Pic), NEW st, NEW ot, NEW p,
           NEW l, LineFits(l, u, a, st, p), NEW m, LineFits(m, v, b, ot, p),
           Len(u) \in Nat, NEW d, Later(v, u, d), u # <<>> => d < Len(u), Len(u) = 0 => u = <<>>,
           \A i \in 1..Len(v) : From(v[i], ot) = From(u[i + d], st),
           NEW rest \in Seq(Pic), a = b \o rest
    PROVE  Abstract!Settles(l, Len(u) + 1, m, Len(v) + 1)
<1>1. PICK n, k, x, y : /\ n = Len(u) /\ k = Len(v) /\ x = Len(a) /\ y = Len(b)
                        /\ n \in Nat /\ d \in 0..n /\ k = n - d /\ y \in Nat /\ x \in Nat
  BY LenProperties DEF Later
<1>2. y <= x /\ \A j \in 1..y : j \in 1..x /\ a[j] = b[j]
  <2>1. x = y + Len(rest) /\ Len(rest) \in Nat
    BY <1>1, ConcatProperties, LenProperties
  <2>2. \A j \in 1..(y + Len(rest)) : a[j] = IF j <= y THEN b[j] ELSE rest[j - y]
    BY <1>1, ConcatProperties
  <2>3. y <= x /\ \A j \in 1..y : j \in 1..(y + Len(rest)) /\ j <= y /\ j \in 1..x
    BY <1>1, <2>1
  <2> QED
    BY <2>2, <2>3
<1>3. Len(l) = n + 1 + x /\ Len(m) = k + 1 + y
  BY <1>1 DEF LineFits
<1>4. ASSUME NEW i \in 1..(k + 1 + y) PROVE m[i] = l[i + d]
  <2>1. CASE i <= k
    <3>1. i \in 1..k /\ i + d \in 1..n
      BY <1>1, <2>1
    <3>2. v[i] = u[i + d]
      BY <1>1, <3>1 DEF Later
    <3> QED
      BY <1>1, <3>1, <3>2 DEF LineFits
  <2>2. CASE i = k + 1
    <3>1. i + d = n + 1
      BY <1>1, <2>2
    <3> QED
      BY <1>1, <2>2, <3>1 DEF LineFits
  <2>3. CASE i > k + 1
    <3>1. i \in Nat /\ i <= k + 1 + y /\ k \in Nat /\ d \in Nat
      BY <1>1
    <3>2. PICK j : j = i - (k + 1)
      OBVIOUS
    <3>3. j \in 1..y /\ i = k + 1 + j /\ i + d = n + 1 + j
      BY <1>1, <2>3, <3>1, <3>2
    <3>4. j \in 1..x /\ a[j] = b[j]
      BY <1>2, <3>3
    <3>5. m[k + 1 + j] = b[j] /\ l[n + 1 + j] = a[j]
      BY <1>1, <3>3, <3>4 DEF LineFits
    <3> QED
      BY <3>3, <3>4, <3>5
  <2>4. i \in Nat /\ k \in Nat
    BY <1>1
  <2> QED
    BY <2>1, <2>2, <2>3, <2>4
<1>5. d > 0 => k + 1 > 1
  BY <1>1
<1>6. /\ n + 1 - (k + 1) = d /\ d >= 0 /\ k + 1 >= 1
      /\ k + 1 <= k + 1 + y /\ k + 1 + y <= (n + 1 + x) - d
  BY <1>1, <1>2
<1> QED
  BY <1>1, <1>3, <1>4, <1>5, <1>6 DEF Abstract!Settles

\* The pictures of the stacks: each entry made on what the one before it left.
Chain(u, r, st, p) == p \in Pic /\ Past(u, st, p) /\ Future(r, st, p) /\ Sided(st)

\* Stacks less entries of their deep ends: the line is forgotten at its ends.
LEMMA LaterShows ==
    ASSUME NEW u, NEW r, NEW st, StackedOver(u, r, st), NEW p, Chain(u, r, st, p),
           NEW ot, SnapsFit(ot), DOMAIN ot \subseteq DOMAIN st, Alike(st, ot),
           NEW v \in Seq(Seq(StepNo)), NEW w \in Seq(Seq(StepNo)),
           StepsIn(v) \cup StepsIn(w) \subseteq DOMAIN ot,
           NEW d, Later(v, u, d), u # <<>> => d < Len(u), NEW e, Later(w, r, e)
    PROVE  /\ Chain(v, w, ot, p)
           /\ Abstract!Settles(LineOf(u, r, st, p), Len(u) + 1, LineOf(v, w, ot, p), Len(v) + 1)
<1>1. /\ u \in Seq(Seq(StepNo)) /\ r \in Seq(Seq(StepNo)) /\ Len(u) \in Nat /\ p \in Pic
      /\ StepsIn(v) \subseteq DOMAIN st /\ StepsIn(w) \subseteq DOMAIN st
      /\ StepsIn(v) \subseteq DOMAIN ot /\ StepsIn(w) \subseteq DOMAIN ot
      /\ StepsIn(u) \subseteq DOMAIN st /\ StepsIn(r) \subseteq DOMAIN st
      /\ PicsOf(st)
      /\ (Len(u) = 0 => u = <<>>)
  BY SnapsShow, EmptySeq, LenProperties DEF StackedOver, Chain
<1>2. \A i \in DOMAIN v : v[i] # <<>>
  <2>1. \A i \in 1..Len(v) : i + d \in 1..Len(u) /\ v[i] = u[i + d]
    <3>1. d \in 0..Len(u) /\ Len(v) = Len(u) - d /\ \A i \in 1..(Len(u) - d) : v[i] = u[i + d]
      BY DEF Later
    <3> QED
      BY <1>1, <3>1
  <2> QED
    BY <1>1, <2>1, LenProperties DEF StackedOver
<1>3. Past(v, st, p) /\ \A i \in 1..Len(v) : From(v[i], st) = From(u[i + d], st)
  BY <1>1, PastLater DEF Chain
<1>4. Past(v, ot, p) /\ \A i \in 1..Len(v) : From(v[i], ot) = From(v[i], st)
  BY <1>1, <1>2, <1>3, PastAlike
<1>5. Future(w, st, p)
  BY <1>1, FutureLater DEF Chain
<1>6. Future(w, ot, p)
  BY <1>1, <1>5, FutureAlike
<1>7. Sided(ot)
  BY AlikeSided DEF Chain
<1>8. StackedOver(v, w, ot)
  BY <1>2 DEF StackedOver
<1>9. PICK a, b, l, m : /\ a = Ahead(r, st) /\ b = Ahead(w, ot)
                        /\ l = LineOf(u, r, st, p) /\ m = LineOf(v, w, ot, p)
  OBVIOUS
<1>10. LineFits(l, u, a, st, p) /\ a \in Seq(Pic)
  BY <1>1, <1>9, LineOfFits
<1>11. LineFits(m, v, b, ot, p) /\ b \in Seq(Pic)
  BY <1>1, <1>8, <1>9, LineOfFits
<1>12. Ahead(w, ot) = Ahead(w, st)
  <2>1. Alike(st, ot)
    OBVIOUS
  <2>3. PicsOf(st) /\ StepsIn(w) \subseteq DOMAIN st /\ StepsIn(w) \subseteq DOMAIN ot
    BY <1>1
  <2>2. w \in Seq(Seq(StepNo))
    OBVIOUS
  <2> QED
    BY <2>1, <2>2, <2>3, AheadAlike
<1>13. PICK rest \in Seq(Pic) : Ahead(r, st) = Ahead(w, st) \o rest
  <2>1. PicsOf(st) /\ StepsIn(w) \subseteq DOMAIN st /\ StepsIn(r) \subseteq DOMAIN st
    BY <1>1
  <2>2. w \in Seq(Seq(StepNo)) /\ r \in Seq(Seq(StepNo)) /\ Later(w, r, e)
    BY <1>1
  <2> QED
    BY <2>1, <2>2, AheadLater
<1>14. a = b \o rest
  BY <1>9, <1>12, <1>13
<1>15. \A i \in 1..Len(v) : From(v[i], ot) = From(u[i + d], st)
  BY <1>3, <1>4
<1>16. Abstract!Settles(l, Len(u) + 1, m, Len(v) + 1)
  BY <1>1, <1>10, <1>11, <1>14, <1>15, FitSettles
<1> QED
  BY <1>1, <1>4, <1>6, <1>7, <1>9, <1>16 DEF Chain

\* So it is where the operation left them.
LEMMA LeftShows ==
    ASSUME NEW u, NEW r, NEW st, StackedOver(u, r, st),
           NEW p, Chain(u, r, st, p), Left(u, r, DOMAIN st), Alike(st, steps'), cel' = p
    PROVE  /\ Chain(undo', redo', steps', cel')
           /\ Abstract!Settles(LineOf(u, r, st, p), Len(u) + 1, Line', Len(undo') + 1)
<1>1. PICK v, w, ot : v = undo' /\ w = redo' /\ ot = steps'
  OBVIOUS
<1>2. PICK d, e : Later(v, u, d) /\ (u # <<>> => d < Len(u)) /\ Later(w, r, e)
  BY <1>1 DEF Left
<1>3. /\ v \in Seq(Seq(StepNo)) /\ w \in Seq(Seq(StepNo))
      /\ SnapsFit(ot) /\ StepsIn(v) \cup StepsIn(w) \subseteq DOMAIN ot
      /\ DOMAIN ot \subseteq DOMAIN st
  BY <1>1 DEF Left, StepsHold
<1>4. StackedOver(u, r, st)
  OBVIOUS
<1>5. Alike(st, ot)
  BY <1>1
<1>6. /\ Chain(v, w, ot, p)
      /\ Abstract!Settles(LineOf(u, r, st, p), Len(u) + 1, LineOf(v, w, ot, p), Len(v) + 1)
  BY <1>2, <1>3, <1>4, <1>5, LaterShows
<1>7. Line' = LineOf(v, w, ot, p)
  BY <1>1 DEF Line
<1> QED
  BY <1>1, <1>6, <1>7

\* The chain and the line are the same over snapshots alike.
LEMMA ChainAlike ==
    ASSUME NEW u, NEW r, NEW st, StackedOver(u, r, st), NEW p, Chain(u, r, st, p),
           NEW ot, SnapsFit(ot), DOMAIN ot \subseteq DOMAIN st, Alike(st, ot),
           StepsIn(u) \cup StepsIn(r) \subseteq DOMAIN ot
    PROVE  /\ Chain(u, r, ot, p) /\ StackedOver(u, r, ot)
           /\ LineOf(u, r, ot, p) = LineOf(u, r, st, p)
<1>1. /\ u \in Seq(Seq(StepNo)) /\ r \in Seq(Seq(StepNo))
      /\ StepsIn(u) \subseteq DOMAIN st /\ StepsIn(r) \subseteq DOMAIN st
      /\ StepsIn(u) \subseteq DOMAIN ot /\ StepsIn(r) \subseteq DOMAIN ot
      /\ \A i \in DOMAIN u : u[i] # <<>>
  BY DEF StackedOver
<1>2. Past(u, st, p) /\ Future(r, st, p) /\ Sided(st) /\ p \in Pic
  BY DEF Chain
<1>3. PicsOf(st)
  BY SnapsShow DEF StackedOver
<1>4. Past(u, ot, p) /\ \A i \in 1..Len(u) : From(u[i], ot) = From(u[i], st)
  BY <1>1, <1>2, PastAlike
<1>5. Future(r, ot, p)
  BY <1>1, <1>2, FutureAlike
<1>6. Sided(ot)
  BY <1>2, AlikeSided
<1>7. Ahead(r, ot) = Ahead(r, st)
  BY <1>1, <1>3, AheadAlike
<1>8. [i \in 1..Len(u) |-> From(u[i], ot)] = [i \in 1..Len(u) |-> From(u[i], st)]
  BY <1>4
<1>9. LineOf(u, r, ot, p) = LineOf(u, r, st, p)
  BY <1>7, <1>8 DEF LineOf
<1> QED
  BY <1>1, <1>2, <1>4, <1>5, <1>6, <1>9 DEF Chain, StackedOver

\* A picture more behind the one shown.
LEMMA PicsOfAppend ==
    ASSUME NEW st, NEW u \in Seq(Seq(StepNo)), NEW e \in Seq(StepNo), NEW v, v = Append(u, e),
           From(e, st) \in Pic, \A i \in 1..Len(u) : From(u[i], st) \in Pic
    PROVE  /\ [i \in 1..Len(u) |-> From(u[i], st)] \in Seq(Pic)
           /\ [i \in 1..Len(v) |-> From(v[i], st)] =
                  [i \in 1..Len(u) |-> From(u[i], st)] \o <<From(e, st)>>
<1>1. PICK n, p : n = Len(u) /\ n \in Nat /\ p = From(e, st) /\ p \in Pic
  BY LenProperties
<1>2. /\ Len(v) = n + 1 /\ v[n + 1] = e /\ \A i \in 1..n : v[i] = u[i]
  BY <1>1, AppendProperties
<1>3. PICK b, c, one : /\ b = [i \in 1..n |-> From(u[i], st)]
                       /\ c = [i \in 1..(n + 1) |-> From(v[i], st)]
                       /\ one = <<p>>
  OBVIOUS
<1>4. b \in Seq(Pic) /\ Len(b) = n
  <2>1. b \in [1..n -> Pic]
    BY <1>1, <1>3
  <2> QED
    BY <1>1, <2>1, PicsListed
<1>5. one \in Seq(Pic) /\ Len(one) = 1 /\ one[1] = p
  BY <1>1, <1>3
<1>6. \A i \in 1..(n + 1) : i \in 1..n \/ i = n + 1
  BY <1>1
<1>7. c \in Seq(Pic) /\ Len(c) = n + 1
  <2>1. c \in [1..(n + 1) -> Pic]
    BY <1>1, <1>2, <1>3, <1>6
  <2>2. PICK k \in Nat : k = n + 1
    BY <1>1
  <2> QED
    BY <2>1, <2>2, PicsListed
<1>8. PICK a : a = b \o one
  OBVIOUS
<1>9. /\ a \in Seq(Pic) /\ Len(a) = n + 1
      /\ \A i \in 1..(n + 1) : a[i] = IF i <= n THEN b[i] ELSE one[i - n]
  <2>1. /\ b \o one \in Seq(Pic) /\ Len(b \o one) = Len(b) + Len(one)
        /\ \A i \in 1..(Len(b) + Len(one)) :
             (b \o one)[i] = IF i <= Len(b) THEN b[i] ELSE one[i - Len(b)]
    BY <1>4, <1>5, PicsConcat
  <2> QED
    BY <1>4, <1>5, <1>8, <2>1
<1>10. \A i \in 1..(n + 1) : a[i] = c[i]
  <2> TAKE i \in 1..(n + 1)
  <2>1. CASE i \in 1..n
    <3>1. i <= n
      BY <1>1, <2>1
    <3> QED
      BY <1>2, <1>3, <1>9, <2>1, <3>1
  <2>2. CASE i = n + 1
    <3>1. ~(n + 1 <= n) /\ (n + 1) - n = 1
      BY <1>1
    <3> QED
      BY <1>1, <1>2, <1>3, <1>5, <1>9, <2>2, <3>1
  <2> QED
    BY <1>6, <2>1, <2>2
<1>11. a = c
  BY <1>7, <1>9, <1>10, SeqEqual
<1> QED
  BY <1>1, <1>2, <1>3, <1>4, <1>8, <1>11

\* An entry on either side of the picture shown: one line.
Pushes(v, u, e) == v = Append(u, e)

\* One entry moved from undo to redo: the same line, one place back.
LEMMA LineBack ==
    ASSUME NEW u, NEW r, NEW st, StackedOver(u, r, st), NEW e \in Seq(StepNo), e # <<>>,
           Range(e) \subseteq DOMAIN st, NEW v, Pushes(v, u, e), NEW w, Pushes(w, r, e),
           NEW p, p = From(e, st), NEW q, q = To(e, st)
    PROVE  LineOf(v, r, st, q) = LineOf(u, w, st, p)
<1>1. /\ u \in Seq(Seq(StepNo)) /\ r \in Seq(Seq(StepNo)) /\ StepsIn(r) \subseteq DOMAIN st
      /\ PicsOf(st)
  BY SnapsShow DEF StackedOver
<1>2. \A i \in 1..Len(u) : From(u[i], st) \in Pic
  <2> TAKE i \in 1..Len(u)
  <2>1. i \in DOMAIN u
    BY <1>1, LenProperties
  <2>2. u[i] \in Seq(StepNo) /\ u[i] # <<>> /\ Range(u[i]) \subseteq DOMAIN st
    BY <1>1, <2>1, StepOf DEF StackedOver
  <2> QED
    BY <1>1, <2>2, EntryShows
<1>3. p \in Pic /\ q \in Pic
  BY <1>1, EntryShows
<1>4. PICK b, c, a : /\ b = [i \in 1..Len(u) |-> From(u[i], st)]
                     /\ c = [i \in 1..Len(v) |-> From(v[i], st)]
                     /\ a = Ahead(r, st)
  OBVIOUS
<1>5. b \in Seq(Pic) /\ c = b \o <<p>>
  BY <1>1, <1>2, <1>3, <1>4, PicsOfAppend DEF Pushes
<1>6. a \in Seq(Pic)
  BY <1>1, <1>4, AheadWorks
<1>7. Ahead(w, st) = <<q>> \o a
  BY <1>1, <1>3, <1>4, AheadAppend DEF Pushes
<1>13. <<p>> \in Seq(Pic) /\ <<q>> \in Seq(Pic)
  BY <1>3
<1>8. PICK one, two : one = <<p>> /\ two = <<q>> /\ one \in Seq(Pic) /\ two \in Seq(Pic)
  BY <1>13
<1>9. PICK bo : bo = b \o one /\ bo \in Seq(Pic)
  BY <1>5, <1>8, PicsConcat
<1>10. (bo \o two) \o a = bo \o (two \o a)
  BY <1>6, <1>8, <1>9, PicsAssociate
<1>11. LineOf(v, r, st, q) = (c \o two) \o a
  BY <1>4, <1>8 DEF LineOf
<1>12. LineOf(u, w, st, p) = (b \o one) \o (two \o a)
  BY <1>4, <1>7, <1>8 DEF LineOf
<1> QED
  BY <1>3, <1>5, <1>8, <1>9, <1>10, <1>11, <1>12

\* A line stays as it is.
LEMMA SettlesSame ==
    ASSUME NEW l \in Seq(Pic), NEW h \in 1..Len(l)
    PROVE  Abstract!Settles(l, h, l, h)
<1>1. PICK n : n = Len(l) /\ n \in Nat
  BY LenProperties
<1>2. h \in Nat /\ h >= 1 /\ h <= n /\ h - h = 0 /\ n - 0 = n
  BY <1>1
<1>3. \A i \in 1..n : i + 0 = i
  BY <1>1
<1> QED
  BY <1>1, <1>2, <1>3 DEF Abstract!Settles

-----------------------------------------------------------------------------
(* What the picture the cel shows has to do with those of the stacks.       *)

PInv ==
    /\ Chain(undo, redo, steps, cel)
    /\ run.pushed > 0 => redo = <<>>

LineSteps == Abstract!Steps(Line, Len(undo) + 1, Line', Len(undo') + 1)
Shows == PInv' /\ LineSteps

\* What the invariant says of the stacks.
LEMMA InvStackedOver ==
    ASSUME IInv
    PROVE  StackedOver(undo, redo, steps) /\ Given(undo, redo, steps, files)
BY InvGiven DEF IInv, StacksFit, Given, StackedOver

\* The line is of pictures, and the one shown stands at its place.
LEMMA LineIsPics ==
    ASSUME NEW u, NEW r, NEW st, StackedOver(u, r, st), NEW p \in Pic,
           NEW l, l = LineOf(u, r, st, p)
    PROVE  /\ l \in Seq(Pic) /\ Len(u) \in Nat /\ Len(u) + 1 \in 1..Len(l)
           /\ l[Len(u) + 1] = p /\ (u # <<>> => Len(u) + 1 > 1)
<1>1. /\ l \in Seq(Pic) /\ LineFits(l, u, Ahead(r, st), st, p) /\ Ahead(r, st) \in Seq(Pic)
  BY LineOfFits
<1>2. PICK n, k : n = Len(u) /\ k = Len(Ahead(r, st)) /\ n \in Nat /\ k \in Nat
                  /\ (u # <<>> => n # 0)
  BY <1>1, LenProperties, EmptySeq DEF StackedOver
<1>3. Len(l) = n + 1 + k /\ l[n + 1] = p
  BY <1>1, <1>2 DEF LineFits
<1>4. n + 1 \in 1..(n + 1 + k) /\ (n # 0 => n + 1 > 1)
  BY <1>2
<1> QED
  BY <1>1, <1>2, <1>3, <1>4

\* The stacks, the snapshots and the picture as they were.
LEMMA StillShows ==
    ASSUME IInv, PInv, UNCHANGED <<cel, undo, redo, steps>>, run'.pushed > 0 => redo = <<>>
    PROVE  Shows
<1>1. Line' = Line
  BY DEF Line
<1>2. Chain(undo, redo, steps, cel)
  BY DEF PInv
<1>3. PInv'
  BY <1>2 DEF PInv
<1>4. StackedOver(undo, redo, steps) /\ cel \in Pic
  BY <1>2, InvStackedOver DEF Chain
<1>5. PICK l, h : l = Line /\ h = Len(undo) + 1
  OBVIOUS
<1>6. l \in Seq(Pic) /\ h \in 1..Len(l)
  BY <1>4, <1>5, LineIsPics DEF Line
<1>7. Abstract!Settles(l, h, l, h)
  BY <1>6, SettlesSame
<1>8. Len(undo') + 1 = h
  BY <1>5
<1> QED
  BY <1>1, <1>3, <1>5, <1>7, <1>8 DEF Shows, LineSteps, Abstract!Steps

\* A trim shows nothing else than a line forgotten at its ends.
LEMMA TrimShows ==
    ASSUME NEW u, NEW r, NEW st, NEW fs, Given(u, r, st, fs), StackedOver(u, r, st),
           PassFits(spill, st), NEW p, Chain(u, r, st, p), cel' = p,
           NEW stand \in Stands, Trim(u, r, st, fs, stand),
           run'.pushed > 0 => redo' = <<>>
    PROVE  /\ PInv'
           /\ Abstract!Settles(LineOf(u, r, st, p), Len(u) + 1, Line', Len(undo') + 1)
<1>1. Left(u, r, DOMAIN st)
  BY TrimHolds
<1>2. Alike(st, steps')
  BY TrimAlike DEF StackedOver
<1>3. /\ Chain(undo', redo', steps', cel')
      /\ Abstract!Settles(LineOf(u, r, st, p), Len(u) + 1, Line', Len(undo') + 1)
  BY <1>1, <1>2, LeftShows
<1> QED
  BY <1>3 DEF PInv

\* An entry's halves as a walk takes them back, and as one does them again.
LEMMA WalksBack ==
    ASSUME NEW st, NEW e \in Seq(StepNo), e # <<>>, Joined(e, st),
           NEW ns, ns = Reverse(e)
    PROVE  /\ Walks(ns, "before", st, To(e, st))
           /\ ns # <<>> /\ st[ns[Len(ns)]]["before"].pic = From(e, st)
<1>1. PICK n \in Nat \ {0} : n = Len(e)
  BY EmptySeq, LenProperties
<1>2. /\ ns \in Seq(StepNo) /\ DOMAIN ns = 1..n /\ Len(ns) = n
      /\ \A i \in 1..n : ns[i] = e[(n - i) + 1]
  <2>1. ns = [i \in 1..n |-> e[(n - i) + 1]]
    BY <1>1 DEF Reverse
  <2>2. ns \in Seq(StepNo)
    BY ReverseOf
  <2>3. PICK k : k = Len(ns) /\ k \in Nat /\ DOMAIN ns = 1..k
    BY <2>2, LenProperties
  <2>4. 1..k = 1..n
    BY <2>1, <2>3
  <2>5. \A i : i \in 1..k <=> i \in 1..n
    BY <2>4
  <2>6. k >= 1
    <3>1. 1 \in 1..n
      BY <1>1
    <3>2. 1 \in 1..k
      BY <2>5, <3>1
    <3> QED
      BY <2>3, <3>2
  <2>7. k \in 1..n /\ n \in 1..k
    <3>1. k \in 1..k /\ n \in 1..n
      BY <1>1, <2>3, <2>6
    <3> QED
      BY <2>5, <3>1
  <2>8. k = n
    BY <1>1, <2>3, <2>7
  <2> QED
    BY <2>1, <2>2, <2>3, <2>8
<1>3. Last(e) = e[n]
  BY <1>1 DEF Last
<1>4. Other("before") = "after"
  BY DEF Other
<1>5. ASSUME NEW i \in 1..n
      PROVE  st[ns[i]].after.pic = IF i = 1 THEN To(e, st) ELSE st[ns[i - 1]].before.pic
  <2>1. CASE i = 1
    <3>1. 1 \in 1..n /\ (n - 1) + 1 = n
      BY <1>1
    <3>2. ns[1] = e[n]
      BY <1>2, <3>1
    <3> QED
      BY <1>3, <2>1, <3>2 DEF To
  <2>2. CASE i # 1
    <3>1. PICK j : j = (n - i) + 1 /\ j \in 1..(n - 1) /\ (n - (i - 1)) + 1 = j + 1 /\ i - 1 \in 1..n
      BY <1>1, <2>2
    <3>2. ns[i] = e[j] /\ ns[i - 1] = e[j + 1]
      BY <1>2, <3>1
    <3>3. st[e[j]].after.pic = st[e[j + 1]].before.pic
      BY <1>1, <3>1 DEF Joined
    <3> QED
      BY <2>2, <3>2, <3>3
  <2> QED
    BY <2>1, <2>2
<1>6. Walks(ns, "before", st, To(e, st))
  BY <1>2, <1>4, <1>5 DEF Walks
<1>7. ns # <<>>
  <2>1. Len(ns) # 0
    BY <1>2
  <2> QED
    BY <2>1, Len(<<>>) = 0
<1>8. ns[n] = e[1]
  <2>1. n \in 1..n /\ (n - n) + 1 = 1
    BY <1>1
  <2> QED
    BY <1>2, <2>1
<1> QED
  BY <1>2, <1>6, <1>7, <1>8 DEF From

LEMMA WalksOn ==
    ASSUME NEW st, NEW e \in Seq(StepNo), e # <<>>, Joined(e, st)
    PROVE  /\ Walks(e, "after", st, From(e, st))
           /\ st[e[Len(e)]]["after"].pic = To(e, st)
<1>1. PICK n \in Nat \ {0} : n = Len(e)
  BY EmptySeq, LenProperties
<1>2. Other("after") = "before"
  BY DEF Other
<1>3. ASSUME NEW i \in 1..n
      PROVE  st[e[i]].before.pic = IF i = 1 THEN From(e, st) ELSE st[e[i - 1]].after.pic
  <2>1. CASE i = 1
    BY <2>1 DEF From
  <2>2. CASE i # 1
    <3>1. PICK j : j = i - 1 /\ j \in 1..(n - 1) /\ j + 1 = i
      BY <1>1, <2>2
    <3>2. st[e[j]].after.pic = st[e[j + 1]].before.pic
      BY <1>1, <3>1 DEF Joined
    <3> QED
      BY <2>2, <3>1, <3>2
  <2> QED
    BY <2>1, <2>2
<1>4. Walks(e, "after", st, From(e, st))
  BY <1>1, <1>2, <1>3 DEF Walks
<1>5. st[e[Len(e)]]["after"].pic = To(e, st)
  BY DEF To, Last
<1> QED
  BY <1>4, <1>5

-----------------------------------------------------------------------------
(* What each action shows.                                                  *)

\* A stack is its front with its top on it.
LEMMA FrontIsAppend ==
    ASSUME NEW X, NEW s \in Seq(X), s # <<>>
    PROVE  s = Append(Front(s), Last(s))
<1>1. PICK n \in Nat \ {0} : n = Len(s)
  BY FrontOf
<1>2. PICK f, e, a : f = Front(s) /\ e = Last(s) /\ a = Append(f, e)
  OBVIOUS
<1>3. f \in Seq(X) /\ e \in X /\ Len(f) = n - 1 /\ e = s[n] /\ \A i \in 1..(n - 1) : f[i] = s[i]
  BY <1>1, <1>2, FrontOf
<1>4. /\ a \in Seq(X) /\ Len(a) = n /\ a[n] = e /\ \A i \in 1..(n - 1) : a[i] = f[i]
  BY <1>1, <1>2, <1>3, AppendProperties
<1>5. \A i \in 1..n : i \in 1..(n - 1) \/ i = n
  BY <1>1
<1>6. \A i \in 1..n : s[i] = a[i]
  BY <1>3, <1>4, <1>5
<1> QED
  BY <1>1, <1>2, <1>4, <1>6, SeqEqual

\* The steps of a stack's top entry.
LEMMA TopOf ==
    ASSUME IInv, NEW s, s = undo \/ s = redo, s # <<>>, NEW e, e = Last(s)
    PROVE  /\ e \in Seq(StepNo) /\ Range(e) \subseteq DOMAIN steps
           /\ Range(e) \subseteq StepsIn(undo) \cup StepsIn(redo)
<1>1. e \in Seq(StepNo) /\ Range(e) \subseteq DOMAIN steps
  BY TopSteps
<1>2. s \in Seq(Seq(StepNo))
  BY InvStackedOver DEF StackedOver
<1>3. StepsIn(s) = StepsIn(Front(s)) \cup Range(e)
  BY <1>2, StepsOfFront
<1> QED
  BY <1>1, <1>3

\* The cel goes back to the picture the top entry was made on.
LEMMA TakenBackShows ==
    ASSUME ~FilesGetLost, IInv, PInv, undo # <<>>, NEW e, e = Last(undo), NEW k, k = TakenBack(e)
    PROVE  /\ e \in Seq(StepNo) /\ e # <<>> /\ Range(e) \subseteq DOMAIN steps
           /\ Joined(e, steps) /\ To(e, steps) = cel
           /\ Past(Front(undo), steps, From(e, steps)) /\ From(e, steps) \in Pic
           /\ k.cel = From(e, steps) /\ Alike(steps, k.steps)
<1>1. /\ StackedOver(undo, redo, steps) /\ Given(undo, redo, steps, files)
      /\ undo \in Seq(Seq(StepNo)) /\ PicsOf(steps)
  BY InvStackedOver, SnapsShow DEF StackedOver
<1>2. Past(undo, steps, cel) /\ Sided(steps) /\ cel \in Pic
  BY DEF PInv, Chain
<1>3. e \in Seq(StepNo) /\ Range(e) \subseteq DOMAIN steps /\ Range(e) \subseteq StepsIn(undo) \cup StepsIn(redo)
  BY TopOf
<1>4. e # <<>>
  <2>1. PICK n \in Nat \ {0} : n = Len(undo) /\ e = undo[n]
    BY <1>1, FrontOf
  <2>2. n \in DOMAIN undo
    BY <1>1, <2>1, LenProperties
  <2> QED
    BY <1>1, <2>1, <2>2 DEF StackedOver
<1>5. Past(Front(undo), steps, From(e, steps)) /\ Joined(e, steps) /\ To(e, steps) = cel
  BY <1>1, <1>2, PastFront
<1>6. From(e, steps) \in Pic
  BY <1>1, <1>3, <1>4, EntryShows
<1>7. PICK ns : ns = Reverse(e)
  OBVIOUS
<1>8. ns \in Seq(StepNo) /\ Range(ns) \subseteq Range(e)
  BY <1>3, <1>7, ReverseOf
<1>9. /\ Walks(ns, "before", steps, To(e, steps)) /\ ns # <<>>
      /\ steps[ns[Len(ns)]]["before"].pic = From(e, steps)
  BY <1>3, <1>4, <1>5, <1>7, WalksBack
<1>10. k = PutBack(ns, "before") /\ "before" \in Half
  BY <1>7 DEF TakenBack, Half
<1>11. Walks(ns, "before", steps, cel) /\ Range(ns) \subseteq StepsIn(undo) \cup StepsIn(redo)
  BY <1>3, <1>5, <1>8, <1>9
<1>12. /\ Alike(steps, k.steps)
       /\ k.cel = IF ns = <<>> THEN cel ELSE steps[ns[Len(ns)]]["before"].pic
  BY <1>1, <1>2, <1>8, <1>10, <1>11, PutBackShows
<1> QED
  BY <1>3, <1>4, <1>5, <1>6, <1>9, <1>12

\* Over snapshots alike the stacks u and r, shown at p, are trimmed.
LEMMA AlikeTrimShows ==
    ASSUME NEW u, NEW r, StackedOver(u, r, steps), NEW p, Chain(u, r, steps, p),
           NEW ot, Alike(steps, ot), DOMAIN ot = DOMAIN steps, NEW fs,
           Given(u, r, ot, fs), PassFits(spill, ot), cel' = p,
           NEW stand \in Stands, Trim(u, r, ot, fs, stand),
           run'.pushed > 0 => redo' = <<>>
    PROVE  /\ PInv'
           /\ Abstract!Settles(LineOf(u, r, steps, p), Len(u) + 1, Line', Len(undo') + 1)
<1>1. /\ SnapsFit(ot) /\ DOMAIN ot \subseteq DOMAIN steps /\ Alike(steps, ot)
      /\ StepsIn(u) \cup StepsIn(r) \subseteq DOMAIN ot
  BY DEF Given
<1>2. /\ Chain(u, r, ot, p) /\ StackedOver(u, r, ot)
      /\ LineOf(u, r, ot, p) = LineOf(u, r, steps, p)
  <2>1. PICK st : st = steps
    OBVIOUS
  <2>2. /\ Chain(u, r, ot, p) /\ StackedOver(u, r, ot)
        /\ LineOf(u, r, ot, p) = LineOf(u, r, st, p)
    BY <1>1, <2>1, ChainAlike
  <2> QED
    BY <2>1, <2>2
<1>3. /\ PInv'
      /\ Abstract!Settles(LineOf(u, r, ot, p), Len(u) + 1, Line', Len(undo') + 1)
  BY <1>2, TrimShows
<1> QED
  BY <1>2, <1>3

\* Undo goes one picture back.
LEMMA UndoShows ==
    ASSUME ~FilesGetLost, IInv, PInv, Undo
    PROVE  Shows
<1>1. /\ StacksFit(undo, redo, made) /\ RunFits(run, undo, made) /\ undo # <<>> /\ ~CanTakeBack
      /\ StackedOver(undo, redo, steps) /\ Given(undo, redo, steps, files)
  BY InvStackedOver DEF IInv, Undo
<1>2. LetGo = undo
  BY <1>1, LetGoFits
<1>3. PICK e, k, u, r :
          /\ e = Last(undo) /\ u = Front(undo) /\ r = Append(redo, e)
          /\ k = TakenBack(e)
          /\ run' = NoRun /\ cel' = k.cel /\ UNCHANGED <<made, warned, open>>
          /\ Trim(u, r, k.steps, k.files, stood)
  BY <1>2 DEF Undo
<1>4. StacksFit(u, r, made) /\ StepsIn(u) \cup StepsIn(r) = StepsIn(undo) \cup StepsIn(redo)
  BY <1>1, <1>3, UndoneFits
<1>5. /\ Given(undo, redo, k.steps, k.files) /\ PassFits(spill, k.steps)
      /\ DOMAIN k.steps = DOMAIN steps
  <2>1. PICK ns \in Seq(StepNo) : ns = Reverse(e) /\ Range(ns) \subseteq DOMAIN steps
    BY <1>1, <1>3, TopSteps
  <2>2. k = PutBack(ns, "before") /\ "before" \in Half
    BY <1>3, <2>1 DEF TakenBack, Half
  <2>3. cel \in Pic /\ PassFits(spill, steps)
    BY DEF IInv, RestHolds
  <2> QED
    BY <1>1, <2>1, <2>2, <2>3, PutBackFits
<1>6. Given(u, r, k.steps, k.files) /\ u \in Seq(Seq(StepNo)) /\ r \in Seq(Seq(StepNo))
  <2>1. u \in Seq(Seq(StepNo)) /\ r \in Seq(Seq(StepNo)) /\ Apart(u, r)
    BY <1>4, InvTyped DEF StacksFit
  <2> QED
    BY <1>4, <1>5, <2>1, MovedGiven
<1>7. /\ e \in Seq(StepNo) /\ e # <<>> /\ Range(e) \subseteq DOMAIN steps
      /\ Joined(e, steps) /\ To(e, steps) = cel
      /\ Past(u, steps, From(e, steps)) /\ From(e, steps) \in Pic
      /\ k.cel = From(e, steps) /\ Alike(steps, k.steps)
  BY <1>1, <1>3, TakenBackShows
<1>8. PICK st, p : st = steps /\ p = From(e, st) /\ p \in Pic
  BY <1>7
<1>9. StackedOver(u, r, st)
  BY <1>1, <1>4, <1>6, <1>8 DEF StackedOver, StacksFit
<1>10. Chain(u, r, st, p)
  <2>1. Future(redo, st, cel) /\ Sided(st)
    BY <1>8 DEF PInv, Chain
  <2>2. redo \in Seq(Seq(StepNo))
    BY <1>1 DEF StackedOver
  <2>3. Future(r, st, p)
    BY <1>3, <1>7, <1>8, <2>1, <2>2, FutureAppend
  <2> QED
    BY <1>7, <1>8, <2>1, <2>3 DEF Chain
<1>11. LineOf(u, r, st, p) = Line
  <2>1. undo = Append(u, e)
    BY <1>1, <1>3, FrontIsAppend DEF StackedOver
  <2>2. StackedOver(u, redo, st)
    BY <1>1, <1>8, <1>9 DEF StackedOver
  <2>3. PICK v, b, q : v = undo /\ b = redo /\ q = cel
    OBVIOUS
  <2>4. Pushes(v, u, e) /\ Pushes(r, b, e) /\ StackedOver(u, b, st)
    BY <1>3, <2>1, <2>2, <2>3 DEF Pushes
  <2>5. /\ e \in Seq(StepNo) /\ e # <<>> /\ Range(e) \subseteq DOMAIN st
        /\ p = From(e, st) /\ q = To(e, st)
    BY <1>7, <1>8, <2>3
  <2>6. LineOf(v, b, st, q) = LineOf(u, r, st, p)
    BY <2>4, <2>5, LineBack
  <2> QED
    BY <1>8, <2>3, <2>6 DEF Line
<1>12. /\ PInv'
       /\ Abstract!Settles(LineOf(u, r, st, p), Len(u) + 1, Line', Len(undo') + 1)
  <2>1. cel' = p /\ stood \in Stands /\ ~(run'.pushed > 0)
    BY <1>3, <1>7, <1>8 DEF IInv, RestHolds, Stands, NoRun
  <2>2. PICK ot, fs, sd : ot = k.steps /\ fs = k.files /\ sd = stood
    OBVIOUS
  <2>3. /\ Alike(steps, ot) /\ DOMAIN ot = DOMAIN steps /\ Given(u, r, ot, fs)
        /\ PassFits(spill, ot) /\ sd \in Stands /\ Trim(u, r, ot, fs, sd)
        /\ StackedOver(u, r, steps) /\ Chain(u, r, steps, p)
    BY <1>3, <1>5, <1>6, <1>7, <1>8, <1>9, <1>10, <2>1, <2>2
  <2> QED
    BY <1>8, <2>1, <2>3, AlikeTrimShows
<1>13. Abstract!Back(Line, Len(undo) + 1, Line', Len(undo') + 1)
  <2>1. PICK n \in Nat \ {0} : n = Len(undo)
    BY <1>1, FrontOf DEF StackedOver
  <2>2. Len(u) = n - 1
    BY <1>1, <1>3, <2>1, FrontOf DEF StackedOver
  <2>3. n + 1 > 1 /\ (n + 1) - 1 = (n - 1) + 1
    BY <2>1
  <2> QED
    BY <1>11, <1>12, <2>1, <2>2, <2>3 DEF Abstract!Back
<1> QED
  BY <1>12, <1>13 DEF Shows, LineSteps, Abstract!Steps

\* With something ahead the hold has pushed nothing, and folds nothing.
LEMMA NothingFolds ==
    ASSUME IInv, PInv, redo # <<>>
    PROVE  LetGo = undo
<1>1. run.pushed \in Nat /\ run.retracted \in Nat
  BY InvTyped
<1>2. run.pushed = 0
  BY <1>1 DEF PInv
<1>3. ~Folds
  BY <1>1, <1>2 DEF Folds, Kept
<1> QED
  BY <1>3 DEF LetGo

\* The cel goes on to the picture the top entry of redo left.
LEMMA DoneAgainShows ==
    ASSUME ~FilesGetLost, IInv, PInv, redo # <<>>, NEW e, e = Last(redo), NEW k, k = DoneAgain(e)
    PROVE  /\ Alike(steps, k.steps) /\ Sided(steps)
           /\ e = <<>> => Future(Front(redo), steps, cel) /\ k.cel = cel
           /\ e # <<>> => /\ Future(Front(redo), steps, To(e, steps))
                          /\ Joined(e, steps) /\ From(e, steps) = cel
                          /\ To(e, steps) \in Pic /\ k.cel = To(e, steps)
<1>1. /\ StackedOver(undo, redo, steps) /\ Given(undo, redo, steps, files)
      /\ redo \in Seq(Seq(StepNo)) /\ PicsOf(steps)
  BY InvStackedOver, SnapsShow DEF StackedOver
<1>2. Future(redo, steps, cel) /\ Sided(steps) /\ cel \in Pic
  BY DEF PInv, Chain
<1>3. e \in Seq(StepNo) /\ Range(e) \subseteq DOMAIN steps /\ Range(e) \subseteq StepsIn(undo) \cup StepsIn(redo)
  BY TopOf
<1>4. /\ e = <<>> => Future(Front(redo), steps, cel)
      /\ e # <<>> => Future(Front(redo), steps, To(e, steps)) /\ Joined(e, steps) /\ cel = From(e, steps)
  BY <1>1, <1>2, FutureFront
<1>5. k = PutBack(e, "after") /\ "after" \in Half
  BY DEF DoneAgain, Half
<1>6. Walks(e, "after", steps, cel)
  <2>1. CASE e = <<>>
    BY <2>1, Len(<<>>) = 0 DEF Walks
  <2>2. CASE e # <<>>
    BY <1>3, <1>4, <2>2, WalksOn
  <2> QED
    BY <2>1, <2>2
<1>7. /\ Alike(steps, k.steps)
      /\ k.cel = IF e = <<>> THEN cel ELSE steps[e[Len(e)]]["after"].pic
  BY <1>1, <1>2, <1>3, <1>5, <1>6, PutBackShows
<1>8. ASSUME e # <<>>
      PROVE  To(e, steps) \in Pic /\ k.cel = To(e, steps)
  <2>1. To(e, steps) \in Pic
    BY <1>1, <1>3, <1>8, EntryShows
  <2>2. steps[e[Len(e)]]["after"].pic = To(e, steps)
    BY <1>3, <1>4, <1>8, WalksOn
  <2> QED
    BY <1>7, <1>8, <2>1, <2>2
<1> QED
  BY <1>2, <1>4, <1>7, <1>8

\* What a redo hands to its trim.
Redone(e, k, u, r) ==
    /\ e = Last(redo) /\ k = DoneAgain(e) /\ r = Front(redo) /\ Regrown(u, undo, e)
    /\ run' = NoRun /\ cel' = k.cel
    /\ u \in Seq(Seq(StepNo)) /\ r \in Seq(Seq(StepNo)) /\ \A i \in DOMAIN u : u[i] # <<>>
    /\ StepsIn(u) \cup StepsIn(r) = StepsIn(undo) \cup StepsIn(redo)
    /\ DOMAIN k.steps = DOMAIN steps /\ Given(u, r, k.steps, k.files) /\ PassFits(spill, k.steps)
    /\ Trim(u, r, k.steps, k.files, stood)

\* What redo hands over: the stacks and the snapshots it trims.
LEMMA RedoHands ==
    ASSUME IInv, PInv, Redo
    PROVE  \E e, k, u, r : Redone(e, k, u, r)
<1>1. /\ redo # <<>> /\ StacksFit(undo, redo, made) /\ LetGo = undo
      /\ Given(undo, redo, steps, files)
  BY NothingFolds, InvStackedOver DEF IInv, Redo
<1>2. PICK e, k, u, r :
          /\ e = Last(redo) /\ k = DoneAgain(e) /\ r = Front(redo)
          /\ Regrown(u, undo, e)
          /\ run' = NoRun /\ cel' = k.cel
          /\ Trim(u, r, k.steps, k.files, stood)
  BY <1>1 DEF Redo, Regrown
<1>3. StacksFit(u, r, made) /\ StepsIn(u) \cup StepsIn(r) = StepsIn(undo) \cup StepsIn(redo)
  BY <1>1, <1>2, RedoneFits
<1>4. /\ Given(undo, redo, k.steps, k.files) /\ PassFits(spill, k.steps)
      /\ DOMAIN k.steps = DOMAIN steps
  <2>1. e \in Seq(StepNo) /\ Range(e) \subseteq DOMAIN steps
    BY <1>1, <1>2, TopSteps
  <2>2. k = PutBack(e, "after") /\ "after" \in Half
    BY <1>2 DEF DoneAgain, Half
  <2>3. cel \in Pic /\ PassFits(spill, steps)
    BY DEF IInv, RestHolds
  <2> QED
    BY <1>1, <2>1, <2>2, <2>3, PutBackFits
<1>5. /\ u \in Seq(Seq(StepNo)) /\ r \in Seq(Seq(StepNo)) /\ Apart(u, r)
      /\ \A i \in DOMAIN u : u[i] # <<>>
  BY <1>3, InvTyped DEF StacksFit
<1>6. Given(u, r, k.steps, k.files)
  BY <1>3, <1>4, <1>5, MovedGiven
<1>7. Redone(e, k, u, r)
  BY <1>2, <1>3, <1>4, <1>5, <1>6 DEF Redone
<1> QED
  BY <1>7

\* Redo goes one picture ahead.
LEMMA RedoShows ==
    ASSUME ~FilesGetLost, IInv, PInv, Redo
    PROVE  Shows
<1>1. PICK e, k, u, r : Redone(e, k, u, r)
  BY RedoHands
<1>2. redo # <<>> /\ StackedOver(undo, redo, steps) /\ redo \in Seq(Seq(StepNo)) /\ undo \in Seq(Seq(StepNo))
  BY InvStackedOver DEF Redo, StackedOver
<1>3. /\ Alike(steps, k.steps) /\ Sided(steps)
      /\ e = <<>> => Future(r, steps, cel) /\ k.cel = cel
      /\ e # <<>> => /\ Future(r, steps, To(e, steps))
                     /\ Joined(e, steps) /\ From(e, steps) = cel
                     /\ To(e, steps) \in Pic /\ k.cel = To(e, steps)
  BY <1>1, <1>2, DoneAgainShows DEF Redone
<1>4. Past(undo, steps, cel) /\ cel \in Pic
  BY DEF PInv, Chain
<1>5. StackedOver(u, r, steps)
  BY <1>1, <1>2 DEF Redone, StackedOver
<1>6. ASSUME NEW p, Chain(u, r, steps, p), k.cel = p
      PROVE  /\ PInv'
             /\ Abstract!Settles(LineOf(u, r, steps, p), Len(u) + 1, Line', Len(undo') + 1)
  <2>1. cel' = p /\ stood \in Stands /\ ~(run'.pushed > 0)
    BY <1>1, <1>6 DEF IInv, RestHolds, Stands, NoRun, Redone
  <2>2. PICK ot, fs, sd : ot = k.steps /\ fs = k.files /\ sd = stood
    OBVIOUS
  <2>3. /\ Alike(steps, ot) /\ DOMAIN ot = DOMAIN steps /\ Given(u, r, ot, fs)
        /\ PassFits(spill, ot) /\ sd \in Stands /\ Trim(u, r, ot, fs, sd)
    BY <1>1, <1>3, <2>1, <2>2 DEF Redone
  <2> QED
    BY <1>5, <1>6, <2>1, <2>3, AlikeTrimShows
<1>7. CASE e = <<>>
  <2>1. u = undo /\ r = Front(redo)
    BY <1>1, <1>7 DEF Redone, Regrown
  <2>2. Chain(u, r, steps, cel)
    BY <1>3, <1>4, <1>7, <2>1 DEF Chain
  <2>3. /\ PInv'
        /\ Abstract!Settles(LineOf(u, r, steps, cel), Len(u) + 1, Line', Len(undo') + 1)
    BY <1>3, <1>6, <1>7, <2>2
  <2>4. Ahead(redo, steps) = Ahead(r, steps)
    <3>1. PicsOf(steps) /\ StepsIn(redo) \subseteq DOMAIN steps /\ e = Last(redo)
      BY <1>1, <1>2, SnapsShow DEF StackedOver, Redone
    <3>2. Ahead(redo, steps) = IF e = <<>> THEN Ahead(Front(redo), steps)
                               ELSE <<To(e, steps)>> \o Ahead(Front(redo), steps)
      BY <1>2, <3>1, AheadFront
    <3> QED
      BY <1>7, <2>1, <3>2
  <2>5. LineOf(u, r, steps, cel) = Line
    BY <2>1, <2>4 DEF Line, LineOf
  <2> QED
    BY <2>1, <2>3, <2>5 DEF Shows, LineSteps, Abstract!Steps
<1>8. CASE e # <<>>
  <2>1. PICK p, q, st : p = cel /\ q = To(e, steps) /\ st = steps
    OBVIOUS
  <2>2. /\ e \in Seq(StepNo) /\ Range(e) \subseteq DOMAIN steps
        /\ Pushes(u, undo, e) /\ r = Front(redo) /\ e = Last(redo)
    BY <1>1, <1>2, <1>8, TopOf DEF Redone, Regrown, Pushes
  <2>3. Pushes(redo, r, e)
    BY <1>2, <2>2, FrontIsAppend DEF Pushes
  <2>4. Past(u, st, q)
    <3>1. Past(undo, st, From(e, st)) /\ Joined(e, st) /\ u = Append(undo, e) /\ undo \in Seq(Seq(StepNo))
      BY <1>2, <1>3, <1>4, <1>8, <2>1, <2>2 DEF Pushes
    <3>2. Past(u, st, To(e, st))
      BY <2>2, <3>1, PastAppend
    <3> QED
      BY <2>1, <3>2
  <2>5. Chain(u, r, steps, q)
    BY <1>3, <1>8, <2>1, <2>4 DEF Chain
  <2>6. /\ PInv'
        /\ Abstract!Settles(LineOf(u, r, steps, q), Len(u) + 1, Line', Len(undo') + 1)
    BY <1>3, <1>6, <1>8, <2>1, <2>5
  <2>7. LineOf(u, r, st, q) = Line
    <3>1. PICK a, b : a = undo /\ b = redo
      OBVIOUS
    <3>2. /\ StackedOver(a, r, st) /\ Pushes(u, a, e) /\ Pushes(b, r, e)
      <4>1. StepsIn(redo) = StepsIn(r) \cup Range(e)
        BY <1>2, <2>2, StepsOfFront
      <4>2. r \in Seq(Seq(StepNo))
        BY <1>1 DEF Redone
      <4> QED
        BY <1>2, <2>1, <2>2, <2>3, <3>1, <4>1, <4>2 DEF StackedOver
    <3>3. /\ e \in Seq(StepNo) /\ e # <<>> /\ Range(e) \subseteq DOMAIN st
          /\ p = From(e, st) /\ q = To(e, st)
      BY <1>3, <1>8, <2>1, <2>2
    <3>4. LineOf(u, r, st, q) = LineOf(a, b, st, p)
      BY <3>2, <3>3, LineBack
    <3> QED
      BY <2>1, <3>1, <3>4 DEF Line
  <2>8. PICK n \in Nat : n = Len(undo) /\ Len(u) = n + 1
    <3>1. u = Append(undo, e)
      BY <2>2 DEF Pushes
    <3> QED
      BY <1>2, <2>2, <3>1, LenProperties, AppendProperties
  <2>9. Abstract!Ahead(Line, Len(undo) + 1, Line', Len(undo') + 1)
    <3>1. PICK l : l = LineOf(u, r, steps, q)
      OBVIOUS
    <3>2. Len(u) + 1 \in 1..Len(l)
      BY <1>3, <1>5, <1>8, <2>1, <3>1, LineIsPics
    <3>3. l \in Seq(Pic)
      BY <1>3, <1>5, <1>8, <2>1, <3>1, LineIsPics
    <3>4. l = Line /\ Len(l) \in Nat
      BY <2>1, <2>7, <3>1, <3>3, LenProperties
    <3>5. n + 1 < Len(l) /\ Len(u) + 1 = (n + 1) + 1
      BY <2>8, <3>2, <3>4
    <3> QED
      BY <2>6, <2>8, <3>1, <3>4, <3>5 DEF Abstract!Ahead
  <2> QED
    BY <2>6, <2>9 DEF Shows, LineSteps, Abstract!Steps
<1> QED
  BY <1>7, <1>8

\* Of an empty redo nothing is left.
LEMMA LeftOfNone ==
    ASSUME NEW u, NEW r, r = <<>>, NEW D, Left(u, r, D)
    PROVE  redo' = <<>>
<1>1. PICK d : d \in 0..Len(r) /\ Later(redo', r, d) /\ redo' \in Seq(Seq(StepNo))
  BY DEF Left
<1>2. Len(r) = 0
  BY Len(<<>>) = 0
<1>3. Len(redo') = 0
  BY <1>1, <1>2 DEF Later
<1> QED
  BY <1>1, <1>3, EmptySeq

\* The stacks as they are, trimmed over snapshots alike.
LEMMA TrimmedShows ==
    ASSUME IInv, PInv, NEW ot, Alike(steps, ot), DOMAIN ot = DOMAIN steps,
           Given(undo, redo, ot, files), PassFits(spill, ot), UNCHANGED <<cel, run>>,
           Trim(undo, redo, ot, files, stood)
    PROVE  Shows
<1>1. /\ StackedOver(undo, redo, steps) /\ Chain(undo, redo, steps, cel) /\ stood \in Stands
      /\ redo \in Seq(Seq(StepNo)) /\ undo \in Seq(Seq(StepNo))
  BY InvStackedOver DEF PInv, IInv, RestHolds, Stands, StackedOver
<1>2. PICK u, r, p, fs, sd : u = undo /\ r = redo /\ p = cel /\ fs = files /\ sd = stood
  OBVIOUS
<1>3. /\ Given(u, r, ot, fs) /\ PassFits(spill, ot) /\ sd \in Stands
      /\ Trim(u, r, ot, fs, sd) /\ StackedOver(u, r, steps) /\ Chain(u, r, steps, p) /\ cel' = p
  BY <1>1, <1>2
<1>4. Left(u, r, DOMAIN ot)
  BY <1>3, TrimHolds
<1>5. run'.pushed > 0 => redo' = <<>>
  <2>1. SUFFICES ASSUME run'.pushed > 0 PROVE redo' = <<>>
    OBVIOUS
  <2>2. r = <<>>
    BY <1>2, <2>1 DEF PInv
  <2> QED
    BY <1>4, <2>2, LeftOfNone
<1>6. /\ PInv'
      /\ Abstract!Settles(LineOf(u, r, steps, p), Len(u) + 1, Line', Len(undo') + 1)
  BY <1>3, <1>5, AlikeTrimShows
<1>7. LineOf(u, r, steps, p) = Line
  BY <1>2 DEF Line
<1> QED
  BY <1>2, <1>6, <1>7 DEF Shows, LineSteps, Abstract!Steps

\* A warning from the system, a read ahead, a write that comes back and a walk
\* back left show nothing new.
LEMMA MemoryWarningShows ==
    ASSUME IInv, PInv, MemoryWarning
    PROVE  Shows
<1>1. PICK ot : ot = steps
  OBVIOUS
<1>2. /\ Alike(steps, ot) /\ DOMAIN ot = DOMAIN steps
      /\ Given(undo, redo, ot, files) /\ PassFits(spill, ot) /\ UNCHANGED <<cel, run>>
      /\ Trim(undo, redo, ot, files, stood)
  BY <1>1, InvStackedOver DEF Alike, IInv, MemoryWarning
<1> QED
  BY <1>2, TrimmedShows

LEMMA ReadAheadShows ==
    ASSUME IInv, PInv, ReadAhead
    PROVE  Shows
<1>1. PICK ns, half, k :
          /\ ns \in Seq(StepNo) /\ Range(ns) \subseteq DOMAIN steps /\ half \in Half
          /\ k = ReadAllEarly(ns, half) /\ Trim(undo, redo, k.steps, files, stood)
  <2>1. CASE undo # <<>> /\ \E k \in {EarlyUndo(Last(undo))} : Trim(undo, redo, k.steps, files, stood)
    <3>1. PICK ns : ns = Reverse(Last(undo)) /\ ns \in Seq(StepNo) /\ Range(ns) \subseteq DOMAIN steps
      BY <2>1, TopSteps
    <3> QED
      BY <2>1, <3>1 DEF EarlyUndo, Half
  <2>2. CASE redo # <<>> /\ \E k \in {EarlyRedo(Last(redo))} : Trim(undo, redo, k.steps, files, stood)
    <3>1. PICK ns : ns = Last(redo) /\ ns \in Seq(StepNo) /\ Range(ns) \subseteq DOMAIN steps
      BY <2>2, TopSteps
    <3> QED
      BY <2>2, <3>1 DEF EarlyRedo, Half
  <2> QED
    BY <2>1, <2>2 DEF ReadAhead
<1>2. UNCHANGED <<cel, run>>
  BY DEF ReadAhead
<1>3. cel \in Pic /\ Given(undo, redo, steps, files) /\ PassFits(spill, steps)
  BY InvStackedOver DEF IInv, RestHolds
<1>4. PICK ot : ot = k.steps
  OBVIOUS
<1>5. Given(undo, redo, ot, files) /\ PassFits(spill, ot) /\ DOMAIN ot = DOMAIN steps
  BY <1>1, <1>3, <1>4, ReadAllEarlyFits
<1>6. Alike(steps, ot)
  BY <1>1, <1>3, <1>4, ReadAllEarlyAlike
<1>7. Trim(undo, redo, ot, files, stood)
  BY <1>1, <1>4
<1> QED
  BY <1>2, <1>5, <1>6, <1>7, TrimmedShows

LEMMA LandShows ==
    ASSUME IInv, PInv, Land
    PROVE  Shows
<1>1. PICK taken \in BOOLEAN : Lands(taken)
  BY DEF Land
<1>2. UNCHANGED <<cel, run>>
  BY <1>1 DEF Lands
<1>3. /\ Given(undo, redo, steps, files) /\ stood \in Stands /\ PassFits(spill, steps)
      /\ StackedOver(undo, redo, steps) /\ Chain(undo, redo, steps, cel) /\ SnapsFit(steps)
  BY InvStackedOver DEF PInv, IInv, RestHolds, Stands, StackedOver
<1>4. Left(undo, redo, DOMAIN steps)
  BY <1>1, <1>3, LandsHolds
<1>5. Alike(steps, steps')
  BY <1>3, LandAlike
<1>6. PICK u, r, p, st : u = undo /\ r = redo /\ p = cel /\ st = steps
  OBVIOUS
<1>7. Left(u, r, DOMAIN st) /\ Alike(st, steps') /\ StackedOver(u, r, st) /\ Chain(u, r, st, p) /\ cel' = p
  BY <1>2, <1>3, <1>4, <1>5, <1>6
<1>8. /\ Chain(undo', redo', steps', cel')
      /\ Abstract!Settles(LineOf(u, r, st, p), Len(u) + 1, Line', Len(undo') + 1)
  BY <1>7, LeftShows
<1>9. run'.pushed > 0 => redo' = <<>>
  <2>1. SUFFICES ASSUME run'.pushed > 0 PROVE redo' = <<>>
    OBVIOUS
  <2>2. r = <<>>
    BY <1>2, <1>6, <2>1 DEF PInv
  <2> QED
    BY <1>7, <2>2, LeftOfNone
<1>10. LineOf(u, r, st, p) = Line
  BY <1>6 DEF Line
<1> QED
  BY <1>6, <1>8, <1>9, <1>10 DEF PInv, Shows, LineSteps, Abstract!Steps

LEMMA LeaveWalkBackShows ==
    ASSUME IInv, PInv, LeaveWalkBack
    PROVE  Shows
<1>1. /\ StacksFit(undo, redo, made) /\ RunFits(run, undo, made) /\ ~CanTakeBack
      /\ StackedOver(undo, redo, steps) /\ PicsOf(steps) /\ redo \in Seq(Seq(StepNo))
  BY InvStackedOver, SnapsShow DEF IInv, LeaveWalkBack, StackedOver
<1>2. LetGo = undo
  BY <1>1, LetGoFits
<1>3. PICK e, r : e = <<>> /\ r = Append(redo, e)
  OBVIOUS
<1>4. undo' = undo /\ redo' = r /\ cel' = cel /\ steps' = steps /\ run' = NoRun
  BY <1>2, <1>3 DEF LeaveWalkBack
<1>5. Chain(undo, redo, steps, cel)
  BY DEF PInv
<1>6. Future(r, steps, cel)
  <2>1. PICK p, st, b : p = cel /\ st = steps /\ b = redo
    OBVIOUS
  <2>2. Future(b, st, p) /\ r = Append(b, e) /\ b \in Seq(Seq(StepNo)) /\ e \in Seq(StepNo)
    BY <1>1, <1>3, <1>5, <2>1, EmptySeq DEF Chain
  <2>3. Future(r, st, p)
    BY <1>3, <2>2, FutureAppend
  <2> QED
    BY <2>1, <2>3
<1>7. Ahead(r, steps) = Ahead(redo, steps)
  BY <1>1, <1>3, AheadAppend DEF StackedOver
<1>8. Line' = Line
  BY <1>4, <1>7 DEF Line, LineOf
<1>9. PInv'
  BY <1>4, <1>5, <1>6 DEF PInv, Chain, NoRun
<1>10. PICK l, h : l = Line /\ h = Len(undo) + 1
  OBVIOUS
<1>11. l \in Seq(Pic) /\ h \in 1..Len(l)
  <2>1. cel \in Pic
    BY <1>5 DEF Chain
  <2> QED
    BY <1>1, <1>10, <2>1, LineIsPics DEF Line
<1>12. Abstract!Settles(l, h, l, h)
  BY <1>11, SettlesSame
<1> QED
  BY <1>4, <1>8, <1>9, <1>10, <1>12 DEF Shows, LineSteps, Abstract!Steps

\* A line of the first n pictures of another.
LEMMA LineCut ==
    ASSUME NEW l \in Seq(Pic), NEW m \in Seq(Pic), NEW n \in Nat, n <= Len(l), Len(m) = n,
           \A i \in 1..n : m[i] = l[i]
    PROVE  m = SubSeq(l, 1, n)
<1>1. PICK k \in Nat : k = Len(l) /\ n <= k
  BY LenProperties
<1>2. \A i \in 1..n : i \in 1..k /\ l[i] \in Pic
  BY <1>1
<1>3. PICK c, one : c = SubSeq(l, one, n) /\ one = 1
  OBVIOUS
<1>4. /\ c \in Seq(Pic) /\ Len(c) = IF 1 <= n THEN n - 1 + 1 ELSE 0
      /\ \A i \in 1..(n - 1 + 1) : c[i] = l[1 + i - 1]
  BY <1>2, <1>3, SubSeqProperties
<1>5. Len(c) = n /\ n - 1 + 1 = n /\ \A i \in 1..n : 1 + i - 1 = i
  BY <1>4
<1>6. \A i \in 1..n : c[i] = m[i]
  BY <1>4, <1>5
<1> QED
  BY <1>3, <1>4, <1>5, <1>6, SeqEqual

\* A hold that can take back has a step on the stack, and nothing lies ahead.
LEMMA NotOfNone ==
    ASSUME IInv, PInv, CanTakeBack
    PROVE  undo # <<>> /\ redo = <<>>
<1>1. run.on /\ RunFits(run, undo, made) /\ Len(undo) > run.depth /\ made \in Nat
  BY InvTyped DEF CanTakeBack, Whole, IInv
<1>2. run \in RunsOf(made)
  BY <1>1 DEF RunFits
<1>3. run.pushed \in Nat /\ run.retracted \in Nat /\ run.depth \in Nat /\ Len(undo) \in Nat
  BY <1>1, <1>2, RunTyped, DepthFits
<1>4. Len(undo) <= run.depth + run.pushed - run.retracted
  BY <1>1 DEF RunFits
<1>5. run.pushed > 0 /\ Len(undo) # 0
  BY <1>1, <1>3, <1>4
<1> QED
  BY <1>5, Len(<<>>) = 0 DEF PInv

\* A step taken back by a hold is a picture forgotten.
LEMMA TakeBackShows ==
    ASSUME ~FilesGetLost, IInv, PInv, TakeBack, IInv'
    PROVE  Shows
<1>1. PICK e, k, fs : /\ e = Last(undo) /\ k = TakenBack(e) /\ CanTakeBack
                      /\ cel' = k.cel /\ spill' = spill
                      /\ Leave(Front(undo), redo, k.steps, fs)
                      /\ run'.pushed = run.pushed
  BY InvTyped DEF TakeBack, pass
<1>2. undo # <<>> /\ redo = <<>>
  BY <1>1, NotOfNone
<1>3. /\ e \in Seq(StepNo) /\ e # <<>> /\ Range(e) \subseteq DOMAIN steps
      /\ Joined(e, steps) /\ To(e, steps) = cel
      /\ Past(Front(undo), steps, From(e, steps)) /\ From(e, steps) \in Pic
      /\ k.cel = From(e, steps) /\ Alike(steps, k.steps)
  BY <1>1, <1>2, TakenBackShows
<1>4. /\ StackedOver(undo, redo, steps) /\ undo \in Seq(Seq(StepNo)) /\ redo \in Seq(Seq(StepNo))
      /\ Given(undo, redo, steps, files) /\ PassFits(spill, steps) /\ cel \in Pic
  BY InvStackedOver DEF StackedOver, IInv, RestHolds
<1>5. DOMAIN k.steps = DOMAIN steps
  <2>1. PICK ns \in Seq(StepNo) : ns = Reverse(e) /\ Range(ns) \subseteq DOMAIN steps
    BY <1>1, <1>2, TopSteps
  <2>2. k = PutBack(ns, "before") /\ "before" \in Half
    BY <1>1, <2>1 DEF TakenBack, Half
  <2> QED
    BY <1>4, <2>1, <2>2, PutBackFits
<1>6. PICK u, r, p, n, st, ot :
          /\ u = Front(undo) /\ r = redo /\ p = From(e, steps) /\ st = steps /\ ot = steps'
          /\ n = Len(undo) /\ n \in Nat \ {0} /\ Len(u) = n - 1
          /\ \A i \in 1..(n - 1) : u[i] = undo[i]
          /\ undo[n] = e /\ u \in Seq(Seq(StepNo))
  <2>1. PICK n \in Nat \ {0} : n = Len(undo)
    BY <1>2, <1>4, FrontOf
  <2>2. /\ Front(undo) \in Seq(Seq(StepNo)) /\ Len(Front(undo)) = n - 1
        /\ \A i \in 1..(n - 1) : Front(undo)[i] = undo[i]
        /\ Last(undo) = undo[n]
    BY <1>2, <1>4, <2>1, FrontOf
  <2>3. PICK u, r, p, st, ot :
          u = Front(undo) /\ r = redo /\ p = From(e, steps) /\ st = steps /\ ot = steps'
    OBVIOUS
  <2> QED
    BY <1>1, <2>1, <2>2, <2>3
<1>7. undo' = u /\ redo' = r /\ cel' = p
  BY <1>1, <1>3, <1>6 DEF Leave
<1>8. StackedOver(u, r, st)
  <2>1. StepsIn(undo) = StepsIn(u) \cup Range(e)
    BY <1>1, <1>2, <1>4, <1>6, StepsOfFront
  <2>2. \A i \in DOMAIN u : u[i] # <<>>
    <3>1. \A i \in 1..(n - 1) : i \in 1..n
      BY <1>6
    <3>2. DOMAIN u = 1..(n - 1) /\ DOMAIN undo = 1..n
      BY <1>4, <1>6, LenProperties
    <3> QED
      BY <1>4, <1>6, <3>1, <3>2 DEF StackedOver
  <2> QED
    BY <1>4, <1>6, <2>1, <2>2 DEF StackedOver
<1>9. Chain(u, r, st, p)
  <2>1. Sided(st) /\ p \in Pic /\ Past(u, st, p)
    BY <1>3, <1>6 DEF PInv, Chain
  <2>2. Future(r, st, p)
    BY <1>2, <1>6, NoneAheadOf
  <2> QED
    BY <2>1, <2>2 DEF Chain
<1>10. /\ SnapsFit(ot) /\ DOMAIN ot \subseteq DOMAIN st /\ StepsIn(u) \cup StepsIn(r) \subseteq DOMAIN ot
  <2>1. SnapsFit(steps') /\ StepsIn(undo') \cup StepsIn(redo') \subseteq DOMAIN steps'
    BY DEF IInv, StepsHold
  <2>2. DOMAIN steps' = StepsIn(u) \cup StepsIn(r) \cup RestSteps(spill)
    BY <1>1, <1>6 DEF Leave, RestSteps
  <2>3. RestSteps(spill) \subseteq DOMAIN steps
    BY <1>4 DEF PassFits
  <2> QED
    BY <1>6, <1>7, <1>8, <2>1, <2>2, <2>3 DEF StackedOver
<1>11. Alike(st, ot)
  <2>1. Alike(k.steps, steps')
    BY <1>1, LeaveAlike
  <2>2. PICK kt : kt = k.steps
    OBVIOUS
  <2>3. Alike(st, kt) /\ Alike(kt, ot) /\ DOMAIN kt = DOMAIN st
    BY <1>3, <1>5, <1>6, <2>1, <2>2
  <2> QED
    BY <2>3, AlikeVia
<1>12. Chain(u, r, ot, p) /\ LineOf(u, r, ot, p) = LineOf(u, r, st, p)
  BY <1>8, <1>9, <1>10, <1>11, ChainAlike
<1>13. PInv'
  BY <1>1, <1>2, <1>6, <1>7, <1>12 DEF PInv
<1>14. PICK l, m, a : l = Line /\ m = LineOf(u, r, st, p) /\ a = Ahead(r, st)
  OBVIOUS
<1>15. LineFits(l, undo, a, st, cel) /\ l \in Seq(Pic)
  <2>1. l = LineOf(undo, r, st, cel) /\ StackedOver(undo, r, st)
    BY <1>4, <1>6, <1>14 DEF Line
  <2> QED
    BY <1>4, <1>14, <2>1, LineOfFits
<1>16. LineFits(m, u, a, st, p) /\ m \in Seq(Pic)
  <2>1. p \in Pic
    BY <1>3, <1>6
  <2> QED
    BY <1>8, <1>14, <2>1, LineOfFits
<1>17. Len(a) = 0
  <2>1. a = <<>>
    BY <1>2, <1>6, <1>14, AheadNone
  <2> QED
    BY <2>1, Len(<<>>) = 0
<1>18. Len(l) = n + 1 /\ Len(m) = n
  BY <1>6, <1>15, <1>16, <1>17 DEF LineFits
<1>19. \A i \in 1..n : m[i] = l[i]
  <2> TAKE i \in 1..n
  <2>1. l[i] = From(undo[i], st)
    BY <1>6, <1>15 DEF LineFits
  <2>2. CASE i = n
    <3>1. m[n] = p
      <4>1. (n - 1) + 1 = n
        BY <1>6
      <4> QED
        BY <1>6, <1>16, <4>1 DEF LineFits
    <3> QED
      BY <1>6, <2>1, <2>2, <3>1
  <2>3. CASE i # n
    <3>1. i \in 1..(n - 1)
      BY <1>6, <2>3
    <3> QED
      BY <1>6, <1>16, <2>1, <3>1 DEF LineFits
  <2> QED
    BY <2>2, <2>3
<1>20. m = SubSeq(l, 1, n)
  <2>1. n <= Len(l) /\ n \in Nat
    BY <1>6, <1>18
  <2> QED
    BY <1>15, <1>16, <1>18, <1>19, <2>1, LineCut
<1>21. Line' = m
  BY <1>6, <1>7, <1>12, <1>14 DEF Line
<1>22. Abstract!TakeBack(l, n + 1, m, (n - 1) + 1)
  <2>1. n + 1 > 1 /\ (n + 1) - 1 = n /\ (n - 1) + 1 = n
    BY <1>6
  <2> QED
    BY <1>18, <1>20, <2>1 DEF Abstract!TakeBack
<1>23. Len(undo) + 1 = n + 1 /\ Len(undo') + 1 = (n - 1) + 1
  BY <1>6, <1>7
<1> QED
  BY <1>13, <1>14, <1>21, <1>22, <1>23 DEF Shows, LineSteps, Abstract!Steps

\* An emptied history: the picture shown is all there is.
LEMMA EmptiedShows ==
    ASSUME IInv, PInv, Emptied, cel' = cel, spill' = spill, IInv'
    PROVE  Shows
<1>1. PICK none, st, ot, fs :
          /\ none = <<>> /\ st = steps /\ ot = steps' /\ Leave(none, none, st, fs)
  BY DEF Emptied
<1>2. undo' = none /\ redo' = none
  BY <1>1 DEF Leave
<1>3. StackedOver(undo, redo, st) /\ Chain(undo, redo, st, cel) /\ cel \in Pic /\ Sided(st)
  BY <1>1, InvStackedOver DEF PInv, Chain
<1>4. /\ none \in Seq(Seq(StepNo)) /\ Len(none) = 0 /\ DOMAIN none = {} /\ StepsIn(none) = {}
  <2>1. none \in Seq(Seq(StepNo)) /\ Len(none) = 0 /\ DOMAIN none = {}
    BY <1>1, EmptySeq
  <2> QED
    BY <2>1 DEF StepsIn
<1>5. SnapsFit(ot) /\ DOMAIN ot \subseteq DOMAIN st
  <2>1. DOMAIN ot = RestSteps(spill)
    BY <1>1, <1>4 DEF Leave, RestSteps
  <2>2. RestSteps(spill) \subseteq DOMAIN steps
    BY DEF IInv, PassFits
  <2> QED
    BY <1>1, <2>1, <2>2 DEF IInv, StepsHold
<1>6. StackedOver(none, none, ot)
  BY <1>4, <1>5 DEF StackedOver
<1>7. Chain(none, none, ot, cel)
  <2>1. Alike(st, ot)
    BY <1>1, LeaveAlike
  <2>2. Sided(ot)
    BY <1>3, <1>5, <2>1, AlikeSided
  <2>3. Future(none, ot, cel) /\ Past(none, ot, cel)
    BY <1>1, NoneAheadOf
  <2> QED
    BY <1>3, <2>2, <2>3 DEF Chain
<1>8. PInv'
  BY <1>1, <1>2, <1>7 DEF PInv
<1>9. PICK l, h, m, a : /\ l = Line /\ h = Len(undo) + 1
                        /\ m = LineOf(none, none, ot, cel) /\ a = Ahead(none, ot)
  OBVIOUS
<1>10. l[h] = cel
  BY <1>1, <1>3, <1>9, LineIsPics DEF Line
<1>11. LineFits(m, none, a, ot, cel) /\ m \in Seq(Pic)
  BY <1>3, <1>6, <1>9, LineOfFits
<1>12. Len(a) = 0
  <2>1. a = <<>>
    BY <1>1, <1>9, AheadNone
  <2> QED
    BY <2>1, Len(<<>>) = 0
<1>13. Len(m) = 1 /\ m[1] = cel
  BY <1>4, <1>11, <1>12 DEF LineFits
<1>14. m = <<cel>>
  <2>1. PICK one : one = <<cel>>
    OBVIOUS
  <2>2. one \in Seq(Pic) /\ Len(one) = 1 /\ one[1] = cel
    BY <1>3, <2>1
  <2>3. \A i \in 1..1 : m[i] = one[i]
    BY <1>13, <2>2
  <2> QED
    BY <1>11, <1>13, <2>1, <2>2, <2>3, SeqEqual
<1>15. Line' = m
  BY <1>1, <1>2, <1>9 DEF Line
<1>16. Abstract!Clear(l, h, m, 1)
  BY <1>10, <1>14 DEF Abstract!Clear
<1>17. Len(undo') + 1 = 1
  BY <1>2, <1>4
<1> QED
  BY <1>8, <1>9, <1>15, <1>16, <1>17 DEF Shows, LineSteps, Abstract!Steps

-----------------------------------------------------------------------------
(* Entries made one.                                                        *)

\* Two sequences of steps joined.
LEMMA StepsConcat ==
    ASSUME NEW a \in Seq(StepNo), NEW b \in Seq(StepNo)
    PROVE  /\ a \o b \in Seq(StepNo) /\ Len(a \o b) = Len(a) + Len(b)
           /\ Len(a) \in Nat /\ Len(b) \in Nat
           /\ \A i \in 1..(Len(a) + Len(b)) :
                (a \o b)[i] = IF i <= Len(a) THEN a[i] ELSE b[i - Len(a)]
  BY ConcatProperties, LenProperties

\* The entry c follows on from the picture p and leads to q.
JoinsUp(c, p, q, st) ==
    c \in Seq(StepNo) /\ c # <<>> /\ Joined(c, st) /\ From(c, st) = p /\ To(c, st) = q

\* One entry of two that follow one another.
LEMMA JoinTwo ==
    ASSUME NEW st, NEW a \in Seq(StepNo), NEW b \in Seq(StepNo), a # <<>>, b # <<>>,
           Joined(a, st), Joined(b, st), NEW p, p = To(a, st), p = From(b, st), NEW c, c = a \o b
    PROVE  JoinsUp(c, From(a, st), To(b, st), st)
<1> USE DEF JoinsUp
<1>1. PICK m \in Nat \ {0}, n \in Nat \ {0} : m = Len(a) /\ n = Len(b)
  <2>1. Len(a) \in Nat /\ Len(b) \in Nat
    BY LenProperties
  <2>2. Len(a) # 0 /\ Len(b) # 0
    BY EmptySeq
  <2> QED
    BY <2>1, <2>2
<1>2. /\ c \in Seq(StepNo) /\ Len(c) = m + n
      /\ \A i \in 1..(m + n) : c[i] = IF i <= m THEN a[i] ELSE b[i - m]
  BY <1>1, StepsConcat
<1>3. /\ \A i \in 1..m : c[i] = a[i]
      /\ \A j \in 1..n : c[m + j] = b[j]
  <2>1. \A i \in 1..m : i \in 1..(m + n) /\ i <= m
    BY <1>1
  <2>2. \A j \in 1..n : m + j \in 1..(m + n) /\ ~(m + j <= m) /\ (m + j) - m = j
    BY <1>1
  <2> QED
    BY <1>2, <2>1, <2>2
<1>4. /\ From(a, st) = st[a[1]].before.pic /\ To(a, st) = st[a[m]].after.pic
      /\ From(b, st) = st[b[1]].before.pic /\ To(b, st) = st[b[n]].after.pic
  BY <1>1 DEF From, To, Last
<1>5. c[1] = a[1] /\ c[m] = a[m] /\ c[m + 1] = b[1] /\ c[m + n] = b[n]
  <2>1. 1 \in 1..m /\ m \in 1..m /\ 1 \in 1..n /\ n \in 1..n
    BY <1>1
  <2> QED
    BY <1>3, <2>1
<1>6. ASSUME NEW i \in 1..(m + n - 1)
      PROVE  st[c[i]].after.pic = st[c[i + 1]].before.pic
  <2>1. CASE i < m
    <3>1. i \in 1..(m - 1) /\ i \in 1..m /\ i + 1 \in 1..m
      BY <1>1, <2>1
    <3> QED
      BY <1>1, <1>3, <3>1 DEF Joined
  <2>2. CASE i = m
    BY <1>4, <1>5, <2>2
  <2>3. CASE i > m
    <3>4. PICK j : j = i - m
      OBVIOUS
    <3>5. i \in Int /\ i <= m + n - 1
      BY <1>1
    <3>1. /\ j \in 1..(n - 1) /\ j \in 1..n /\ j + 1 \in 1..n
          /\ i = m + j /\ i + 1 = m + (j + 1)
      BY <1>1, <2>3, <3>4, <3>5
    <3>2. c[i] = b[j] /\ c[i + 1] = b[j + 1]
      BY <1>3, <3>1
    <3> QED
      BY <1>1, <3>1, <3>2 DEF Joined
  <2>4. i \in Nat /\ m \in Nat
    BY <1>1
  <2>5. i < m \/ i = m \/ i > m
    BY <2>4
  <2> QED
    BY <2>1, <2>2, <2>3, <2>5
<1>7. Joined(c, st)
  BY <1>2, <1>6 DEF Joined
<1>8. From(c, st) = From(a, st) /\ To(c, st) = To(b, st)
  <2>1. To(c, st) = st[c[m + n]].after.pic /\ From(c, st) = st[c[1]].before.pic
    BY <1>2 DEF From, To, Last
  <2> QED
    BY <1>4, <1>5, <2>1
<1>9. c # <<>>
  <2>1. Len(c) # 0
    BY <1>1, <1>2
  <2> QED
    BY <2>1, Len(<<>>) = 0
<1> QED
  BY <1>2, <1>7, <1>8, <1>9

\* Entries that follow one another, made one.
LEMMA FlattenJoins ==
    ASSUME NEW st, NEW s \in Seq(Seq(StepNo)), s # <<>>, \A i \in 1..Len(s) : s[i] # <<>>,
           NEW p, Past(s, st, p), NEW e, e = FlattenSeq(s)
    PROVE  /\ e \in Seq(StepNo) /\ e # <<>> /\ Joined(e, st)
           /\ From(e, st) = From(s[1], st) /\ To(e, st) = p
<1>1. PICK n \in Nat \ {0} : n = Len(s)
  BY EmptySeq, LenProperties
<1> DEFINE R == Seq(StepNo)
           Good(q, i) == q # <<>> /\ Joined(q, st) /\ From(q, st) = From(s[1], st) /\ To(q, st) = To(s[i], st)
           Q == [i \in 1..n |-> {q \in R : Good(q, i)}]
<1>2. \A i \in 1..n : \A q : q \in Q[i] <=> q \in R /\ Good(q, i)
  OBVIOUS
<1>3. \A i \in 1..n : /\ s[i] \in R /\ s[i] # <<>> /\ Joined(s[i], st)
                      /\ To(s[i], st) = IF i = n THEN p ELSE From(s[i + 1], st)
  BY <1>1 DEF Past
<1> HIDE DEF Q
<1>4. s[1] \in Q[1] /\ \A i \in 1..n : Q[i] \subseteq R
  <2>1. 1 \in 1..n
    BY <1>1
  <2> QED
    BY <1>2, <1>3, <2>1
<1>5. ASSUME NEW i \in 2..n, NEW q \in Q[i - 1] PROVE q \o s[i] \in Q[i]
  <2>1. PICK j : j = i - 1 /\ j \in 1..n /\ i \in 1..n /\ j # n /\ j + 1 = i
    BY <1>1
  <2>2. q \in R /\ Good(q, j)
    BY <1>2, <1>5, <2>1
  <2>3. /\ s[i] \in R /\ s[i] # <<>> /\ Joined(s[i], st) /\ To(s[j], st) = From(s[i], st)
    BY <1>3, <2>1
  <2>4. PICK c, t : c = q \o t /\ t = s[i]
    OBVIOUS
  <2>5. PICK m : m = To(q, st)
    OBVIOUS
  <2>6. /\ t \in Seq(StepNo) /\ t # <<>> /\ Joined(t, st) /\ m = From(t, st)
        /\ q \in Seq(StepNo) /\ q # <<>> /\ Joined(q, st) /\ m = To(q, st)
    BY <2>2, <2>3, <2>4, <2>5
  <2>7. JoinsUp(c, From(q, st), To(t, st), st)
    BY <2>4, <2>6, JoinTwo
  <2> QED
    BY <1>2, <2>1, <2>2, <2>4, <2>7 DEF JoinsUp
<1>6. FlattenSeq(s) \in Q[n]
  <2> HIDE DEF R
  <2> QED
    BY <1>1, <1>4, <1>5, FlattenLeads
<1>7. n \in 1..n
  BY <1>1
<1> QED
  BY <1>2, <1>3, <1>6, <1>7

\* The pictures between two places of a line.
LEMMA PicsBetween ==
    ASSUME NEW l \in Seq(Pic), NEW a \in Nat \ {0}, NEW b \in Nat, a <= b + 1, b <= Len(l)
    PROVE  /\ SubSeq(l, a, b) \in Seq(Pic) /\ Len(SubSeq(l, a, b)) = b + 1 - a
           /\ \A i \in 1..(b + 1 - a) : SubSeq(l, a, b)[i] = l[a - 1 + i]
<1>1. PICK k \in Nat : k = Len(l) /\ b <= k
  BY LenProperties
<1>2. \A i \in a..b : l[i] \in Pic
  <2>1. \A i \in a..b : i \in 1..k
    BY <1>1
  <2> QED
    BY <1>1, <2>1
<1>3. PICK c : c = SubSeq(l, a, b)
  OBVIOUS
<1>4. /\ c \in Seq(Pic) /\ Len(c) = IF a <= b THEN b - a + 1 ELSE 0
      /\ \A i \in 1..(b - a + 1) : c[i] = l[a + i - 1]
  BY <1>2, <1>3, SubSeqProperties
<1>5. Len(c) = b + 1 - a /\ b - a + 1 = b + 1 - a
  BY <1>4
<1>6. \A i \in 1..(b + 1 - a) : a + i - 1 = a - 1 + i
  OBVIOUS
<1>7. \A i \in 1..(b + 1 - a) : c[i] = l[a - 1 + i]
  BY <1>4, <1>5, <1>6
<1> QED
  BY <1>3, <1>4, <1>5, <1>7

\* Two lines of the same first c pictures and of the same last k.
SameEnds(m, l, c, h, k) ==
    /\ Len(l) = h + k /\ Len(m) = c + k
    /\ \A i \in 1..c : m[i] = l[i]
    /\ \A j \in 1..k : m[c + j] = l[h + j]

\* Line l with the pictures between its place c and the one after h left out.
CutBetween(m, l, c, h) == m = SubSeq(l, 1, c) \o SubSeq(l, h + 1, Len(l))

\* A line that shares only both its ends with another is the other, cut between.
LEMMA LineFolds ==
    ASSUME NEW l \in Seq(Pic), NEW m \in Seq(Pic), NEW c \in Nat, NEW h \in Nat,
           c <= h, NEW k \in Nat, SameEnds(m, l, c, h, k)
    PROVE  CutBetween(m, l, c, h)
<1> USE DEF SameEnds
<1>1. PICK a, b, one, z, t : /\ one = 1 /\ z = h + k /\ t = h + 1
                             /\ a = SubSeq(l, one, c) /\ b = SubSeq(l, t, z)
  OBVIOUS
<1>2. /\ one \in Nat \ {0} /\ z \in Nat /\ t \in Nat \ {0} /\ one <= c + 1 /\ c <= Len(l)
      /\ t <= z + 1 /\ z <= Len(l)
  BY <1>1
<1>3. /\ a \in Seq(Pic) /\ Len(a) = c + 1 - one
      /\ \A i \in 1..(c + 1 - one) : a[i] = l[one - 1 + i]
  BY <1>1, <1>2, PicsBetween
<1>4. /\ b \in Seq(Pic) /\ Len(b) = z + 1 - t
      /\ \A i \in 1..(z + 1 - t) : b[i] = l[t - 1 + i]
  BY <1>1, <1>2, PicsBetween
<1>5. Len(a) = c /\ c + 1 - one = c /\ Len(b) = k /\ z + 1 - t = k /\ t - 1 = h
  BY <1>1, <1>3, <1>4
<1>6. \A i \in 1..c : one - 1 + i = i
  BY <1>1
<1>7. PICK w : w = a \o b
  OBVIOUS
<1>8. /\ w \in Seq(Pic) /\ Len(w) = c + k
      /\ \A i \in 1..(c + k) : w[i] = IF i <= c THEN a[i] ELSE b[i - c]
  <2>1. /\ a \o b \in Seq(Pic) /\ Len(a \o b) = Len(a) + Len(b)
        /\ \A i \in 1..(Len(a) + Len(b)) :
             (a \o b)[i] = IF i <= Len(a) THEN a[i] ELSE b[i - Len(a)]
    BY <1>3, <1>4, PicsConcat
  <2> QED
    BY <1>5, <1>7, <2>1
<1>9. \A i \in 1..(c + k) : w[i] = m[i]
  <2> TAKE i \in 1..(c + k)
  <2>1. CASE i <= c
    <3>1. i \in 1..c
      BY <2>1
    <3> QED
      BY <1>3, <1>5, <1>6, <1>8, <2>1, <3>1
  <2>2. CASE ~(i <= c)
    <3>1. PICK j : j = i - c
      OBVIOUS
    <3>2. j \in 1..k /\ i = c + j
      BY <2>2, <3>1
    <3>3. w[i] = b[j] /\ b[j] = l[h + j]
      BY <1>4, <1>5, <1>8, <2>2, <3>1, <3>2
    <3>4. m[c + j] = l[h + j]
      BY <3>2
    <3> QED
      BY <3>2, <3>3, <3>4
  <2> QED
    BY <2>1, <2>2
<1>10. w = m
  BY <1>8, <1>9, SeqEqual
<1>11. m = SubSeq(l, 1, c) \o SubSeq(l, h + 1, h + k)
  BY <1>1, <1>7, <1>10
<1>12. Len(l) = h + k
  OBVIOUS
<1> QED
  BY <1>11, <1>12 DEF CutBetween

\* Stack u with all its entries above d made one.
FoldsTo(v, u, d) ==
    v = Append(SubSeq(u, 1, d), FlattenSeq(SubSeq(u, d + 1, Len(u))))

\* The undo stack below its entry d, and those above it made one.
LEMMA PastFolds ==
    ASSUME NEW st, NEW u \in Seq(Seq(StepNo)), \A i \in DOMAIN u : u[i] # <<>>,
           NEW p, Past(u, st, p), NEW d \in Nat, d < Len(u),
           NEW v, FoldsTo(v, u, d)
    PROVE  /\ v \in Seq(Seq(StepNo)) /\ (\A i \in DOMAIN v : v[i] # <<>>)
           /\ Len(v) = d + 1 /\ Past(v, st, p)
           /\ \A i \in 1..(d + 1) : From(v[i], st) = From(u[i], st)
<1>1. PICK n \in Nat \ {0} : n = Len(u) /\ d < n /\ d \in 0..n /\ DOMAIN u = 1..n
  BY LenProperties
<1>2. PICK s, b, one, e : /\ s = SubSeq(u, d + 1, Len(u)) /\ b = SubSeq(u, one, d) /\ one = 1
                          /\ e = FlattenSeq(s)
  OBVIOUS
<1>3. s \in Seq(Seq(StepNo)) /\ Later(s, u, d)
  BY <1>1, <1>2, DropDeep
<1>4. Len(s) = n - d /\ \A i \in 1..(n - d) : s[i] = u[i + d]
  BY <1>1, <1>3 DEF Later
<1>5. /\ b \in Seq(Seq(StepNo)) /\ Len(b) = d /\ \A i \in 1..d : b[i] = u[i]
  <2>1. \A i \in 1..d : i \in 1..n /\ u[i] \in Seq(StepNo)
    BY <1>1
  <2>2. PICK T : T = Seq(StepNo)
    OBVIOUS
  <2>3. /\ b \in Seq(T) /\ Len(b) = IF 1 <= d THEN d - 1 + 1 ELSE 0
        /\ \A i \in 1..(d - 1 + 1) : b[i] = u[1 + i - 1]
    BY <1>1, <1>2, <2>1, <2>2, SubSeqProperties
  <2>4. Len(b) = d /\ d - 1 + 1 = d /\ \A i \in 1..d : 1 + i - 1 = i
    BY <2>3
  <2> QED
    BY <2>2, <2>3, <2>4
<1>6. s # <<>> /\ \A i \in 1..Len(s) : s[i] # <<>>
  <2>1. Len(s) # 0
    BY <1>1, <1>4
  <2>2. \A i \in 1..(n - d) : i + d \in 1..n
    BY <1>1
  <2> QED
    BY <1>1, <1>4, <2>1, <2>2, Len(<<>>) = 0
<1>7. Past(s, st, p)
  BY <1>3, PastLater
<1>8. /\ e \in Seq(StepNo) /\ e # <<>> /\ Joined(e, st)
      /\ From(e, st) = From(s[1], st) /\ To(e, st) = p
  BY <1>2, <1>3, <1>6, <1>7, FlattenJoins
<1>9. From(e, st) = From(u[d + 1], st)
  <2>1. 1 \in 1..(n - d) /\ 1 + d = d + 1
    BY <1>1
  <2> QED
    BY <1>4, <1>8, <2>1
<1>10. Past(b, st, From(e, st))
  <2>1. ASSUME NEW i \in 1..d
        PROVE  Joined(b[i], st) /\ To(b[i], st) = IF i = d THEN From(e, st) ELSE From(b[i + 1], st)
    <3>1. i \in 1..n /\ i # n /\ (i # d => i + 1 \in 1..d)
      BY <1>1
    <3>2. Joined(u[i], st) /\ To(u[i], st) = From(u[i + 1], st)
      BY <1>1, <3>1 DEF Past
    <3> QED
      BY <1>5, <1>9, <3>1, <3>2
  <2> QED
    BY <1>5, <2>1 DEF Past
<1>11. v = Append(b, e)
  BY <1>2 DEF FoldsTo
<1>12. /\ v \in Seq(Seq(StepNo)) /\ Len(v) = d + 1 /\ v[d + 1] = e
       /\ \A i \in 1..d : v[i] = b[i]
  BY <1>5, <1>8, <1>11, AppendProperties
<1>13. \A i \in 1..(d + 1) : (i \in 1..d /\ i \in 1..n) \/ i = d + 1
  BY <1>1
<1>14. Past(v, st, p)
  <2>1. Past(v, st, To(e, st))
    BY <1>5, <1>8, <1>10, <1>11, PastAppend
  <2> QED
    BY <1>8, <2>1
<1>15. \A i \in 1..(d + 1) : From(v[i], st) = From(u[i], st)
  BY <1>5, <1>9, <1>12, <1>13
<1>16. \A i \in DOMAIN v : v[i] # <<>>
  <2>1. DOMAIN v = 1..(d + 1)
    BY <1>12, LenProperties
  <2> QED
    BY <1>1, <1>5, <1>8, <1>12, <1>13, <2>1
<1> QED
  BY <1>12, <1>14, <1>15, <1>16

\* A hold let go shows what it showed: the pictures within it are forgotten.
LEMMA EndRunShows ==
    ASSUME IInv, PInv, EndRun, IInv'
    PROVE  Shows
<1>1. /\ run' = NoRun /\ undo' = LetGo /\ UNCHANGED <<cel, redo, steps>>
      /\ run.pushed \in Nat /\ run.retracted \in Nat
  BY InvTyped DEF EndRun
<1>2. ~(run'.pushed > 0)
  BY <1>1 DEF NoRun
<1>3. CASE ~Folds
  <2>1. undo' = undo
    BY <1>1, <1>3 DEF LetGo
  <2> QED
    BY <1>1, <1>2, <2>1, StillShows
<1>4. CASE Folds
  <2>1. PICK n \in Nat, d \in Nat : n = Len(undo) /\ d = run.depth /\ n >= d + 2
    <3>1. Kept >= 2 /\ Len(undo) = run.depth + Kept /\ Kept = run.pushed - run.retracted
      BY <1>4 DEF Folds, Kept
    <3>2. run.depth \in Nat
      <4>1. run \in RunsOf(made) /\ made \in Nat
        BY InvTyped DEF IInv, RunFits
      <4> QED
        BY <4>1, RunTyped
    <3> QED
      BY <1>1, <3>1, <3>2
  <2>2. PICK u, r, st, p, v :
          /\ u = undo /\ r = redo /\ st = steps /\ p = cel /\ v = undo'
    OBVIOUS
  <2>3. undo' = v /\ redo' = r /\ steps' = st /\ cel' = p /\ FoldsTo(v, u, d)
    BY <1>1, <1>4, <2>1, <2>2 DEF LetGo, FoldsTo
  <2>4. /\ StackedOver(u, r, st) /\ Chain(u, r, st, p) /\ u \in Seq(Seq(StepNo)) /\ p \in Pic
        /\ Past(u, st, p) /\ Future(r, st, p) /\ Sided(st) /\ \A i \in DOMAIN u : u[i] # <<>>
    BY <2>2, InvStackedOver DEF PInv, Chain, StackedOver
  <2>5. /\ v \in Seq(Seq(StepNo)) /\ (\A i \in DOMAIN v : v[i] # <<>>)
        /\ Len(v) = d + 1 /\ Past(v, st, p)
        /\ \A i \in 1..(d + 1) : From(v[i], st) = From(u[i], st)
    <3>1. d < Len(u)
      BY <2>1, <2>2
    <3> QED
      BY <2>1, <2>3, <2>4, <3>1, PastFolds
  <2>6. Chain(v, r, st, p)
    BY <2>4, <2>5 DEF Chain
  <2>7. PInv'
    BY <1>2, <2>3, <2>6 DEF PInv
  <2>8. StackedOver(v, r, st)
    <3>1. StepsIn(v) \subseteq DOMAIN st
      BY <2>3 DEF IInv, StepsHold
    <3> QED
      BY <2>4, <2>5, <3>1 DEF StackedOver
  <2>9. PICK l, m, a : l = LineOf(u, r, st, p) /\ m = LineOf(v, r, st, p) /\ a = Ahead(r, st)
    OBVIOUS
  <2>10. LineFits(l, u, a, st, p) /\ l \in Seq(Pic) /\ a \in Seq(Pic)
    BY <2>4, <2>9, LineOfFits
  <2>11. LineFits(m, v, a, st, p) /\ m \in Seq(Pic)
    BY <2>4, <2>8, <2>9, LineOfFits
  <2>12. PICK k \in Nat : k = Len(a)
    BY <2>10, LenProperties
  <2>13. /\ Len(l) = n + 1 + k /\ l[n + 1] = p /\ \A j \in 1..k : l[n + 1 + j] = a[j]
         /\ \A i \in 1..n : l[i] = From(u[i], st)
    BY <2>1, <2>2, <2>10, <2>12 DEF LineFits
  <2>14. /\ Len(m) = d + 1 + 1 + k /\ m[d + 1 + 1] = p /\ \A j \in 1..k : m[d + 1 + 1 + j] = a[j]
         /\ \A i \in 1..(d + 1) : m[i] = From(v[i], st)
    BY <2>5, <2>11, <2>12 DEF LineFits
  <2>15. PICK c, x : c = d + 1 /\ x = k + 1
    OBVIOUS
  <2>16. /\ c \in Nat /\ x \in Nat /\ c <= n /\ Len(l) = n + x /\ Len(m) = c + x
    <3>1. c \in Nat /\ x \in Nat /\ c <= n
      BY <2>1, <2>12, <2>15
    <3>2. Len(l) = n + 1 + k /\ Len(m) = d + 1 + 1 + k
      BY <2>13, <2>14
    <3>3. n + 1 + k = n + x /\ d + 1 + 1 + k = c + x
      BY <2>1, <2>12, <2>15
    <3> QED
      BY <3>1, <3>2, <3>3
  <2>17. \A i \in 1..c : m[i] = l[i]
    <3>1. \A i \in 1..c : i \in 1..n
      BY <2>1, <2>15
    <3> QED
      BY <2>5, <2>13, <2>14, <2>15, <3>1
  <2>18. \A j \in 1..x : m[c + j] = l[n + j]
    <3> TAKE j \in 1..x
    <3>1. CASE j = 1
      BY <2>13, <2>14, <2>15, <3>1
    <3>2. CASE j # 1
      <4>1. PICK i : i = j - 1
        OBVIOUS
      <4>2. i \in 1..k /\ c + j = d + 1 + 1 + i /\ n + j = n + 1 + i
        BY <2>1, <2>12, <2>15, <3>2, <4>1
      <4> QED
        BY <2>13, <2>14, <4>2
    <3> QED
      BY <3>1, <3>2
  <2>19. m = SubSeq(l, 1, c) \o SubSeq(l, n + 1, Len(l))
    <3>1. SameEnds(m, l, c, n, x)
      BY <2>16, <2>17, <2>18 DEF SameEnds
    <3>2. CutBetween(m, l, c, n)
      BY <2>1, <2>10, <2>11, <2>16, <3>1, LineFolds
    <3> QED
      BY <3>2 DEF CutBetween
  <2>20. Abstract!Fold(l, n + 1, m, c + 1)
    <3>1. 1 < c + 1 /\ c + 1 < n + 1 /\ (c + 1) - 1 = c
      BY <2>1, <2>15
    <3> QED
      BY <2>19, <3>1 DEF Abstract!Fold
  <2>21. Line = l /\ Line' = m
    BY <2>2, <2>3, <2>9 DEF Line
  <2>22. Len(undo) + 1 = n + 1 /\ Len(undo') + 1 = c + 1
    BY <2>1, <2>3, <2>5, <2>15
  <2> QED
    BY <2>7, <2>20, <2>21, <2>22 DEF Shows, LineSteps, Abstract!Steps
<1> QED
  BY <1>3, <1>4

-----------------------------------------------------------------------------
(* Edits, and the whole of the line.                                        *)

\* A line cut after its first k pictures, with one more.
CutAndGrown(m, l, k, q) == m = Append(SubSeq(l, 1, k), q)

\* Where all but its last picture are the first k of another.
LEMMA LineGrows ==
    ASSUME NEW l \in Seq(Pic), NEW k \in Nat, k <= Len(l), NEW q \in Pic,
           NEW m \in Seq(Pic), Len(m) = k + 1, m[k + 1] = q, \A i \in 1..k : m[i] = l[i]
    PROVE  CutAndGrown(m, l, k, q)
<1>1. PICK one, c, b : one = 1 /\ c = SubSeq(l, one, k) /\ b = Append(c, q)
  OBVIOUS
<1>2. one \in Nat \ {0} /\ one <= k + 1
  BY <1>1
<1>3. /\ c \in Seq(Pic) /\ Len(c) = k + 1 - one
      /\ \A i \in 1..(k + 1 - one) : c[i] = l[one - 1 + i]
  BY <1>1, <1>2, PicsBetween
<1>4. Len(c) = k /\ k + 1 - one = k /\ \A i \in 1..k : one - 1 + i = i
  BY <1>1, <1>3
<1>5. \A i \in 1..k : c[i] = l[i]
  BY <1>3, <1>4
<1>6. b \in Seq(Pic) /\ Len(b) = k + 1 /\ b[k + 1] = q /\ \A i \in 1..k : b[i] = c[i]
  BY <1>1, <1>3, <1>4, AppendProperties
<1>7. \A i \in 1..(k + 1) : i \in 1..k \/ i = k + 1
  OBVIOUS
<1>8. \A i \in 1..(k + 1) : m[i] = b[i]
  BY <1>5, <1>6, <1>7
<1>9. m = b
  BY <1>6, <1>8, SeqEqual
<1> QED
  BY <1>1, <1>9 DEF CutAndGrown

\* The stacks as a draw hands them to the trim: g and nothing ahead, over st.
GrownOver(g, e, st) ==
    /\ Pushes(g, undo, e) /\ g \in Seq(Seq(StepNo)) /\ Len(g) = Len(undo) + 1
    /\ g[Len(undo) + 1] = e /\ \A i \in 1..Len(undo) : g[i] = undo[i]
    /\ StackedOver(g, <<>>, st) /\ Left(g, <<>>, DOMAIN st) /\ Alike(st, steps')

\* What a draw gives to the trim.
LEMMA DrawGrows ==
    ASSUME IInv, NEW strokes, NEW e, NEW st, Drawn(strokes, e, st)
    PROVE  \E g : GrownOver(g, e, st)
<1>1. PICK m : /\ m = made' /\ m \in Nat /\ made \in Nat /\ made <= m /\ m <= MaxEdits
               /\ e \in Seq(1..m) /\ e # <<>> /\ Range(e) \cap (1..made) = {}
               /\ SnapsFit(st) /\ DOMAIN st = DOMAIN steps \cup Range(e)
               /\ \A n \in DOMAIN steps : st[n] = steps[n]
               /\ \A n \in Range(e), h \in Half : st[n][h].at = "held"
               /\ Push(e, st)
  BY DEF Drawn
<1>2. /\ StacksFit(undo, redo, made) /\ Given(undo, redo, steps, files) /\ PassFits(spill, steps)
      /\ StackedOver(undo, redo, steps)
  BY InvStackedOver DEF IInv
<1>3. PICK v : Pushed(v, e) /\ v # <<>> /\ Left(v, <<>>, DOMAIN st)
  BY <1>1, <1>2, PushHolds
<1>4. e \in Seq(StepNo)
  <2>1. 1..m \subseteq StepNo
    BY <1>1, BudgetAssumption DEF StepNo
  <2> QED
    BY <1>1, <2>1, SeqMonotonic
<1>5. PICK n, g : n = Len(undo) /\ n \in Nat /\ g = Append(undo, e) /\ DOMAIN undo = 1..n
  BY <1>2, LenProperties DEF StackedOver
<1>6. /\ g \in Seq(Seq(StepNo)) /\ Len(g) = n + 1 /\ g[n + 1] = e /\ DOMAIN g = 1..(n + 1)
      /\ \A i \in 1..n : g[i] = undo[i]
  BY <1>2, <1>4, <1>5, AppendProperties, LenProperties DEF StackedOver
<1>7. StepsIn(g) = StepsIn(undo) \cup Range(e)
  BY <1>2, <1>4, <1>5, StepsOfAppend DEF StackedOver
<1>8. PICK none : none = <<>> /\ none \in Seq(Seq(StepNo)) /\ Len(none) = 0 /\ StepsIn(none) = {}
  <2>1. <<>> \in Seq(Seq(StepNo)) /\ Len(<<>>) = 0 /\ DOMAIN <<>> = {}
    BY EmptySeq
  <2>2. StepsIn(<<>>) = {}
    BY <2>1 DEF StepsIn
  <2> QED
    BY <2>1, <2>2
<1>9. StackedOver(g, none, st)
  <2>1. \A i \in DOMAIN g : g[i] # <<>>
    <3>1. \A i \in 1..(n + 1) : i \in 1..n \/ i = n + 1
      BY <1>5
    <3> QED
      BY <1>1, <1>2, <1>5, <1>6, <3>1 DEF StackedOver
  <2>2. StepsIn(g) \cup StepsIn(none) \subseteq DOMAIN st
    BY <1>1, <1>2, <1>7, <1>8 DEF StackedOver
  <2> QED
    BY <1>1, <1>6, <1>8, <2>1, <2>2 DEF StackedOver
<1>10. Left(g, none, DOMAIN st)
  <2>1. PICK d \in 0..n : Later(v, g, d)
    BY <1>3, <1>5 DEF Pushed
  <2>2. d \in 0..Len(g) /\ d < Len(g)
    BY <1>5, <1>6, <2>1
  <2>3. Later(none, none, 0) /\ 0 \in 0..Len(none)
    BY <1>8 DEF Later
  <2>4. PICK D, z : D = DOMAIN st /\ z = 0 /\ Left(v, none, D) /\ Later(none, none, z) /\ z \in 0..Len(none)
    BY <1>3, <1>8, <2>3
  <2>5. Left(g, none, D)
    BY <1>6, <1>8, <2>1, <2>2, <2>4, LeftLater
  <2> QED
    BY <2>4, <2>5
<1>11. Alike(st, steps')
  <2>1. \E u, r, fs, stand : Trim(u, r, st, fs, stand)
    BY <1>1 DEF Push
  <2> QED
    BY <1>1, <2>1, TrimAlike
<1> QED
  BY <1>5, <1>6, <1>8, <1>9, <1>10, <1>11 DEF GrownOver, Pushes

\* A draw is an edit: what lies ahead is cut, and its picture added.
LEMMA DrawShows ==
    ASSUME IInv, PInv, NEW strokes, NEW e, NEW st, Drawn(strokes, e, st), IInv'
    PROVE  Shows
<1>1. PICK g : GrownOver(g, e, st)
  BY DrawGrows
<1>2. PICK u, p, q, n, none, r :
        /\ u = undo /\ p = cel /\ q = cel' /\ n = Len(u) /\ none = <<>> /\ r = redo
  OBVIOUS
<1>3. /\ StackedOver(u, r, steps) /\ u \in Seq(Seq(StepNo)) /\ n \in Nat /\ DOMAIN u = 1..n
      /\ StepsIn(u) \subseteq DOMAIN steps /\ \A i \in DOMAIN u : u[i] # <<>>
  BY <1>2, InvStackedOver, LenProperties DEF StackedOver
<1>4. Past(u, steps, p) /\ Sided(steps) /\ p \in Pic
  BY <1>2 DEF PInv, Chain
<1>5. /\ e \in Seq(StepNo) /\ From(e, st) = p /\ To(e, st) = q /\ Joined(e, st) /\ q \in Pic
      /\ Sided(st) /\ Alike(steps, st) /\ DOMAIN steps \subseteq DOMAIN st
  <2>1. e \in Seq(StepNo)
    <3>1. g \in Seq(Seq(StepNo)) /\ Len(g) = n + 1 /\ g[n + 1] = e
      BY <1>1, <1>2 DEF GrownOver
    <3>2. n + 1 \in 1..(n + 1)
      BY <1>3
    <3>3. DOMAIN g = 1..(n + 1)
      BY <3>1, LenProperties
    <3> QED
      BY <3>1, <3>2, <3>3
  <2> QED
    BY <1>2, <1>4, <2>1 DEF Drawn, Alike
<1>6. /\ Pushes(g, u, e) /\ g \in Seq(Seq(StepNo)) /\ Len(g) = n + 1
      /\ g[n + 1] = e /\ \A i \in 1..n : g[i] = u[i]
      /\ StackedOver(g, none, st) /\ Left(g, none, DOMAIN st) /\ Alike(st, steps')
  BY <1>1, <1>2 DEF GrownOver
<1>7. Past(u, st, p) /\ \A i \in 1..n : From(u[i], st) = From(u[i], steps)
  <2>1. PICK ot : ot = steps
    OBVIOUS
  <2>2. /\ Alike(ot, st) /\ StepsIn(u) \subseteq DOMAIN ot /\ StepsIn(u) \subseteq DOMAIN st
        /\ Past(u, ot, p)
    BY <1>3, <1>4, <1>5, <2>1
  <2>3. Past(u, st, p) /\ \A i \in 1..Len(u) : From(u[i], st) = From(u[i], ot)
    BY <1>3, <2>2, PastAlike
  <2> QED
    BY <1>2, <2>1, <2>3
<1>8. Past(g, st, q)
  <2>1. Past(u, st, From(e, st)) /\ g = Append(u, e)
    BY <1>5, <1>6, <1>7 DEF Pushes
  <2>2. PICK X : X = Seq(StepNo)
    OBVIOUS
  <2>3. Past(g, st, To(e, st))
    BY <1>3, <1>5, <2>1, <2>2, PastAppend
  <2> QED
    BY <1>5, <2>3
<1>9. Chain(g, none, st, q)
  BY <1>2, <1>5, <1>8, NoneAheadOf DEF Chain
<1>10. PICK m : m = LineOf(g, none, st, q)
  OBVIOUS
<1>11. /\ Chain(undo', redo', steps', cel')
       /\ Abstract!Settles(m, Len(g) + 1, Line', Len(undo') + 1)
  BY <1>2, <1>6, <1>9, <1>10, LeftShows
<1>12. redo' = <<>>
  <2>1. PICK D : D = DOMAIN st /\ Left(g, none, D)
    BY <1>6
  <2> QED
    BY <1>2, <2>1, LeftOfNone
<1>13. PInv'
  BY <1>11, <1>12 DEF PInv
<1>14. PICK l, a, k : l = LineOf(u, r, steps, p) /\ a = Ahead(r, steps) /\ k = n + 1
  OBVIOUS
<1>15. LineFits(l, u, a, steps, p) /\ l \in Seq(Pic) /\ a \in Seq(Pic)
  BY <1>3, <1>4, <1>14, LineOfFits
<1>16. LineFits(m, g, <<>>, st, q) /\ m \in Seq(Pic)
  <2>1. Ahead(none, st) = <<>>
    BY <1>2, AheadNone
  <2> QED
    BY <1>5, <1>6, <1>10, <2>1, LineOfFits
<1>17. /\ k \in Nat /\ k <= Len(l) /\ l[k] = p /\ \A i \in 1..n : l[i] = From(u[i], steps)
  <2>1. PICK x \in Nat : x = Len(a)
    BY <1>15, LenProperties
  <2>2. Len(l) = n + 1 + x /\ l[n + 1] = p /\ \A i \in 1..n : l[i] = From(u[i], steps)
    BY <1>2, <1>15, <2>1 DEF LineFits
  <2>3. k \in Nat /\ k <= n + 1 + x
    BY <1>3, <1>14, <2>1
  <2> QED
    BY <1>14, <2>2, <2>3
<1>18. Len(m) = k + 1 /\ m[k + 1] = q /\ \A i \in 1..k : m[i] = From(g[i], st)
  <2>1. Len(g) = k /\ Len(<<>>) = 0 /\ k + 1 + 0 = k + 1
    BY <1>6, <1>14, <1>17
  <2>2. Len(m) = k + 1 + 0 /\ m[k + 1] = q /\ \A i \in 1..k : m[i] = From(g[i], st)
    BY <1>16, <2>1 DEF LineFits
  <2> QED
    BY <2>1, <2>2
<1>19. \A i \in 1..k : m[i] = l[i]
  <2>1. \A i \in 1..k : i \in 1..n \/ i = k
    BY <1>3, <1>14
  <2>2. m[k] = l[k]
    <3>1. k \in 1..k /\ g[k] = e
      BY <1>3, <1>6, <1>14
    <3> QED
      BY <1>5, <1>17, <1>18, <3>1
  <2> QED
    BY <1>6, <1>7, <1>17, <1>18, <2>1, <2>2
<1>20. CutAndGrown(m, l, k, q)
  BY <1>5, <1>15, <1>16, <1>17, <1>18, <1>19, LineGrows
<1>21. PICK b, h : b = Line' /\ h = Len(undo') + 1
  OBVIOUS
<1>22. h \in 1..Len(b) /\ b[h] = q
  <2>1. PICK v, w, ot : v = undo' /\ w = redo' /\ ot = steps'
    OBVIOUS
  <2>2. /\ v \in Seq(Seq(StepNo)) /\ w \in Seq(Seq(StepNo))
        /\ StepsIn(v) \cup StepsIn(w) \subseteq DOMAIN ot /\ SnapsFit(ot)
    BY <1>6, <2>1 DEF Left, StepsHold
  <2>3. \A i \in DOMAIN v : v[i] # <<>>
    BY <2>1 DEF IInv, StacksFit
  <2>4. StackedOver(v, w, ot)
    BY <2>2, <2>3 DEF StackedOver
  <2>5. b = LineOf(v, w, ot, q)
    BY <1>2, <1>21, <2>1 DEF Line
  <2> QED
    BY <1>5, <1>21, <2>1, <2>4, <2>5, LineIsPics
<1>23. Abstract!Edits(l, k, b, h)
  <2>1. Abstract!Settles(m, k + 1, b, h)
    BY <1>6, <1>11, <1>14, <1>21
  <2>2. m = Append(SubSeq(l, 1, k), b[h])
    BY <1>20, <1>22 DEF CutAndGrown
  <2> QED
    BY <1>5, <1>22, <2>1, <2>2 DEF Abstract!Edits
<1>24. l = Line /\ k = Len(undo) + 1
  BY <1>2, <1>14 DEF Line
<1> QED
  BY <1>13, <1>21, <1>23, <1>24 DEF Shows, LineSteps, Abstract!Steps

\* A step, with or without a hold.
LEMMA ExecuteShows ==
    ASSUME IInv, PInv, NEW s \in Strokes, Execute(s) \/ WriteInRun(s), IInv'
    PROVE  Shows
<1>1. PICK strokes : strokes = <<s>>
  OBVIOUS
<1>2. Draw(strokes)
  BY <1>1 DEF Execute, WriteInRun
<1>3. PICK e, st : Drawn(strokes, e, st)
  BY <1>1, <1>2, DrawFiles
<1> QED
  BY <1>3, DrawShows

\* A group of two.
LEMMA RunAsOneStepShows ==
    ASSUME IInv, PInv, NEW s \in Strokes, NEW t \in Strokes, RunAsOneStep(s, t), IInv'
    PROVE  Shows
<1>1. PICK strokes : strokes = <<s, t>>
  OBVIOUS
<1>2. Draw(strokes)
  BY <1>1 DEF RunAsOneStep
<1>3. PICK e, st : Drawn(strokes, e, st)
  BY <1>1, <1>2, DrawFiles
<1> QED
  BY <1>3, DrawShows

\* Every step shows what a line of pictures would, if no file is lost.
LEMMA NextShows ==
    ASSUME ~FilesGetLost, IInv, PInv, [Next]_vars
    PROVE  Shows
<1>1. IInv'
  BY NextHolds
<1>2. CASE \E s \in Strokes : Execute(s) \/ WriteInRun(s)
  BY <1>1, <1>2, ExecuteShows
<1>3. CASE \E s, t \in Strokes : RunAsOneStep(s, t)
  BY <1>1, <1>3, RunAsOneStepShows
<1>4. CASE BeginRun
  <2>1. UNCHANGED <<cel, undo, redo, steps>> /\ ~(run'.pushed > 0)
    BY <1>4 DEF BeginRun, stacks, Begun, NoRun
  <2> QED
    BY <2>1, StillShows
<1>5. CASE TakeBack
  BY <1>1, <1>5, TakeBackShows
<1>6. CASE EndRun
  BY <1>1, <1>6, EndRunShows
<1>7. CASE Undo
  BY <1>7, UndoShows
<1>8. CASE Redo
  BY <1>8, RedoShows
<1>9. CASE ReadAhead
  BY <1>9, ReadAheadShows
<1>10. CASE LeaveWalkBack
  BY <1>10, LeaveWalkBackShows
<1>11. CASE MemoryWarning
  BY <1>11, MemoryWarningShows
<1>12. CASE LiftWarning \/ UNCHANGED vars
  <2>1. UNCHANGED <<cel, undo, redo, steps>> /\ run' = run
    BY <1>12 DEF LiftWarning, vars, stacks
  <2> QED
    BY <2>1, StillShows DEF PInv
<1>13. CASE Land
  BY <1>13, LandShows
<1>14. CASE Clear \/ Dispose
  <2>1. Emptied /\ UNCHANGED <<cel, spill>>
    BY <1>14 DEF Clear, Dispose, pass
  <2> QED
    BY <1>1, <2>1, EmptiedShows
<1>15. ~LoseFile
  BY DEF LoseFile
<1> QED
  BY <1>2, <1>3, <1>4, <1>5, <1>6, <1>7, <1>8, <1>9, <1>10, <1>11, <1>12, <1>13, <1>14, <1>15
     DEF Next

\* At first the line is the picture shown.
LEMMA InitShows ==
    ASSUME Init
    PROVE  PInv /\ Abstract!Init
<1>1. IInv
  BY InitHolds
<1>2. undo = <<>> /\ redo = <<>> /\ run = NoRun /\ steps = <<>>
  BY DEF Init
<1>3. StackedOver(undo, redo, steps) /\ cel \in Pic
  BY <1>1, InvStackedOver DEF IInv, RestHolds
<1>4. PInv
  <2>1. Sided(steps)
    <3>1. DOMAIN steps = {}
      BY <1>2
    <3> QED
      BY <3>1 DEF Sided
  <2>2. Chain(undo, redo, steps, cel)
    BY <1>2, <1>3, <2>1, NoneAheadOf DEF Chain
  <2> QED
    BY <1>2, <2>2 DEF PInv
<1>5. PICK u, r, st, l, a : /\ u = undo /\ r = redo /\ st = steps /\ l = LineOf(u, r, st, cel)
                            /\ a = Ahead(r, st)
  OBVIOUS
<1>6. LineFits(l, u, a, st, cel)
  BY <1>3, <1>5, LineOfFits
<1>7. Len(u) = 0 /\ Len(a) = 0
  <2>1. a = <<>> /\ u = <<>>
    BY <1>2, <1>5, AheadNone
  <2> QED
    BY <2>1, Len(<<>>) = 0
<1>8. Len(l) = 1 /\ l[1] = cel
  BY <1>6, <1>7 DEF LineFits
<1>9. Line = l /\ Len(undo) + 1 = 1
  BY <1>5, <1>7 DEF Line
<1> QED
  BY <1>3, <1>4, <1>8, <1>9 DEF Abstract!Init

-----------------------------------------------------------------------------
(* The theorems.                                                            *)

\* The stacks hold steps that were made, each entry some and each with its
\* pair of snapshots, within the cap; and a pass under way awaits the write
\* of a half that has tiles in memory.
THEOREM HistoryTyped == Spec => []TypeOK
<1>1. IInv => TypeOK
  BY InvIsTyped
<1> QED
  BY <1>1, InvAlways, PTL

\* Where no file is lost the room holds the file of each parked picture of
\* the stacks and no other, whatever is pushed, dropped, shed, undone or
\* folded while a write is on a worker.
THEOREM HistoryRoom ==
    ASSUME ~FilesGetLost
    PROVE  Spec => []RoomIsExact
<1>1. IInv => RoomIsExact
  BY InvIsExact
<1> QED
  BY <1>1, InvAlways, PTL

\* The hold takes back, and folds when it lets go, steps it wrote itself and
\* no others.
THEOREM HistoryRuns == Spec => RunKeepsToItsOwn
<1>1. IInv /\ [Next]_vars => [KeepsToItsOwn]_vars
  BY NextHolds
<1>2. RunKeepsToItsOwn <=> [][KeepsToItsOwn]_vars
  BY DEF RunKeepsToItsOwn, KeepsToItsOwn
<1> QED
  BY <1>1, <1>2, InvAlways, PTL DEF Spec

\* With no pass under way, whatever was pushed, undone, shed, read ahead,
\* warned of or refused by the room, the stacks are over budget by the newest
\* entry alone.
THEOREM HistoryBudget == Spec => []OverByNewestOnly
<1>1. Init => BInv
  BY InitRests
<1>2. IInv /\ BInv /\ [Next]_vars => BInv'
  BY NextRests
<1>3. BInv => OverByNewestOnly
  BY DEF BInv, ByNewest, OverByNewestOnly
<1> QED
  BY <1>1, <1>2, <1>3, InvAlways, PTL DEF Spec

\* Where no file is lost, whoever draws, undoes, redoes, clears, holds and lets
\* go sees a line of pictures: each undo goes to the picture its edit was made
\* on, whatever was parked, read back, shed, taken back or folded meanwhile.
THEOREM HistoryIsALine ==
    ASSUME ~FilesGetLost
    PROVE  Spec => ImplementsUndoLine
<1>1. Init => PInv /\ Abstract!Init
  BY InitShows
<1>2. IInv /\ PInv /\ [Next]_vars => PInv' /\ [Abstract!Next]_<<Line, Len(undo) + 1>>
  <2>1. SUFFICES ASSUME IInv, PInv, [Next]_vars
                 PROVE  PInv' /\ Abstract!Next
    OBVIOUS
  <2>2. PInv' /\ Abstract!Steps(Line, Len(undo) + 1, Line', Len(undo') + 1)
    BY <2>1, NextShows DEF Shows, LineSteps
  <2> QED
    BY <2>2 DEF Abstract!Next
<1> QED
  BY <1>1, <1>2, InvAlways, PTL DEF Spec, ImplementsUndoLine, Abstract!Spec

=============================================================================
