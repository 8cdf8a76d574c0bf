-------------------------- MODULE CaptureRingProofs --------------------------
(***************************************************************************)
(* The microphone's ring, for every geometry and every pace of its two     *)
(* sides: what is drained is what was taken in, in its order.              *)
(***************************************************************************)
EXTENDS CaptureRing, TLAPS

-----------------------------------------------------------------------------
(* Places of a ring.                                                        *)

LEMMA Division ==
    ASSUME NEW n \in Nat \ {0}, NEW a \in Nat
    PROVE  /\ a \div n \in Nat /\ a % n \in 0..n - 1
           /\ a = n * (a \div n) + (a % n)
  BY Z3

\* Two totals less than a ring apart are at different places of it.
LEMMA PlacesDiffer ==
    ASSUME NEW n \in Nat \ {0}, NEW a \in Nat, NEW b \in Nat, a < b, b - a < n
    PROVE  a % n # b % n
  <1> SUFFICES ASSUME a % n = b % n PROVE FALSE
    OBVIOUS
  <1> DEFINE q == (b \div n) - (a \div n)
  <1>1. q \in Int /\ b - a = n * q
    BY Division, Z3
  <1>2. q >= 1
    BY <1>1, Z3
  <1>3. n * q >= n
    BY <1>1, <1>2, Z3
  <1> QED
    BY <1>1, <1>3, Z3

\* Whole frames.
Whole(n) == n = Channels * (n \div Channels)

LEMMA WholeFrames ==
    ASSUME NEW m \in Nat
    PROVE  Whole(m * Channels) /\ (m * Channels) \div Channels = m
  <1>1. Channels \in Nat \ {0}
    BY RingAssumption
  <1>2. m * Channels = Channels * m /\ m * Channels \in Nat
    BY <1>1, Z3
  <1>3. (Channels * m) \div Channels = m
    BY <1>1, Z3
  <1> QED
    BY <1>2, <1>3, Z3 DEF Whole

LEMMA WholeSum ==
    ASSUME NEW a \in Nat, NEW b \in Nat, Whole(a)
    PROVE  /\ (a + b) % Channels = b % Channels
           /\ (a + b) \div Channels = (a \div Channels) + (b \div Channels)
           /\ Whole(b) => Whole(a + b)
  <1> DEFINE n == Channels  q == a \div Channels  r == b \div Channels  d == b % Channels
  <1>1. n \in Nat \ {0}
    BY RingAssumption
  <1>2. q \in Nat /\ r \in Nat /\ d \in 0..n - 1 /\ b = n * r + d
    BY <1>1, Division
  <1>3. a = n * q
    BY DEF Whole
  <1>4. a + b = n * (q + r) + d
    BY <1>1, <1>2, <1>3, Z3
  <1>5. a + b \in Nat /\ (a + b) % n \in 0..n - 1 /\ (a + b) \div n \in Nat
        /\ a + b = n * ((a + b) \div n) + ((a + b) % n)
    <2>1. a + b \in Nat
      OBVIOUS
    <2> QED BY <1>1, <2>1, Division
  <1>6. (a + b) \div n = q + r
    <2> DEFINE s == (a + b) \div n  e == (a + b) % n  k == s - (q + r)
    <2>1. k \in Int /\ n * k = d - e
      BY <1>1, <1>2, <1>4, <1>5, Z3
    <2>2. CASE k >= 1
      <3>1. n * k >= n
        BY <1>1, <2>1, <2>2, Z3
      <3> QED BY <1>1, <1>2, <1>5, <2>1, <3>1, Z3
    <2>3. CASE k <= -1
      <3>1. n * k <= -n
        BY <1>1, <2>1, <2>3, Z3
      <3> QED BY <1>1, <1>2, <1>5, <2>1, <3>1, Z3
    <2> QED BY <1>2, <1>5, <2>1, <2>2, <2>3, Z3
  <1>7. (a + b) % n = d
    BY <1>1, <1>2, <1>4, <1>5, <1>6, Z3
  <1>8. Whole(b) => Whole(a + b)
    BY <1>1, <1>2, <1>3, <1>6, Z3 DEF Whole
  <1> QED
    BY <1>6, <1>7, <1>8

-----------------------------------------------------------------------------
(* The inductive invariant.                                                 *)

\* The callback is on its side of the totals and the drain on its own.
Sides ==
    /\ read <= written /\ written - read <= Capacity
    /\ p.at = "measure" => p.done = 0
    /\ p.at = "copy" =>
           p.done <= p.floats /\ written + p.floats - read <= Capacity
           /\ Whole(p.floats) /\ p.floats \div Channels <= p.frames
    /\ c.at = "copy" => read + c.avail <= written

\* What was taken in stands in the ring until it is freed, the callback's own
\* unpublished samples too.
Stands ==
    /\ Len(kept) = IF p.at = "copy" THEN written + p.done ELSE written
    /\ \A k \in read..Len(kept) - 1 : ring[k % Capacity] = kept[k + 1]

\* The frames handed over: taken in, dropped, or not yet measured or copied.
Counted ==
    /\ Whole(written)
    /\ \A k \in 1..Len(kept) : kept[k][2] = (k - 1) % Channels
    /\ given = dropped + (written \div Channels) +
               (IF p.at = "measure" THEN p.frames
                ELSE IF p.at = "copy" THEN p.floats \div Channels ELSE 0)
    /\ p.at = "measure" \/ p.at = "copy" => p.frames <= given

IInv == TypeOK /\ Sides /\ Stands /\ Counted

LEMMA CapacityType == Capacity \in Nat \ {0} /\ Whole(Capacity)
  <1>1. Channels \in Nat \ {0} /\ RingFrames \in Nat \ {0}
    BY RingAssumption
  <1>2. Capacity = RingFrames * Channels /\ Capacity \in Nat \ {0}
    BY <1>1, Z3 DEF Capacity
  <1> QED BY <1>1, <1>2, WholeFrames

LEMMA InitInvariant == Init => IInv
  <1> SUFFICES ASSUME Init PROVE IInv
    OBVIOUS
  <1>1. Capacity \in Nat \ {0} /\ Channels \in Nat \ {0}
    BY CapacityType, RingAssumption
  <1>2. TypeOK
    <2>1. kept \in Seq(Sampled)
      BY DEF Init
    <2>2. ring \in [0..Capacity - 1 -> Sampled \cup {None}]
      BY DEF Init
    <2>3. line \in [seq : Nat, point : Point]
      BY DEF Init, NoPoint, Point
    <2>4. p \in [at : {"idle", "measure", "copy", "odd", "frames", "time", "even"},
                 frames : Nat, floats : Nat, done : Nat, time : Nat]
      BY DEF Init, Asleep
    <2>5. c \in [at : {"idle", "copy", "frames", "time", "again", "told"},
                 avail : Nat, seq : Nat, point : Point]
      BY DEF Init, Still, NoPoint, Point
    <2> QED BY <2>1, <2>2, <2>3, <2>4, <2>5 DEF Init, TypeOK
  <1>3. Sides /\ Stands
    BY <1>1 DEF Init, Sides, Stands, Asleep, Still
  <1>4. Whole(0) /\ 0 \div Channels = 0
    BY <1>1, Z3 DEF Whole
  <1>5. Counted
    BY <1>1, <1>4 DEF Init, Counted, Asleep, Still
  <1> QED BY <1>2, <1>3, <1>5 DEF IInv

LEMMA RoomInFrames ==
    ASSUME NEW s \in 0..Capacity, NEW m \in Nat, m * Channels > s
    PROVE  LET n == (s \div Channels) * Channels
           IN n \in Nat /\ n <= s /\ Whole(n) /\ n \div Channels = s \div Channels
              /\ s \div Channels <= m /\ s \div Channels \in Nat
  <1> DEFINE q == s \div Channels
  <1>1. Channels \in Nat \ {0} /\ s \in Nat
    BY RingAssumption, CapacityType
  <1>2. q \in Nat /\ s = Channels * q + (s % Channels) /\ s % Channels \in Nat
    <2>1. q \in Nat /\ s % Channels \in 0..Channels - 1 /\ s = Channels * q + (s % Channels)
      BY <1>1, Division
    <2> QED BY <1>1, <2>1
  <1>3. q * Channels = Channels * q /\ q * Channels \in Nat
    BY <1>1, <1>2, Z3
  <1>4. Whole(q * Channels) /\ (q * Channels) \div Channels = q
    BY <1>2, WholeFrames
  <1>5. q <= m
    <2> SUFFICES ASSUME q > m PROVE FALSE
      BY <1>2
    <2>1. q * Channels >= m * Channels
      BY <1>1, <1>2, Z3
    <2> QED BY <1>1, <1>2, <1>3, <2>1, Z3
  <1> QED BY <1>2, <1>3, <1>4, <1>5, Z3

\* What does not write the ring, the totals or the callback's count keeps it all.
LEMMA Bystander ==
    ASSUME IInv, TypeOK', UNCHANGED <<ring, totals, kept, given>>,
           p'.at = p.at \/ ~(p.at \in {"measure", "copy"} \/ p'.at \in {"measure", "copy"}),
           p'.at = p.at => p' = p,
           c'.at = "copy" => read + c'.avail <= written
    PROVE  IInv'
  BY DEF IInv, Sides, Stands, Counted, totals, Whole, Capacity

LEMMA MeasuresKeeps == ASSUME IInv, Measures PROVE IInv'
  <1> DEFINE floats == Fits(p.frames * Channels)
  <1>1. Channels \in Nat \ {0} /\ Capacity \in Nat \ {0} /\ p.frames \in Nat
    BY RingAssumption, CapacityType DEF IInv, TypeOK
  <1>2. Space \in 0..Capacity /\ Space = Capacity - (written - read)
    BY <1>1 DEF IInv, TypeOK, Sides, Space
  <1>3. p.frames * Channels \in Nat
    BY <1>1, Z3
  <1>4. floats \in Nat /\ floats <= Space /\ Whole(floats)
        /\ floats \div Channels <= p.frames /\ floats \div Channels \in Nat
    <2>1. CASE p.frames * Channels > Space
      BY <1>1, <1>2, <2>1, RoomInFrames DEF Fits
    <2>2. CASE ~(p.frames * Channels > Space)
      BY <1>1, <1>2, <1>3, <2>2, WholeFrames, Z3 DEF Fits
    <2> QED BY <2>1, <2>2
  <1>5. /\ p.at = "measure" /\ p' = [p EXCEPT !.at = "copy", !.floats = floats]
        /\ dropped' = dropped + p.frames - floats \div Channels
        /\ UNCHANGED <<open, ring, written, read, line, c, given, kept>>
    BY DEF Measures
  <1> HIDE DEF floats
  <1>6. TypeOK'
    <2>1. dropped' \in Nat
      <3> DEFINE k == floats \div Channels
      <3>1. k \in Nat /\ k <= p.frames /\ dropped' = dropped + p.frames - k
        BY <1>4, <1>5
      <3> HIDE DEF k
      <3> QED BY <1>1, <3>1 DEF IInv, TypeOK
    <2>2. p' \in [at : {"idle", "measure", "copy", "odd", "frames", "time", "even"},
                  frames : Nat, floats : Nat, done : Nat, time : Nat]
      BY <1>4, <1>5 DEF IInv, TypeOK
    <2> QED BY <1>5, <2>1, <2>2 DEF IInv, TypeOK
  <1>8. p'.at = "copy" /\ p'.done = 0 /\ p'.floats = floats /\ p'.frames = p.frames
    BY <1>5 DEF IInv, TypeOK, Sides
  <1>7. Sides'
    <2>1. written + floats - read <= Capacity
      BY <1>1, <1>2, <1>4 DEF IInv, TypeOK
    <2>2. Whole(p'.floats) /\ p'.floats \div Channels <= p'.frames
      BY <1>4, <1>8
    <2>3. read' <= written' /\ written' - read' <= Capacity
      BY <1>5 DEF IInv, Sides
    <2>4. c'.at = "copy" => read' + c'.avail <= written'
      BY <1>5 DEF IInv, Sides
    <2> QED BY <1>4, <1>5, <1>8, <2>1, <2>2, <2>3, <2>4 DEF Sides, Whole, Capacity
  <1>9. Stands'
    BY <1>5, <1>8, CapacityType DEF IInv, TypeOK, Stands, Capacity
  <1>10. Counted'
    <2>1. written \div Channels \in Nat
      BY <1>1, Division DEF IInv, TypeOK
    <2>2. given' = dropped' + (written' \div Channels) + (p'.floats \div Channels)
      <3> DEFINE k == floats \div Channels  w == written \div Channels
      <3>1. k \in Nat /\ w \in Nat /\ dropped' = dropped + p.frames - k
        BY <1>4, <1>5, <2>1
      <3>2. given = dropped + w + p.frames
        BY <1>5 DEF IInv, Counted
      <3>3. w = written' \div Channels /\ k = p'.floats \div Channels
        BY <1>5, <1>8
      <3>4. given' = given /\ given \in Nat /\ dropped \in Nat /\ p.frames \in Nat
        BY <1>1, <1>5 DEF IInv, TypeOK
      <3> HIDE DEF k, w
      <3> QED BY <3>1, <3>2, <3>3, <3>4
    <2>3. Whole(written)' /\ \A k \in 1..Len(kept)' : kept'[k][2] = (k - 1) % Channels
      BY <1>5 DEF IInv, Counted, Whole
    <2>4. p'.frames <= given'
      BY <1>5, <1>8 DEF IInv, Counted
    <2> QED BY <1>8, <2>2, <2>3, <2>4 DEF Counted, Whole
  <1> QED BY <1>6, <1>7, <1>9, <1>10 DEF IInv

LEMMA CopiesInKeeps == ASSUME IInv, CopiesIn PROVE IInv'
  <1> DEFINE x == Sample(p.done)  l == Len(kept)
  <1>1. Channels \in Nat \ {0} /\ Capacity \in Nat \ {0}
    BY RingAssumption, CapacityType
  <1>2. /\ p.at = "copy" /\ p.done < p.floats
        /\ ring' = [ring EXCEPT ![(written + p.done) % Capacity] = x]
        /\ kept' = Append(kept, x)
        /\ p' = [p EXCEPT !.done = @ + 1]
        /\ UNCHANGED <<open, totals, line, c, given>>
    BY DEF CopiesIn
  <1>3. l = written + p.done /\ l \in Nat /\ p.done \in Nat /\ p.frames \in Nat /\ given \in Nat
    BY <1>2 DEF IInv, TypeOK, Stands
  <1>4. x \in Sampled /\ x[2] = l % Channels
    <2>1. p.done \div Channels \in Nat /\ p.done % Channels \in Nat
      <3>1. p.done \div Channels \in Nat /\ p.done % Channels \in 0..Channels - 1
        BY <1>1, <1>3, Division
      <3> QED BY <1>1, <3>1
    <2>2. p.frames <= given
      BY <1>2 DEF IInv, Counted
    <2> DEFINE k == p.done \div Channels  r == p.done % Channels
    <2>3. x = <<given - p.frames + k, r>>
      BY DEF Sample
    <2>4. r = l % Channels
      <3>1. Whole(written) /\ written \in Nat
        BY DEF IInv, TypeOK, Counted
      <3> QED BY <1>3, <3>1, WholeSum
    <2> HIDE DEF k, r
    <2>5. k \in Nat /\ r \in Nat
      BY <2>1 DEF k, r
    <2> QED BY <1>3, <2>2, <2>3, <2>4, <2>5 DEF Sampled
  <1> HIDE DEF x
  <1>5. l % Capacity \in 0..Capacity - 1
    BY <1>1, <1>3, Division
  <1>6. /\ ring' \in [0..Capacity - 1 -> Sampled \cup {None}]
        /\ ring'[l % Capacity] = x
        /\ \A i \in 0..Capacity - 1 : i # l % Capacity => ring'[i] = ring[i]
    BY <1>2, <1>3, <1>4, <1>5 DEF IInv, TypeOK
  <1>7. /\ kept' \in Seq(Sampled) /\ Len(kept') = l + 1 /\ kept'[l + 1] = x
        /\ \A i \in 1..l : kept'[i] = kept[i]
    BY <1>2, <1>4 DEF IInv, TypeOK
  <1>8. /\ p'.at = "copy" /\ p'.floats = p.floats /\ p'.done = p.done + 1 /\ p'.frames = p.frames
        /\ p' \in [at : {"idle", "measure", "copy", "odd", "frames", "time", "even"},
                   frames : Nat, floats : Nat, done : Nat, time : Nat]
    <2> DEFINE P == [at : {"idle", "measure", "copy", "odd", "frames", "time", "even"},
                     frames : Nat, floats : Nat, done : Nat, time : Nat]
    <2>1. p \in P /\ p.done + 1 \in Nat
      BY <1>3 DEF IInv, TypeOK
    <2>2. p' = [p EXCEPT !.done = p.done + 1]
      BY <1>2
    <2> QED BY <1>2, <2>1, <2>2
  <1>9. TypeOK'
    BY <1>2, <1>6, <1>7, <1>8 DEF IInv, TypeOK, totals
  <1>10. Sides'
    BY <1>2, <1>3, <1>8 DEF IInv, TypeOK, Sides, totals, Whole
  <1>11. Stands'
    <2> SUFFICES ASSUME NEW k \in read..l PROVE ring'[k % Capacity] = kept'[k + 1]
      <3>1. read' = read /\ written' = written
        BY <1>2 DEF totals
      <3>2. Len(kept') - 1 = l /\ Len(kept') = written' + p'.done
        BY <1>3, <1>7, <1>8, <3>1 DEF IInv, TypeOK
      <3> QED BY <1>8, <3>1, <3>2 DEF Stands
    <2>1. CASE k = l
      BY <1>6, <1>7, <2>1
    <2>2. CASE k < l
      <3>1. k \in Nat /\ l - k < Capacity
        <4>1. k \in Int /\ k >= read /\ read \in Nat /\ p.floats \in Nat /\ written \in Nat
          BY <1>3 DEF IInv, TypeOK
        <4>2. written + p.floats - read <= Capacity
          BY <1>2 DEF IInv, Sides
        <4> QED BY <1>1, <1>2, <1>3, <4>1, <4>2
      <3>2. k % Capacity # l % Capacity
        BY <1>1, <1>3, <2>2, <3>1, PlacesDiffer
      <3>3. k % Capacity \in 0..Capacity - 1
        BY <1>1, <3>1, Division
      <3>4. ring[k % Capacity] = kept[k + 1]
        BY <1>3, <2>2 DEF IInv, TypeOK, Stands
      <3>5. kept'[k + 1] = kept[k + 1]
        BY <1>3, <1>7, <2>2, <3>1
      <3> QED BY <1>6, <3>2, <3>3, <3>4, <3>5
    <2> QED BY <1>3, <2>1, <2>2 DEF IInv, TypeOK
  <1>12. Counted'
    <2>1. \A k \in 1..l + 1 : kept'[k][2] = (k - 1) % Channels
      <3> SUFFICES ASSUME NEW k \in 1..l + 1 PROVE kept'[k][2] = (k - 1) % Channels
        OBVIOUS
      <3>1. CASE k = l + 1
        <4>1. k - 1 = l
          BY <1>3, <3>1
        <4> QED BY <1>4, <1>7, <3>1, <4>1
      <3>2. CASE k \in 1..l
        BY <1>7, <3>2 DEF IInv, Counted
      <3> QED BY <1>3, <3>1, <3>2
    <2> QED BY <1>2, <1>7, <1>8, <2>1 DEF IInv, Counted, totals, Whole
  <1> QED BY <1>9, <1>10, <1>11, <1>12 DEF IInv

LEMMA PublishesKeeps == ASSUME IInv, Publishes PROVE IInv'
  <1>1. Channels \in Nat \ {0} /\ Capacity \in Nat \ {0}
    BY RingAssumption, CapacityType
  <1>2. /\ p.at = "copy" /\ p.done = p.floats /\ written' = written + p.floats
        /\ p' = [p EXCEPT !.at = "odd"]
        /\ UNCHANGED <<open, ring, read, dropped, line, c, given, kept>>
    BY DEF Publishes
  <1>3. p.floats \in Nat /\ written \in Nat /\ Whole(p.floats) /\ Whole(written)
    BY <1>2 DEF IInv, TypeOK, Sides, Counted
  <1>4. p'.at = "odd"
    BY <1>2 DEF IInv, TypeOK
  <1>5. TypeOK'
    <2>1. p' \in [at : {"idle", "measure", "copy", "odd", "frames", "time", "even"},
                  frames : Nat, floats : Nat, done : Nat, time : Nat]
      BY <1>2 DEF IInv, TypeOK
    <2> QED BY <1>2, <1>3, <2>1 DEF IInv, TypeOK
  <1>6. Sides'
    BY <1>2, <1>3, <1>4 DEF IInv, TypeOK, Sides, Capacity
  <1>7. Stands'
    BY <1>2, <1>3, <1>4 DEF IInv, TypeOK, Stands, Capacity
  <1>8. Counted'
    <2>1. /\ Whole(written + p.floats)
          /\ (written + p.floats) \div Channels = (written \div Channels) + (p.floats \div Channels)
      BY <1>3, WholeSum
    <2> DEFINE w == written \div Channels  k == p.floats \div Channels
    <2>2. w \in Nat /\ k \in Nat
      BY <1>1, <1>3, Division
    <2>3. written' \div Channels = w + k
      BY <1>2, <2>1
    <2>4. given = dropped + w + k /\ dropped \in Nat
      BY <1>2 DEF IInv, TypeOK, Counted
    <2> HIDE DEF w, k
    <2>5. given' = dropped' + (written' \div Channels) + 0
      BY <1>2, <2>2, <2>3, <2>4
    <2>6. Whole(written)' /\ \A i \in 1..Len(kept)' : kept'[i][2] = (i - 1) % Channels
      BY <1>2, <2>1 DEF IInv, Counted, Whole
    <2> QED BY <1>4, <2>5, <2>6 DEF Counted
  <1> QED BY <1>5, <1>6, <1>7, <1>8 DEF IInv

LEMMA AskedKeeps == ASSUME IInv, NEW frames \in 1..MaxBuffer, Asked(frames) PROVE IInv'
  <1>1. /\ p.at = "idle" /\ given' = given + frames /\ frames \in Nat
        /\ p' = [Asleep EXCEPT !.at = "measure", !.frames = frames, !.time = given + frames]
        /\ UNCHANGED <<open, ring, totals, line, c, kept>>
    BY RingAssumption DEF Asked
  <1>2. p' = [at |-> "measure", frames |-> frames, floats |-> 0, done |-> 0, time |-> given + frames]
    BY <1>1 DEF Asleep
  <1>3. given + frames \in Nat
    BY <1>1 DEF IInv, TypeOK
  <1>4. p' \in [at : {"idle", "measure", "copy", "odd", "frames", "time", "even"},
               frames : Nat, floats : Nat, done : Nat, time : Nat]
    BY <1>1, <1>2, <1>3
  <1>5. TypeOK'
    BY <1>1, <1>3, <1>4 DEF IInv, TypeOK, totals
  <1>6. Sides' /\ Stands'
    <2>1. UNCHANGED <<read, written, c, ring, kept>> /\ p'.at = "measure" /\ p'.done = 0
      <3>1. read' = read /\ written' = written /\ c' = c /\ ring' = ring /\ kept' = kept
        BY <1>1 DEF totals
      <3>2. p'.at = "measure" /\ p'.done = 0
        BY <1>2
      <3> QED BY <3>1, <3>2
    <2>2. p.at # "copy" /\ p'.at # "copy"
      BY <1>1, <2>1
    <2>3. Sides'
      BY <2>1, <2>2 DEF IInv, Sides
    <2>4. Stands'
      BY <2>1, <2>2 DEF IInv, Stands
    <2> QED BY <2>3, <2>4
  <1>7. Counted'
    <2> DEFINE w == written \div Channels
    <2>1. w \in Nat /\ given = dropped + w + 0
      <3>1. w \in Nat
        BY RingAssumption, Division DEF IInv, TypeOK
      <3> QED BY <1>1, <3>1 DEF IInv, Counted
    <2> HIDE DEF w
    <2>2. given' = dropped' + w + frames /\ frames <= given'
      BY <1>1, <2>1 DEF IInv, TypeOK, totals
    <2>3. w = written' \div Channels
      BY <1>1 DEF totals, w
    <2>4. p'.at = "measure" /\ p'.frames = frames
      BY <1>2
    <2>5. Whole(written)' /\ \A k \in 1..Len(kept)' : kept'[k][2] = (k - 1) % Channels
      BY <1>1 DEF IInv, Counted, Whole, totals
    <2> QED BY <2>2, <2>3, <2>4, <2>5 DEF Counted
  <1> QED BY <1>5, <1>6, <1>7 DEF IInv

LEMMA FreesKeeps == ASSUME IInv, Frees PROVE IInv'
  <1>1. /\ c.at = "copy" /\ read' = read + c.avail /\ c' = Still
        /\ UNCHANGED <<open, ring, written, dropped, line, p, given, kept>>
    BY DEF Frees
  <1>2. Capacity \in Nat \ {0}
    BY CapacityType
  <1>3. c.avail \in Nat /\ read + c.avail <= written /\ c' = [at |-> "idle", avail |-> 0, seq |-> 0, point |-> NoPoint]
    BY <1>1 DEF IInv, TypeOK, Sides, Still
  <1>4. TypeOK'
    BY <1>1, <1>3 DEF IInv, TypeOK, NoPoint, Point
  <1>5. Sides'
    BY <1>1, <1>2, <1>3 DEF IInv, TypeOK, Sides, Whole
  <1>6. Stands'
    BY <1>1, <1>3 DEF IInv, TypeOK, Stands
  <1>7. Counted'
    BY <1>1 DEF IInv, Counted, Whole
  <1> QED BY <1>4, <1>5, <1>6, <1>7 DEF IInv

LEMMA OpenKeeps == ASSUME IInv, Open PROVE IInv'
  <1>1. /\ ring' = [i \in 0..Capacity - 1 |-> None] /\ open' = TRUE
        /\ written' = 0 /\ read' = 0 /\ dropped' = 0 /\ kept' = <<>> /\ given' = 0
        /\ p = Asleep /\ c = Still /\ p' = p /\ c' = c /\ line' = [line EXCEPT !.point.time = 0]
    BY DEF Open
  <1>2. Capacity \in Nat \ {0} /\ Channels \in Nat \ {0}
    BY CapacityType, RingAssumption
  <1>3. TypeOK'
    <2>1. line' \in [seq : Nat, point : Point]
      BY <1>1 DEF IInv, TypeOK, Point
    <2>2. kept' \in Seq(Sampled) /\ ring' \in [0..Capacity - 1 -> Sampled \cup {None}]
      BY <1>1
    <2> QED BY <1>1, <2>1, <2>2 DEF IInv, TypeOK
  <1>4. Sides' /\ Stands'
    BY <1>1, <1>2 DEF Sides, Stands, Asleep, Still
  <1>5. Whole(0) /\ 0 \div Channels = 0
    BY <1>2, Z3 DEF Whole
  <1>6. Counted'
    BY <1>1, <1>2, <1>5 DEF Counted, Asleep, Whole
  <1> QED BY <1>3, <1>4, <1>6 DEF IInv

LEMMA StampsKeep ==
    ASSUME IInv, StampsOdd \/ StampsFrames \/ StampsTime \/ StampsEven
    PROVE  IInv'
  <1>1. UNCHANGED <<open, ring, totals, c, given, kept>>
    BY DEF StampsOdd, StampsFrames, StampsTime, StampsEven
  <1>2. /\ p.at \in {"odd", "frames", "time", "even"} /\ p'.at \in {"frames", "time", "even", "idle"}
        /\ p'.at # p.at
        /\ p' \in [at : {"idle", "measure", "copy", "odd", "frames", "time", "even"},
                   frames : Nat, floats : Nat, done : Nat, time : Nat]
    BY DEF IInv, TypeOK, StampsOdd, StampsFrames, StampsTime, StampsEven, Asleep
  <1>3. line' \in [seq : Nat, point : Point]
    <2>1. written \div Channels \in Nat
      BY RingAssumption, Division DEF IInv, TypeOK
    <2> DEFINE w == written \div Channels
    <2>2. w \in Nat
      BY <2>1
    <2>3. StampsFrames => line' = [line EXCEPT !.point.frames = w]
      BY DEF StampsFrames
    <2> HIDE DEF w
    <2>4. CASE StampsFrames
      BY <2>2, <2>3, <2>4 DEF IInv, TypeOK, Point
    <2>5. CASE StampsTime
      BY <2>5 DEF StampsTime, IInv, TypeOK, Point
    <2>6. CASE StampsOdd \/ StampsEven
      BY <2>6 DEF StampsOdd, StampsEven, IInv, TypeOK, Point
    <2> QED BY <2>4, <2>5, <2>6
  <1>4. TypeOK'
    BY <1>1, <1>2, <1>3 DEF IInv, TypeOK, totals
  <1> QED BY <1>1, <1>2, <1>4, Bystander DEF IInv, Sides

LEMMA ReadersKeep ==
    ASSUME IInv,
           Close \/ (\E max \in 1..MaxDrain : Drain(max)) \/ AsksLine \/ ReadsFrames
           \/ ReadsTime \/ Answers \/ Returns
    PROVE  IInv'
  <1>1. UNCHANGED <<ring, totals, line, p, given, kept>> /\ open' \in BOOLEAN
    BY DEF Close, Drain, AsksLine, ReadsFrames, ReadsTime, Answers, Returns, IInv, TypeOK
  <1> DEFINE C == [at : {"idle", "copy", "frames", "time", "again", "told"},
                   avail : Nat, seq : Nat, point : Point]
  <1>2. c' \in C /\ (c'.at = "copy" => read + c'.avail <= written)
    <2>1. CASE Close
      BY <2>1 DEF Close, IInv, TypeOK, Sides
    <2>2. ASSUME NEW max \in 1..MaxDrain, Drain(max) PROVE c' \in C /\ read + c'.avail <= written
      <3> DEFINE n == Least(written - read, max)
      <3>1. n \in Nat /\ read + n <= written
        <4>1. max \in Nat /\ read \in Nat /\ written \in Nat /\ written > read
          <5>1. max \in Nat
            BY RingAssumption
          <5>2. read \in Nat /\ written \in Nat
            BY DEF IInv, TypeOK
          <5>3. written > read
            BY <2>2 DEF Drain
          <5> QED BY <5>1, <5>2, <5>3
        <4> QED BY <4>1 DEF Least
      <3>2. c' = [at |-> "copy", avail |-> n, seq |-> 0, point |-> NoPoint]
        BY <2>2 DEF Drain, Still
      <3> HIDE DEF n
      <3> QED BY <3>1, <3>2 DEF NoPoint, Point
    <2>3. CASE AsksLine
      BY <2>3 DEF AsksLine, IInv, TypeOK, Still, NoPoint, Point
    <2>4. CASE ReadsFrames
      BY <2>4 DEF ReadsFrames, IInv, TypeOK, Point
    <2>5. CASE ReadsTime
      BY <2>5 DEF ReadsTime, IInv, TypeOK, Point
    <2>6. CASE Answers
      BY <2>6 DEF Answers, IInv, TypeOK, Still, NoPoint, Point
    <2>7. CASE Returns
      BY <2>7 DEF Returns, Still, NoPoint, Point
    <2> QED BY <2>1, <2>2, <2>3, <2>4, <2>5, <2>6, <2>7
  <1>3. TypeOK'
    BY <1>1, <1>2 DEF IInv, TypeOK, totals
  <1> QED BY <1>1, <1>2, <1>3, Bystander DEF totals

LEMMA StepInvariant == IInv /\ [Next]_vars => IInv'
  <1>1. ASSUME IInv, Callback PROVE IInv'
    BY <1>1, AskedKeeps, MeasuresKeeps, CopiesInKeeps, PublishesKeeps, StampsKeep DEF Callback
  <1>2. ASSUME IInv, Control PROVE IInv'
    BY <1>2, OpenKeeps, FreesKeeps, ReadersKeep DEF Control
  <1>3. ASSUME IInv, UNCHANGED vars PROVE IInv'
    BY <1>3 DEF vars, totals, IInv, TypeOK, Sides, Stands, Counted, Whole
  <1> QED BY <1>1, <1>2, <1>3 DEF Next

LEMMA Invariance == Spec => []IInv
  BY InitInvariant, StepInvariant, PTL DEF Spec

-----------------------------------------------------------------------------
(* The theorems.                                                            *)

\* The totals and both sides keep their types (capture.rs, deliver and read).
THEOREM RingTypes == Spec => []TypeOK
  BY Invariance, PTL DEF IInv

\* For every ring and every pace of its two sides, what the drain may copy is
\* what was taken in, in its order (deliver against read, wraps included).
THEOREM RingInOrder == Spec => []InOrder
  <1>1. IInv => InOrder
    <2> SUFFICES ASSUME IInv, NEW k \in read..written - 1
                 PROVE  k + 1 \in 1..Len(kept) /\ ring[k % Capacity] = kept[k + 1]
      BY DEF InOrder
    <2>1. Len(kept) \in Nat /\ written <= Len(kept) /\ read \in Nat /\ written \in Nat
      BY DEF IInv, TypeOK, Stands
    <2> QED BY <2>1 DEF IInv, Stands
  <1> QED BY <1>1, Invariance, PTL

\* A take is whole frames, channel after channel, and every frame handed over
\* is in it or counted as dropped (deliver's cut and its count).
THEOREM RingFramesWhole == Spec => []FramesWhole
  <1>1. IInv => FramesWhole
    <2> SUFFICES ASSUME IInv PROVE FramesWhole
      OBVIOUS
    <2>1. \A k \in 1..Len(kept) : kept[k][2] = (k - 1) % Channels
      BY DEF IInv, Counted
    <2>2. ASSUME p.at \in {"idle", "odd", "frames", "time", "even"}
          PROVE  given = dropped + Len(kept) \div Channels /\ Len(kept) % Channels = 0
      <3>1. Len(kept) = written /\ Whole(written) /\ written \in Nat
        BY <2>2 DEF IInv, TypeOK, Stands, Counted
      <3> DEFINE w == written \div Channels
      <3>2. w \in Nat /\ given = dropped + w + 0 /\ dropped \in Nat
        BY <2>2, <3>1, RingAssumption, Division DEF IInv, TypeOK, Counted
      <3>3. written % Channels = 0
        <4>1. Channels \in Nat \ {0}
          BY RingAssumption
        <4>2. written = Channels * w + (written % Channels) /\ written = Channels * w
              /\ written % Channels \in 0..Channels - 1
          BY <3>1, <4>1, Division DEF Whole
        <4> DEFINE r == written % Channels  m == Channels * w
        <4>3. r \in Int /\ m \in Int /\ written = m + r /\ written = m
          BY <3>1, <4>1, <4>2
        <4> HIDE DEF r, m
        <4> QED BY <4>3 DEF r
      <3> HIDE DEF w
      <3>4. given = dropped + w
        BY <3>2
      <3> QED BY <3>1, <3>3, <3>4 DEF w
    <2> QED BY <2>1, <2>2 DEF FramesWhole
  <1> QED BY <1>1, Invariance, PTL

=============================================================================
