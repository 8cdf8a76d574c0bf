--------------------------- MODULE ResamplerProofs ---------------------------
(***************************************************************************)
(* What Resampler promises, for every ratio, filter and feeding: a sound   *)
(* converted in pieces writes what the conversion of the whole sound does. *)
(*                                                                         *)
(* Heard's base and phase are one division, so an output frame f reads the *)
(* inputs s with Inter * s at most f * Deci + Half and above that less the *)
(* taps (ReadsBetween).  From there everything is linear.                  *)
(***************************************************************************)
EXTENDS Resampler, TLAPS

-----------------------------------------------------------------------------
(* Division and products, as the proofs use them.                           *)
LEMMA Division ==
    ASSUME NEW a \in Int, NEW b \in Nat \ {0}
    PROVE  /\ a \div b \in Int
           /\ a % b \in 0..b - 1
           /\ b * (a \div b) + (a % b) = a
  BY SMT

LEMMA Closed == ASSUME NEW x \in Int, NEW y \in Int PROVE x * y \in Int
  BY SMT

LEMMA InOrder ==
    ASSUME NEW x \in Int, NEW y \in Int, NEW k \in Nat \ {0}, x <= y
    PROVE k * x <= k * y
  BY SMT

LEMMA Below ==
    ASSUME NEW x \in Int, NEW y \in Int, NEW k \in Nat \ {0}, k * x < k * y
    PROVE x < y
  BY SMT

LEMMA OneMore == ASSUME NEW x \in Int, NEW k \in Int PROVE k * (x + 1) = (k * x) + k /\ k * (x - 1) = (k * x) - k
  BY SMT

LEMMA DividesInOrder ==
    ASSUME NEW a \in Int, NEW b \in Int, NEW k \in Nat \ {0}, a <= b
    PROVE a \div k <= b \div k
<1> DEFINE q == a \div k  p == b \div k
<1>1. q \in Int /\ p \in Int /\ k * q <= a /\ b < (k * p) + k
  BY Division, Closed
<1>2. k * q < k * (p + 1)
  BY <1>1, OneMore, Closed
<1>3. q < p + 1
  <2> HIDE DEF q, p
  <2> QED BY <1>1, <1>2, Below
<1> QED BY <1>1, <1>3

-----------------------------------------------------------------------------
(* What an output frame reads.                                              *)
Taps == 2 * Half + 1
At(f) == (f * Deci) + Half

LEMMA AtType == ASSUME NEW f \in Int PROVE At(f) \in Int
  BY DesignAssumption, Closed DEF At

LEMMA ReadsBetween ==
    ASSUME NEW first \in Int, NEW total \in Int, NEW f \in Int
    PROVE  Heard(D, first, total, f) =
             {s \in Int : first <= s /\ s < total /\ Inter * s <= At(f) /\ At(f) - Taps < Inter * s}
<1> DEFINE phase == At(f) % Inter  base == At(f) \div Inter
<1>1. Inter \in Nat \ {0} /\ Deci \in Nat \ {0} /\ Half \in Nat /\ At(f) \in Int
  BY DesignAssumption, AtType
<1>2. base \in Int /\ phase \in 0..Inter - 1 /\ (Inter * base) + phase = At(f)
  BY <1>1, Division
<1>3. Heard(D, first, total, f) = {s \in first..base : phase + ((base - s) * Inter) < Taps /\ s < total}
  BY DEF Heard, D, TapsOf, At, Taps
<1> HIDE DEF phase, base
<1>4. ASSUME NEW s \in Int
      PROVE  /\ s <= base <=> Inter * s <= At(f)
             /\ phase + ((base - s) * Inter) = At(f) - (Inter * s)
  <2>1. Inter * s \in Int /\ Inter * base \in Int
    BY <1>1, <1>2, Closed
  <2>2. ASSUME s <= base PROVE Inter * s <= At(f)
    BY <1>1, <1>2, <2>1, <2>2, InOrder
  <2>3. ASSUME Inter * s <= At(f) PROVE s <= base
    <3>1. Inter * s < Inter * (base + 1)
      BY <1>1, <1>2, <2>1, <2>3, OneMore
    <3> QED BY <1>1, <1>2, <3>1, Below
  <2>4. (base - s) * Inter = (Inter * base) - (Inter * s)
    BY <1>1, <1>2, SMT
  <2> QED BY <1>1, <1>2, <2>1, <2>2, <2>3, <2>4
<1> QED BY <1>1, <1>2, <1>3, <1>4 DEF Taps

\* The held input covers every output still to come.
Covered(first, next) == first = 0 \/ Inter * first <= At(next) - Taps + Inter

LEMMA CoveredReads ==
    ASSUME NEW first \in Nat, NEW next \in Nat, NEW total \in Int, NEW f \in Int,
           Covered(first, next), next <= f
    PROVE  Heard(D, first, total, f) = Heard(D, 0, total, f)
<1>1. Inter \in Nat \ {0} /\ Deci \in Nat \ {0} /\ Half \in Nat /\ At(f) \in Int /\ At(next) \in Int
  BY DesignAssumption, AtType
<1>2. At(next) <= At(f)
  <2>1. Deci * next <= Deci * f
    BY <1>1, InOrder
  <2>2. next * Deci = Deci * next /\ f * Deci = Deci * f
    BY <1>1, SMT
  <2> QED BY <1>1, <2>1, <2>2, Closed DEF At
<1>3. ASSUME NEW s \in Int, 0 <= s, At(f) - Taps < Inter * s PROVE first <= s
  <2>1. CASE first = 0
    BY <2>1, <1>3
  <2>2. CASE Inter * first <= At(next) - Taps + Inter
    <3>1. Inter * (first - 1) = (Inter * first) - Inter
      BY <1>1, OneMore
    <3>2. Inter * (first - 1) < Inter * s
      BY <1>1, <1>2, <1>3, <2>2, <3>1, Closed DEF Taps
    <3>3. first - 1 < s
      BY <1>1, <3>2, Below
    <3> QED BY <3>3
  <2> QED BY <2>1, <2>2 DEF Covered
<1>4. /\ Heard(D, first, total, f) = {s \in Int : first <= s /\ s < total /\ Inter * s <= At(f) /\ At(f) - Taps < Inter * s}
      /\ Heard(D, 0, total, f) = {s \in Int : 0 <= s /\ s < total /\ Inter * s <= At(f) /\ At(f) - Taps < Inter * s}
  BY ReadsBetween
<1>5. \A s \in Int : At(f) - Taps < Inter * s => (first <= s <=> 0 <= s)
  BY <1>3
<1> QED BY <1>4, <1>5, Zenon

\* Before the end, what a ready output reads has arrived.
LEMMA ReadyReads ==
    ASSUME NEW total \in Nat, NEW f \in Nat, f < Arrived(D, total)
    PROVE  Heard(D, 0, total, f) = Heard(D, 0, At(f) + 1, f)
<1> DEFINE reach == (total * Inter) - Half  whole == (reach + Deci - 1) \div Deci
<1>1. Inter \in Nat \ {0} /\ Deci \in Nat \ {0} /\ Half \in Nat /\ At(f) \in Int /\ total * Inter \in Int
  BY DesignAssumption, AtType, Closed
<1>2. whole \in Int /\ Deci * whole <= reach + Deci - 1
  BY <1>1, Division, Closed
<1>3. f + 1 <= whole /\ 0 < reach
  <2>1. Arrived(D, total) = Least(IF reach <= 0 THEN 0 ELSE whole, (total * Inter) \div Deci)
    BY DEF Arrived, Limit, D
  <2>2. (total * Inter) \div Deci \in Int
    BY <1>1, Division
  <2>3. reach \in Int
    BY <1>1
  <2>4. whole \in Int
    BY <1>2
  <2>5. Arrived(D, total) = IF reach <= 0 THEN Least(0, (total * Inter) \div Deci)
                                    ELSE Least(whole, (total * Inter) \div Deci)
    BY <2>1, Zenon
  <2> DEFINE end == Arrived(D, total)  limit == (total * Inter) \div Deci
  <2>6. f < end /\ limit \in Int /\ end = IF reach <= 0 THEN Least(0, limit) ELSE Least(whole, limit)
    BY <2>2, <2>5
  <2> HIDE DEF reach, whole, end, limit
  <2> QED BY <2>3, <2>4, <2>6 DEF Least
<1>4. f * Deci = Deci * f /\ total * Inter = Inter * total
  BY <1>1, SMT
<1>5. Deci * f < (Inter * total) - Half
  <2>1. Deci * (f + 1) <= Deci * whole
    BY <1>1, <1>2, <1>3, InOrder
  <2>2. Deci * (f + 1) = (Deci * f) + Deci
    BY <1>1, OneMore
  <2> QED BY <1>1, <1>2, <1>4, <2>1, <2>2, Closed
<1>6. ASSUME NEW s \in Int, Inter * s <= At(f) PROVE s < total
  BY <1>1, <1>4, <1>5, <1>6, Below, Closed DEF At
<1>7. ASSUME NEW s \in Int, 0 <= s, Inter * s <= At(f) PROVE s < At(f) + 1
  <2>1. s <= Inter * s
    BY <1>1, <1>7, SMT
  <2> QED BY <1>1, <1>7, <2>1, Closed
<1>8. /\ Heard(D, 0, total, f) = {s \in Int : 0 <= s /\ s < total /\ Inter * s <= At(f) /\ At(f) - Taps < Inter * s}
      /\ Heard(D, 0, At(f) + 1, f) = {s \in Int : 0 <= s /\ s < At(f) + 1 /\ Inter * s <= At(f) /\ At(f) - Taps < Inter * s}
  BY <1>1, ReadsBetween
<1>9. \A s \in Int : 0 <= s /\ Inter * s <= At(f) => (s < total <=> s < At(f) + 1)
  BY <1>6, <1>7
<1> QED BY <1>8, <1>9, Zenon

LEMMA ReadyType ==
    ASSUME NEW total \in Nat
    PROVE  /\ Arrived(D, total) \in Nat /\ Limit(D, total) \in Nat
           /\ \A ended \in BOOLEAN : ReadyEnd(D, total, ended) \in Nat
<1> DEFINE reach == (total * Inter) - Half
<1>1. Inter \in Nat \ {0} /\ Deci \in Nat \ {0} /\ Half \in Nat /\ total * Inter \in Nat
  BY DesignAssumption, SMT
<1>2. (total * Inter) \div Deci \in Nat
  <2>1. 0 \div Deci <= (total * Inter) \div Deci
    BY <1>1, DividesInOrder
  <2>2. 0 \div Deci = 0 /\ (total * Inter) \div Deci \in Int
    BY <1>1, Division, SMT
  <2> QED BY <2>1, <2>2
<1>3. ASSUME 0 < reach PROVE (reach + Deci - 1) \div Deci \in Nat
  <2>1. 0 \div Deci <= (reach + Deci - 1) \div Deci
    BY <1>1, <1>3, DividesInOrder
  <2>2. 0 \div Deci = 0 /\ (reach + Deci - 1) \div Deci \in Int
    BY <1>1, Division, SMT
  <2> QED BY <2>1, <2>2
<1> DEFINE limit == (total * Inter) \div Deci  whole == (reach + Deci - 1) \div Deci
<1>4. /\ Limit(D, total) = limit
      /\ Arrived(D, total) = Least(IF reach <= 0 THEN 0 ELSE whole, limit)
  BY DEF Arrived, Limit, D
<1>5. reach \in Int
  BY <1>1
<1>6. Arrived(D, total) = IF reach <= 0 THEN Least(0, limit) ELSE Least(whole, limit)
  BY <1>4, Zenon
<1> HIDE DEF reach, limit, whole
<1>7. limit \in Nat /\ (0 < reach => whole \in Nat)
  BY <1>2, <1>3 DEF limit, whole
<1>8. Arrived(D, total) \in Nat /\ Limit(D, total) \in Nat
  BY <1>4, <1>5, <1>6, <1>7 DEF Least
<1> QED BY <1>8 DEF ReadyEnd

\* More input, or its end, makes no output less ready.
LEMMA ReadyGrows ==
    ASSUME NEW t \in Nat, NEW u \in Nat, t <= u
    PROVE  /\ Arrived(D, t) <= Arrived(D, u)
           /\ Arrived(D, t) <= Limit(D, t)
<1> DEFINE reach(n) == (n * Inter) - Half
           whole(n) == (reach(n) + Deci - 1) \div Deci
           limit(n) == (n * Inter) \div Deci
<1>1. Inter \in Nat \ {0} /\ Deci \in Nat \ {0} /\ Half \in Nat /\ t * Inter \in Nat /\ u * Inter \in Nat
  BY DesignAssumption, SMT
<1>2. t * Inter <= u * Inter
  <2>1. Inter * t <= Inter * u
    BY <1>1, InOrder
  <2> QED BY <1>1, <2>1, SMT
<1>3. limit(t) <= limit(u) /\ limit(t) \in Int /\ limit(u) \in Int
  BY <1>1, <1>2, DividesInOrder, Division
<1>4. whole(t) <= whole(u) /\ whole(t) \in Int /\ whole(u) \in Int
  BY <1>1, <1>2, DividesInOrder, Division
<1>5. \A n \in {t, u} : Arrived(D, n) = Least(IF reach(n) <= 0 THEN 0 ELSE whole(n), limit(n))
  BY DEF Arrived, Limit, D
<1>6. Limit(D, t) = limit(t)
  BY DEF Limit, D
<1>7. reach(t) <= reach(u) /\ reach(t) \in Int /\ reach(u) \in Int
  BY <1>1, <1>2
<1>8. 0 < reach(u) => 0 <= whole(u)
  <2>1. 0 < reach(u) => 0 \div Deci <= whole(u)
    BY <1>1, DividesInOrder
  <2>2. 0 \div Deci = 0
    BY <1>1, Division, SMT
  <2> QED BY <2>1, <2>2
<1>9. /\ Arrived(D, t) = Least(IF reach(t) <= 0 THEN 0 ELSE whole(t), limit(t))
      /\ Arrived(D, u) = Least(IF reach(u) <= 0 THEN 0 ELSE whole(u), limit(u))
  BY <1>5
<1> DEFINE early == Arrived(D, t)  later == Arrived(D, u)  all == Limit(D, t)
<1>10. /\ early = IF reach(t) <= 0 THEN Least(0, limit(t)) ELSE Least(whole(t), limit(t))
       /\ later = IF reach(u) <= 0 THEN Least(0, limit(u)) ELSE Least(whole(u), limit(u))
       /\ all = limit(t)
  BY <1>6, <1>9, Zenon
<1> HIDE DEF reach, whole, limit, early, later, all
<1>11. early <= later /\ early <= all
  BY <1>3, <1>4, <1>7, <1>8, <1>10 DEF Least
<1> QED BY <1>11 DEF early, later, all

-----------------------------------------------------------------------------
(* The types.                                                               *)

\* Letting go moves the window up and never past its end.
LEMMA LetsGo ==
    ASSUME NEW x \in [first : Nat, held : Nat, next : Nat, ended : BOOLEAN]
    PROVE  /\ LetGo(D, x) \in [first : Nat, held : Nat, next : Nat, ended : BOOLEAN]
           /\ LetGo(D, x).next = x.next /\ LetGo(D, x).ended = x.ended
           /\ Total(LetGo(D, x)) = Total(x)
           /\ LetGo(D, x).first = x.first \/ (0 < LetGo(D, x).first /\ LetGo(D, x).first <= Lowest(D, x.next))
<1> DEFINE low == Lowest(D, x.next)  drop == Least(low - x.first, x.held)
<1>1. low \in Int
  <2>1. (x.next * Deci) + Half - Taps + Inter \in Int /\ Inter \in Nat \ {0}
    BY DesignAssumption, Closed DEF Taps
  <2>2. low = IF (x.next * Deci) + Half - Taps + Inter <= 0 THEN 0 ELSE ((x.next * Deci) + Half - Taps + Inter) \div Inter
    BY DEF Lowest, D, TapsOf, Taps
  <2> QED BY <2>1, <2>2, Division
<1>2. LetGo(D, x) = IF drop <= 0 THEN x ELSE [x EXCEPT !.held = @ - drop, !.first = @ + drop]
  BY DEF LetGo
<1>3. drop \in Int /\ drop <= low - x.first /\ drop <= x.held
  <2> HIDE DEF low
  <2> QED BY <1>1 DEF Least
<1> DEFINE y == LetGo(D, x)
<1> HIDE DEF drop, low, y
<1>0. y = IF drop <= 0 THEN x ELSE [x EXCEPT !.held = @ - drop, !.first = @ + drop]
  BY <1>2 DEF y
<1>6. /\ y \in [first : Nat, held : Nat, next : Nat, ended : BOOLEAN]
      /\ y.next = x.next /\ y.ended = x.ended
      /\ y.first + y.held = x.first + x.held
      /\ y.first = x.first \/ (0 < y.first /\ y.first <= low)
  <2>4. CASE drop <= 0
    BY <1>0, <2>4
  <2>5. CASE ~(drop <= 0)
    <3>1. y = [x EXCEPT !.held = @ - drop, !.first = @ + drop]
      BY <1>0, <2>5
    <3>2. y.first = x.first + drop /\ y.held = x.held - drop /\ y.next = x.next /\ y.ended = x.ended
      BY <3>1
    <3>3. y.first \in Nat /\ y.held \in Nat
      BY <1>1, <1>3, <2>5, <3>2
    <3>4. y \in [first : Nat, held : Nat, next : Nat, ended : BOOLEAN]
      BY <3>1, <3>2, <3>3
    <3> QED BY <1>1, <1>3, <2>5, <3>2, <3>4
  <2> QED BY <2>4, <2>5
<1> QED BY <1>6 DEF Total, y, low

LEMMA Pulls ==
    ASSUME NEW x \in [first : Nat, held : Nat, next : Nat, ended : BOOLEAN], NEW room \in Nat
    PROVE  /\ PullCount(D, x, room) \in Nat
           /\ Pulled(D, x, room) = [x EXCEPT !.next = @ + PullCount(D, x, room)]
           /\ x.next <= ReadyEnd(D, Total(x), x.ended) =>
                x.next + PullCount(D, x, room) <= ReadyEnd(D, Total(x), x.ended)
           /\ PullCount(D, x, room) > 0 =>
                x.next + PullCount(D, x, room) <= ReadyEnd(D, Total(x), x.ended)
<1> DEFINE end == ReadyEnd(D, Total(x), x.ended)
<1>1. Total(x) \in Nat /\ x.ended \in BOOLEAN
  BY DEF Total
<1>2. end \in Nat
  BY <1>1, ReadyType
<1>3. PullCount(D, x, room) = Least(Most(end - x.next, 0), room)
  BY DEF PullCount, Ready
<1> HIDE DEF end
<1>4. /\ PullCount(D, x, room) \in Nat
      /\ x.next <= end => x.next + PullCount(D, x, room) <= end
      /\ PullCount(D, x, room) > 0 => x.next + PullCount(D, x, room) <= end
  BY <1>2, <1>3 DEF Least, Most
<1> QED BY <1>4 DEF end, Pulled

LEMMA TypesKept == TypeOK /\ [Next]_vars => TypeOK'
<1> SUFFICES ASSUME TypeOK, [Next]_vars PROVE TypeOK'
  OBVIOUS
<1>1. MaxPiece \in Nat /\ r \in [first : Nat, held : Nat, next : Nat, ended : BOOLEAN]
  BY BoundsAssumption DEF TypeOK
<1>2. ASSUME NEW n \in 0..MaxPiece, Push(n) PROVE TypeOK'
  <2>1. r' = [LetGo(D, r) EXCEPT !.held = @ + n] /\ heard' = heard
    BY <1>2 DEF Push, Pushed
  <2>2. r' \in [first : Nat, held : Nat, next : Nat, ended : BOOLEAN] /\ r'.next = r.next
    BY <1>1, <2>1, LetsGo
  <2> QED BY <2>1, <2>2 DEF TypeOK
<1>3. ASSUME NEW n \in 0..MaxPiece, Pull(n) PROVE TypeOK'
  <2>1. r' = [r EXCEPT !.next = @ + PullCount(D, r, n)] /\ PullCount(D, r, n) \in Nat
    BY <1>1, <1>3, Pulls DEF Pull
  <2>2. r' \in [first : Nat, held : Nat, next : Nat, ended : BOOLEAN]
    BY <1>1, <2>1
  <2>3. DOMAIN heard' = 0..r'.next - 1
    BY <1>3 DEF Pull
  <2> QED BY <2>2, <2>3 DEF TypeOK
<1>4. ASSUME PushFails PROVE TypeOK'
  BY <1>1, <1>4, LetsGo DEF PushFails, TypeOK
<1>5. ASSUME End PROVE TypeOK'
  BY <1>1, <1>5 DEF End, Ended, TypeOK
<1>6. ASSUME UNCHANGED vars PROVE TypeOK'
  BY <1>6 DEF vars, TypeOK
<1> QED BY <1>2, <1>3, <1>4, <1>5, <1>6 DEF Next

LEMMA TypesAtFirst == Init => TypeOK
<1> SUFFICES ASSUME Init PROVE TypeOK
  OBVIOUS
<1>1. r = [first |-> 0, held |-> 0, next |-> 0, ended |-> FALSE] /\ heard = <<>>
  BY DEF Init, NewResampler
<1>2. DOMAIN heard = 1..0
  BY <1>1
<1>3. 1..0 = 0..r.next - 1
  BY <1>1
<1> QED BY <1>1, <1>2, <1>3 DEF TypeOK

(* The counts are natural, and each written frame's inputs are known.       *)
THEOREM ResamplerTypes == Spec => []TypeOK
<1>1. Init => TypeOK
  BY TypesAtFirst
<1>2. TypeOK /\ [Next]_vars => TypeOK'
  BY TypesKept
<1> QED BY <1>1, <1>2, PTL DEF Spec

-----------------------------------------------------------------------------
(* The inductive invariant: the held input covers the outputs still to      *)
(* come, no output is written before it is ready, and each was worked out   *)
(* from the whole of its input.                                             *)
Steady ==
    /\ Covered(r.first, r.next)
    /\ r.next <= ReadyEnd(D, Total(r), r.ended)
    /\ WritesTheWhole
IInv == TypeOK /\ Steady

LEMMA StaysCovered ==
    ASSUME NEW x \in [first : Nat, held : Nat, next : Nat, ended : BOOLEAN], Covered(x.first, x.next)
    PROVE  Covered(LetGo(D, x).first, x.next)
<1>1. CASE LetGo(D, x).first = x.first
  BY <1>1
<1>2. CASE 0 < LetGo(D, x).first /\ LetGo(D, x).first <= Lowest(D, x.next)
  <2> DEFINE reach == (At(x.next) - Taps) + Inter  first == LetGo(D, x).first
  <2>1. reach \in Int /\ Inter \in Nat \ {0} /\ first \in Nat
    BY DesignAssumption, AtType, LetsGo DEF Taps
  <2>2. Lowest(D, x.next) = IF reach <= 0 THEN 0 ELSE reach \div Inter
    <3>1. D.inter = Inter /\ D.deci = Deci /\ D.half = Half /\ TapsOf(D) = Taps
      BY DEF D, TapsOf, Taps
    <3>2. Lowest(D, x.next) =
            IF ((x.next * D.deci) + (D.half - TapsOf(D))) + D.inter <= 0 THEN 0
            ELSE (((x.next * D.deci) + (D.half - TapsOf(D))) + D.inter) \div D.inter
      BY Zenon DEF Lowest
    <3>3. ((x.next * Deci) + (Half - Taps)) + Inter = reach
      BY DesignAssumption, Closed DEF At, Taps
    <3> QED BY <3>1, <3>2, <3>3, Zenon
  <2>3. first <= reach \div Inter /\ reach \div Inter \in Int
    <3>1. reach \div Inter \in Int
      BY <2>1, Division
    <3> HIDE DEF reach
    <3> QED BY <1>2, <2>1, <2>2, <3>1
  <2>4. Inter * (reach \div Inter) <= reach
    <3> HIDE DEF reach
    <3>1. reach \div Inter \in Int /\ reach % Inter \in 0..Inter - 1
          /\ Inter * (reach \div Inter) + (reach % Inter) = reach
      BY <2>1, Division
    <3> DEFINE m == Inter * (reach \div Inter)  k == reach % Inter
    <3>2. m \in Int /\ k \in 0..Inter - 1 /\ m + k = reach
      BY <2>1, <3>1, Closed
    <3> HIDE DEF m, k
    <3>3. m <= reach
      BY <2>1, <3>2
    <3> QED BY <3>3 DEF m
  <2>5. Inter * first <= Inter * (reach \div Inter)
    BY <2>1, <2>3, InOrder
  <2> HIDE DEF first, reach
  <2>6. Inter * first <= reach
    BY <2>1, <2>3, <2>4, <2>5, Closed
  <2> QED BY <2>6 DEF Covered, first, reach
<1> QED BY <1>1, <1>2, LetsGo

\* The outputs written before the end read what the whole conversion reads.
LEMMA EndIsWhole ==
    ASSUME TypeOK, Steady, ~r.ended, NEW f \in 0..r.next - 1
    PROVE  heard[f] = Heard(D, 0, Total(r), f)
<1>1. r.next \in Nat /\ Total(r) \in Nat /\ Arrived(D, Total(r)) \in Nat
  <2>1. r.next \in Nat /\ Total(r) \in Nat
    BY DEF TypeOK, Total
  <2> QED BY <2>1, ReadyType
<1>2. r.ended = FALSE
  BY DEF TypeOK
<1>3. heard[f] = Heard(D, 0, At(f) + 1, f)
  BY <1>2 DEF Steady, WritesTheWhole, At
<1>4. f \in Nat /\ f < Arrived(D, Total(r))
  BY <1>1, <1>2 DEF Steady, ReadyEnd
<1> QED BY <1>1, <1>3, <1>4, ReadyReads

LEMMA SteadyKept == IInv /\ [Next]_vars => Steady'
<1> SUFFICES ASSUME TypeOK, Steady, [Next]_vars PROVE Steady'
  BY DEF IInv
<1>1. MaxPiece \in Nat /\ r \in [first : Nat, held : Nat, next : Nat, ended : BOOLEAN] /\ Total(r) \in Nat
  BY BoundsAssumption DEF TypeOK, Total
<1>2. ASSUME r' \in [first : Nat, held : Nat, next : Nat, ended : BOOLEAN], ~r.ended, r'.ended = r.ended, r'.next = r.next,
             r'.first = LetGo(D, r).first, Total(r') \in Nat, Total(r) <= Total(r'), heard' = heard
      PROVE  Steady'
  <2>1. Covered(r'.first, r'.next)
    BY <1>1, <1>2, StaysCovered DEF Steady
  <2>2. r.ended = FALSE /\ r'.ended = FALSE
    BY <1>1, <1>2
  <2>3. r'.next <= Arrived(D, Total(r'))
    <3>1. r.next <= Arrived(D, Total(r))
      BY <2>2 DEF Steady, ReadyEnd
    <3>2. Arrived(D, Total(r)) <= Arrived(D, Total(r'))
      BY <1>1, <1>2, ReadyGrows
    <3>3. Arrived(D, Total(r)) \in Nat /\ Arrived(D, Total(r')) \in Nat
      BY <1>1, <1>2, ReadyType
    <3> QED BY <1>1, <1>2, <3>1, <3>2, <3>3
  <2>4. \A f \in 0..r.next - 1 : heard[f] = Heard(D, 0, f * Deci + Half + 1, f)
    BY <2>2 DEF Steady, WritesTheWhole
  <2>5. WritesTheWhole'
    BY <1>2, <2>2, <2>4 DEF WritesTheWhole
  <2> QED BY <2>1, <2>2, <2>3, <2>5 DEF Steady, ReadyEnd
<1>3. ASSUME NEW n \in 0..MaxPiece, Push(n) PROVE Steady'
  <2>1. r' = [LetGo(D, r) EXCEPT !.held = @ + n] /\ heard' = heard /\ ~r.ended
    BY <1>3 DEF Push, Pushed
  <2>2. LetGo(D, r) \in [first : Nat, held : Nat, next : Nat, ended : BOOLEAN]
        /\ LetGo(D, r).next = r.next /\ LetGo(D, r).ended = r.ended /\ Total(LetGo(D, r)) = Total(r)
    BY <1>1, LetsGo
  <2>3. /\ r' \in [first : Nat, held : Nat, next : Nat, ended : BOOLEAN]
        /\ r'.ended = r.ended /\ r'.next = r.next /\ r'.first = LetGo(D, r).first
        /\ Total(r') = Total(r) + n
    BY <1>1, <2>1, <2>2 DEF Total
  <2> QED BY <1>1, <1>2, <2>1, <2>3
<1>4. ASSUME PushFails PROVE Steady'
  <2>1. r' = LetGo(D, r) /\ heard' = heard /\ ~r.ended
    BY <1>4 DEF PushFails
  <2>2. /\ r' \in [first : Nat, held : Nat, next : Nat, ended : BOOLEAN]
        /\ r'.next = r.next /\ r'.ended = r.ended /\ Total(r') = Total(r)
    BY <1>1, <2>1, LetsGo
  <2> QED BY <1>1, <1>2, <2>1, <2>2
<1>5. ASSUME End PROVE Steady'
  <2>1. r' = [r EXCEPT !.ended = TRUE] /\ heard' = heard
    BY <1>5 DEF End, Ended
  <2>2. r'.first = r.first /\ r'.next = r.next /\ r'.ended = TRUE /\ Total(r') = Total(r)
    BY <1>1, <2>1 DEF Total
  <2>3. r.next <= Limit(D, Total(r))
    <3>1. CASE r.ended
      BY <1>1, <3>1 DEF Steady, ReadyEnd
    <3>2. CASE ~r.ended
      <4>1. r.ended = FALSE
        BY <1>1, <3>2
      <4>2. r.next <= Arrived(D, Total(r))
        BY <4>1 DEF Steady, ReadyEnd
      <4>3. Arrived(D, Total(r)) <= Limit(D, Total(r))
        BY <1>1, ReadyGrows
      <4>4. Arrived(D, Total(r)) \in Nat /\ Limit(D, Total(r)) \in Nat
        BY <1>1, ReadyType
      <4> QED BY <1>1, <4>2, <4>3, <4>4
    <3> QED BY <3>1, <3>2
  <2>4. \A f \in 0..r.next - 1 : heard[f] = Heard(D, 0, Total(r), f)
    <3>1. CASE r.ended
      BY <3>1 DEF Steady, WritesTheWhole
    <3>2. CASE ~r.ended
      BY <3>2, EndIsWhole
    <3> QED BY <3>1, <3>2
  <2> QED BY <2>1, <2>2, <2>3, <2>4 DEF Steady, WritesTheWhole, ReadyEnd
<1>6. ASSUME NEW n \in 0..MaxPiece, Pull(n) PROVE Steady'
  <2> DEFINE count == PullCount(D, r, n)
  <2>1. r' = [r EXCEPT !.next = @ + count] /\ count \in Nat
        /\ (r.next <= ReadyEnd(D, Total(r), r.ended) => r.next + count <= ReadyEnd(D, Total(r), r.ended))
    BY <1>1, <1>6, Pulls DEF Pull
  <2> HIDE DEF count
  <2>2. r'.first = r.first /\ r'.next = r.next + count /\ r'.ended = r.ended /\ Total(r') = Total(r)
    BY <1>1, <2>1 DEF Total
  <2>3. r'.next <= ReadyEnd(D, Total(r), r.ended)
    BY <2>1, <2>2 DEF Steady
  <2>4. Covered(r.first, r'.next)
    <3>1. At(r.next) <= At(r'.next) /\ At(r.next) \in Int /\ At(r'.next) \in Int
      <4>1. Deci * r.next <= Deci * (r.next + count)
        BY <1>1, <2>1, DesignAssumption, InOrder
      <4>2. r.next * Deci = Deci * r.next /\ (r.next + count) * Deci = Deci * (r.next + count)
        BY <1>1, <2>1, DesignAssumption, SMT
      <4>3. r.next * Deci <= (r.next + count) * Deci
        BY <4>1, <4>2
      <4>4. r.next * Deci \in Int /\ (r.next + count) * Deci \in Int
        BY <1>1, <2>1, DesignAssumption, Closed
      <4> QED BY <2>2, <4>3, <4>4, DesignAssumption DEF At
    <3>2. Inter * r.first \in Int /\ Taps \in Int /\ Inter \in Int
      BY <1>1, DesignAssumption, Closed DEF Taps
    <3>3. Covered(r.first, r.next)
      BY DEF Steady
    <3> QED BY <3>1, <3>2, <3>3 DEF Covered
  <2>5. ASSUME NEW f \in 0..r'.next - 1
        PROVE  heard'[f] = Heard(D, 0, IF r.ended THEN Total(r) ELSE f * Deci + Half + 1, f)
    <3>1. heard'[f] = IF f < r.next THEN heard[f] ELSE Heard(D, r.first, Total(r), f)
      BY <1>6 DEF Pull
    <3>2. CASE f < r.next
      <4>1. f \in 0..r.next - 1
        BY <1>1, <3>2
      <4> QED BY <3>1, <3>2, <4>1 DEF Steady, WritesTheWhole
    <3>3. CASE ~(f < r.next)
      <4>1. f \in Nat /\ r.next <= f /\ r.first \in Nat
        BY <1>1, <3>3
      <4>2. Heard(D, r.first, Total(r), f) = Heard(D, 0, Total(r), f)
        BY <1>1, <4>1, CoveredReads DEF Steady
      <4>3. CASE r.ended
        BY <3>1, <3>3, <4>2, <4>3
      <4>4. CASE ~r.ended
        <5>1. r.ended = FALSE
          BY <1>1, <4>4
        <5>2. f < Arrived(D, Total(r))
          <6>1. Arrived(D, Total(r)) \in Nat
            BY <1>1, ReadyType
          <6>2. r'.next <= Arrived(D, Total(r))
            BY <2>3, <5>1 DEF ReadyEnd
          <6> QED BY <1>1, <2>1, <2>2, <4>1, <6>1, <6>2
        <5>3. Heard(D, 0, Total(r), f) = Heard(D, 0, At(f) + 1, f)
          BY <1>1, <4>1, <5>2, ReadyReads
        <5> QED BY <3>1, <3>3, <4>2, <4>4, <5>3 DEF At
      <4> QED BY <4>3, <4>4
    <3> QED BY <3>2, <3>3
  <2>6. WritesTheWhole'
    BY <2>2, <2>5 DEF WritesTheWhole
  <2> QED BY <2>2, <2>3, <2>4, <2>6 DEF Steady
<1>7. ASSUME UNCHANGED vars PROVE Steady'
  BY <1>7 DEF vars, Steady, WritesTheWhole
<1> QED BY <1>3, <1>4, <1>5, <1>6, <1>7 DEF Next

LEMMA SteadyAtFirst == Init => IInv
<1> SUFFICES ASSUME Init PROVE IInv
  OBVIOUS
<1>1. TypeOK
  BY TypesAtFirst
<1>2. r.first = 0 /\ r.next = 0 /\ r.ended = FALSE /\ Total(r) = 0
  BY DEF Init, NewResampler, Total
<1>3. 0 <= ReadyEnd(D, Total(r), r.ended)
  <2>1. Arrived(D, 0) \in Nat
    BY ReadyType
  <2> QED BY <1>2, <2>1 DEF ReadyEnd
<1>4. 0..r.next - 1 = {}
  BY <1>2
<1> QED BY <1>1, <1>2, <1>3, <1>4 DEF IInv, Steady, Covered, WritesTheWhole

LEMMA SteadyAlways == Spec => []IInv
<1>1. IInv /\ [Next]_vars => IInv'
  BY TypesKept, SteadyKept DEF IInv
<1> QED BY <1>1, SteadyAtFirst, PTL DEF Spec

(* Fed in pieces a sound converts as it converts whole (run, ready_end,     *)
(* let_go).                                                                 *)
THEOREM PiecesAreTheWhole == Spec => []WritesTheWhole
<1>1. IInv => WritesTheWhole
  BY DEF IInv, Steady
<1> QED BY <1>1, SteadyAlways, PTL

(* Ended and pulled dry it has written every frame of the whole conversion. *)
THEOREM AllOfIt == Spec => []WritesItAll
<1>1. IInv => WritesItAll
  <2> SUFFICES ASSUME IInv, r.ended, Ready(D, r) = 0 PROVE r.next = (Total(r) * Inter) \div Deci
    BY DEF WritesItAll
  <2>1. r.next \in Nat /\ Total(r) \in Nat /\ r.ended = TRUE
    BY DEF IInv, TypeOK, Total
  <2> DEFINE end == Limit(D, Total(r))
  <2>2. end \in Nat /\ r.next <= end /\ Most(end - r.next, 0) = 0
    BY <2>1, ReadyType DEF IInv, Steady, Ready, ReadyEnd
  <2>3. end = (Total(r) * Inter) \div Deci
    BY DEF Limit, D
  <2> HIDE DEF end
  <2>4. r.next = end
    BY <2>1, <2>2 DEF Most
  <2> QED BY <2>3, <2>4
<1> QED BY <1>1, SteadyAlways, PTL
=============================================================================
