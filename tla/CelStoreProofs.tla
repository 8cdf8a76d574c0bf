--------------------------- MODULE CelStoreProofs ---------------------------
(***************************************************************************)
(* What the cel store promises, proved for every set of cels, pictures and *)
(* places, every budget and every number of workers.                       *)
(***************************************************************************)
EXTENDS CelStore, SequenceTheorems, FiniteSetTheorems, TLAPS

\* The order of use s lists exactly the cels hot in h, once each.
Listing(h, s) ==
    /\ {s[i] : i \in 1..Len(s)} = {k \in Cel : h[k] # None}
    /\ \A i, j \in 1..Len(s) : s[i] = s[j] => i = j

Coolings == {CoolIdle, CoolEnded} \cup {Compress(k, p) : k \in Cel, p \in Pic}
Thawings == {NoThaw, Queued} \cup {Decoding(r, p) : r \in Ref, p \in Pic}

-----------------------------------------------------------------------------
(* The hot tier's order.                                                    *)

\* Taking a cel out of the order leaves the others, once each.
LEMMA WithoutLists ==
    ASSUME NEW h \in [Cel -> Pic \cup {None}], NEW s \in Seq(Cel), Listing(h, s),
           NEW k \in Cel
    PROVE  /\ Without(s, k) \in Seq(Cel)
           /\ Listing([h EXCEPT ![k] = None], Without(s, k))
<1> DEFINE w == Without(s, k)
<1>0. Len(s) \in Nat /\ \A i \in 1..Len(s) : s[i] \in Cel
  BY ElementOfSeq, LenProperties
<1>1. CASE ~\E i \in 1..Len(s) : s[i] = k
  <2>1. w = s
    BY <1>1 DEF Without
  <2>2. h[k] = None
    BY <1>1 DEF Listing
  <2>3. [h EXCEPT ![k] = None] = h
    BY <2>2
  <2> QED
    BY <2>1, <2>3
<1>2. CASE \E i \in 1..Len(s) : s[i] = k
  <2> DEFINE i == IndexIn(s, k)
  <2>1. i \in 1..Len(s) /\ s[i] = k
    BY <1>2 DEF IndexIn
  <2>2. w = [j \in 1..(Len(s) - 1) |-> IF j < i THEN s[j] ELSE s[j + 1]]
    BY <1>2 DEF Without
  <2> HIDE DEF i
  <2>3. Len(s) - 1 \in Nat
    BY <1>0, <2>1
  <2>4. \A j \in 1..(Len(s) - 1) : (IF j < i THEN s[j] ELSE s[j + 1]) \in Cel
    BY <1>0, <2>1
  <2>5. w \in Seq(Cel) /\ Len(w) = Len(s) - 1
    <3>1. w \in Seq(Cel)
      BY <2>2, <2>3, <2>4, IsASeq
    <3>2. DOMAIN w = 1..Len(w) /\ DOMAIN w = 1..(Len(s) - 1) /\ Len(w) \in Nat
      BY <3>1, <2>2, LenProperties
    <3> QED
      BY <3>1, <3>2, <2>3
  <2> HIDE DEF w
  <2>6. \A j \in 1..Len(w) : w[j] = IF j < i THEN s[j] ELSE s[j + 1]
    BY <2>2, <2>5
  <2>7. \A j \in 1..Len(w) : w[j] # k
    BY <2>6, <2>1, <2>5, <1>0 DEF Listing
  <2>8. \A m \in 1..Len(s) : s[m] # k => \E j \in 1..Len(w) : w[j] = s[m]
    <3> SUFFICES ASSUME NEW m \in 1..Len(s), s[m] # k
                 PROVE  \E j \in 1..Len(w) : w[j] = s[m]
      OBVIOUS
    <3>1. CASE m < i
      BY <3>1, <2>6, <2>5, <2>1, <1>0
    <3>2. CASE m > i
      <4>1. m - 1 \in 1..Len(w) /\ w[m - 1] = s[m]
        BY <3>2, <2>6, <2>5, <2>1, <1>0
      <4> QED
        BY <4>1
    <3> QED
      BY <3>1, <3>2, <2>1, <1>0
  <2>9. \A j \in 1..Len(w) : \E m \in 1..Len(s) : w[j] = s[m]
    BY <2>6, <2>5, <2>1, <1>0
  <2>10. {w[j] : j \in 1..Len(w)} = {c \in Cel : [h EXCEPT ![k] = None][c] # None}
    <3>1. {w[j] : j \in 1..Len(w)} = {s[m] : m \in 1..Len(s)} \ {k}
      BY <2>7, <2>8, <2>9
    <3>2. {c \in Cel : [h EXCEPT ![k] = None][c] # None} = {c \in Cel : h[c] # None} \ {k}
      OBVIOUS
    <3> QED
      BY <3>1, <3>2 DEF Listing
  <2>11. \A j, m \in 1..Len(w) : w[j] = w[m] => j = m
    BY <2>6, <2>5, <2>1, <1>0 DEF Listing
  <2> QED
    BY <2>5, <2>10, <2>11 DEF Listing, w
<1> QED
  BY <1>1, <1>2

\* A cel made or used as the newest is listed last.
LEMMA NewestLists ==
    ASSUME NEW h \in [Cel -> Pic \cup {None}], NEW s \in Seq(Cel), Listing(h, s),
           NEW k \in Cel, NEW p \in Pic
    PROVE  /\ Newest(s, k) \in Seq(Cel)
           /\ Listing([h EXCEPT ![k] = p], Newest(s, k))
<1> DEFINE w == Without(s, k)
<1>1. w \in Seq(Cel) /\ Listing([h EXCEPT ![k] = None], w)
  BY WithoutLists
<1> HIDE DEF w
<1> DEFINE n == Append(w, k)
<1>2. /\ n \in Seq(Cel)
      /\ Len(n) = Len(w) + 1
      /\ \A i \in 1..Len(w) : n[i] = w[i]
      /\ n[Len(w) + 1] = k
  BY <1>1, AppendProperties
<1> HIDE DEF n
<1>3. Len(w) \in Nat
  BY <1>1, LenProperties
<1>4. \A i \in 1..Len(w) : w[i] # k /\ w[i] \in Cel
  BY <1>1, ElementOfSeq DEF Listing
<1>5. None \notin Pic
  BY TokenAssumption
<1>6. {n[i] : i \in 1..Len(n)} = {w[i] : i \in 1..Len(w)} \cup {k}
  BY <1>2, <1>3
<1>7. {c \in Cel : [h EXCEPT ![k] = p][c] # None}
      = {c \in Cel : [h EXCEPT ![k] = None][c] # None} \cup {k}
  BY <1>5
<1>8. \A i, j \in 1..Len(n) : n[i] = n[j] => i = j
  BY <1>1, <1>2, <1>3, <1>4 DEF Listing
<1>9. Listing([h EXCEPT ![k] = p], n)
  BY <1>1, <1>6, <1>7, <1>8 DEF Listing
<1> QED
  BY <1>2, <1>9 DEF Newest, n, w

-----------------------------------------------------------------------------
(* The cooling pass up to its next await.                                   *)

\* The places dropped for free are the first ones of the order.
LEMMA FreeDropsFirst ==
    ASSUME NEW s \in Seq(Cel)
    PROVE  /\ Cardinality(FreeDrops(s)) \in 0..Len(s)
           /\ FreeDrops(s) = 1..Cardinality(FreeDrops(s))
<1> DEFINE D == FreeDrops(s)
           n == Cardinality(D)
<1>0. Len(s) \in Nat
  BY LenProperties
<1>1. D \in SUBSET (1..Len(s))
  BY DEF FreeDrops
<1>2. IsFiniteSet(1..Len(s)) /\ Cardinality(1..Len(s)) = Len(s)
  <2>1. Len(s) \in Int /\ 1 \in Int
    BY <1>0
  <2> QED
    BY <2>1, <1>0, FS_Interval
<1>3. IsFiniteSet(D) /\ n <= Len(s)
  BY <1>1, <1>2, FS_Subset
<1>4. n \in Nat
  BY <1>3, FS_CardinalityType
<1>5. \A i \in D : 1..i \subseteq D
  BY <1>0 DEF FreeDrops
<1> HIDE DEF D
<1>6. \A i \in D : i <= n
  <2> SUFFICES ASSUME NEW i \in D PROVE i <= n
    OBVIOUS
  <2>1. i \in Nat \ {0} /\ 1 \in Int /\ i \in Int
    BY <1>1, <1>0
  <2>2. Cardinality(1..i) = i
    BY <2>1, FS_Interval
  <2>3. 1..i \in SUBSET D
    BY <1>5
  <2>4. Cardinality(1..i) <= Cardinality(D)
    BY <2>3, <1>3, FS_Subset
  <2> QED
    BY <2>2, <2>4
<1>7. D \in SUBSET (1..n)
  BY <1>6, <1>1, <1>0, <1>4
<1>8. IsFiniteSet(1..n) /\ Cardinality(1..n) = n
  <2>1. n \in Int /\ 1 \in Int
    BY <1>4
  <2> QED
    BY <2>1, <1>4, FS_Interval
<1>9. D = 1..n
  BY <1>7, <1>8, FS_Subset
<1> QED
  BY <1>9, <1>3, <1>4, <1>0 DEF D

\* What a run of the pass leaves: the order lists what is still hot, and a cel
\* let go of is one the saved file holds.
Cooled(h) ==
    /\ hot' \in [Cel -> Pic \cup {None}]
    /\ order' \in Seq(Cel)
    /\ Listing(hot', order')
    /\ cooling' \in Coolings
    /\ \A k \in Cel : hot'[k] = h[k] \/ (hot'[k] = None /\ fileRef'[k] # None)

LEMMA CoolLoopCools ==
    ASSUME NEW h \in [Cel -> Pic \cup {None}], NEW s \in Seq(Cel), Listing(h, s),
           CoolLoop(h, s)
    PROVE  Cooled(h)
<1> DEFINE n == Cardinality(FreeDrops(s))
           rest == SubSeq(s, n + 1, Len(s))
<1>0. Len(s) \in Nat /\ \A i \in 1..Len(s) : s[i] \in Cel /\ h[s[i]] \in Pic
  <2>1. Len(s) \in Nat /\ \A i \in 1..Len(s) : s[i] \in Cel
    BY ElementOfSeq, LenProperties
  <2>2. \A i \in 1..Len(s) : h[s[i]] # None
    BY DEF Listing
  <2> QED
    BY <2>1, <2>2
<1>1. n \in 0..Len(s) /\ FreeDrops(s) = 1..n
  BY FreeDropsFirst
<1>2. \A i \in 1..n : fileRef'[s[i]] # None
  <2>1. \A i \in FreeDrops(s) : fileRef'[s[i]] # None
    BY <1>0 DEF FreeDrops
  <2> QED
    BY <2>1, <1>1
<1>3. /\ hot' = [k \in Cel |-> IF \E i \in 1..n : s[i] = k THEN None ELSE h[k]]
      /\ order' = rest
      /\ cooling' = IF Over(Len(rest)) THEN Compress(rest[1], h[rest[1]]) ELSE CoolEnded
  BY <1>1 DEF CoolLoop
<1> HIDE DEF n
<1>4. /\ rest \in Seq(Cel)
      /\ Len(rest) = Len(s) - n
      /\ \A j \in 1..Len(rest) : rest[j] = s[n + j]
  <2>1. n + 1 \in Int /\ Len(s) \in Int /\ \A i \in (n + 1)..Len(s) : s[i] \in Cel
    BY <1>0, <1>1
  <2>2. /\ rest \in Seq(Cel)
        /\ Len(rest) = IF n + 1 <= Len(s) THEN Len(s) - (n + 1) + 1 ELSE 0
        /\ \A j \in 1..(Len(s) - (n + 1) + 1) : rest[j] = s[n + 1 + j - 1]
    BY <2>1, SubSeqProperties
  <2> QED
    BY <2>2, <1>0, <1>1
<1> HIDE DEF rest
<1>5. Listing(hot', order')
  <2>1. \A i, j \in 1..Len(rest) : rest[i] = rest[j] => i = j
    <3> SUFFICES ASSUME NEW i \in 1..Len(rest), NEW j \in 1..Len(rest), rest[i] = rest[j]
                 PROVE  i = j
      OBVIOUS
    <3>1. n + i \in 1..Len(s) /\ n + j \in 1..Len(s) /\ s[n + i] = s[n + j]
      BY <1>0, <1>1, <1>4
    <3>2. n + i = n + j
      BY <3>1 DEF Listing
    <3> QED
      BY <3>2, <1>0, <1>1, <1>4
  <2>2. \A j \in 1..Len(rest) : rest[j] \in Cel /\ hot'[rest[j]] # None
    <3> SUFFICES ASSUME NEW j \in 1..Len(rest)
                 PROVE  rest[j] \in Cel /\ hot'[rest[j]] # None
      OBVIOUS
    <3>1. n + j \in 1..Len(s) /\ rest[j] = s[n + j]
      BY <1>0, <1>1, <1>4
    <3>2. ~\E i \in 1..n : s[i] = s[n + j]
      BY <3>1, <1>0, <1>1 DEF Listing
    <3>3. h[s[n + j]] # None /\ s[n + j] \in Cel
      BY <3>1, <1>0, TokenAssumption
    <3> QED
      BY <3>1, <3>2, <3>3, <1>3
  <2>3. \A k \in Cel : hot'[k] # None => \E j \in 1..Len(rest) : rest[j] = k
    <3> SUFFICES ASSUME NEW k \in Cel, hot'[k] # None
                 PROVE  \E j \in 1..Len(rest) : rest[j] = k
      OBVIOUS
    <3>1. h[k] # None /\ ~\E i \in 1..n : s[i] = k
      BY <1>3
    <3>2. PICK i \in 1..Len(s) : s[i] = k
      BY <3>1 DEF Listing
    <3>3. i - n \in 1..Len(rest) /\ rest[i - n] = k
      BY <3>1, <3>2, <1>0, <1>1, <1>4
    <3> QED
      BY <3>3
  <2>4. {rest[j] : j \in 1..Len(rest)} = {k \in Cel : hot'[k] # None}
    BY <2>2, <2>3
  <2>5. Listing(hot', rest)
    BY <2>1, <2>4 DEF Listing
  <2> QED
    BY <2>5, <1>3
<1>6. cooling' \in Coolings
  <2>1. CASE Over(Len(rest))
    <3>1. 1 \in 1..Len(rest) /\ n + 1 \in 1..Len(s)
      BY <2>1, <1>0, <1>1, <1>4 DEF Over
    <3>2. rest[1] \in Cel /\ h[rest[1]] \in Pic
      BY <3>1, <1>0, <1>4
    <3> QED
      BY <3>2, <2>1, <1>3 DEF Coolings
  <2>2. CASE ~Over(Len(rest))
    BY <2>2, <1>3 DEF Coolings
  <2> QED
    BY <2>1, <2>2
<1>7. hot' \in [Cel -> Pic \cup {None}]
  BY <1>3
<1>8. \A k \in Cel : hot'[k] = h[k] \/ (hot'[k] = None /\ fileRef'[k] # None)
  BY <1>2, <1>3
<1> QED
  BY <1>3, <1>4, <1>5, <1>6, <1>7, <1>8 DEF Cooled

LEMMA ScheduleCools ==
    ASSUME NEW h \in [Cel -> Pic \cup {None}], NEW s \in Seq(Cel), Listing(h, s),
           NEW c \in Coolings, ScheduleCooling(c, h, s)
    PROVE  Cooled(h)
<1>1. CASE hot' = h /\ order' = s /\ cooling' = c
  BY <1>1 DEF Cooled
<1>2. CASE CoolLoop(h, s)
  BY <1>2, CoolLoopCools
<1> QED
  BY <1>1, <1>2 DEF ScheduleCooling

-----------------------------------------------------------------------------
(* The inductive invariant.                                                 *)

\* A parked cel's file is its own, given out, on disk and not to be removed;
\* what is on disk in the room is some cel's or on its way out.
ParksHold ==
    /\ leaving \subseteq worn
    /\ \A f \in Park : bytes[f] # None => f \in leaving \/ \E k \in Cel : cold[k] = f
    /\ \A k \in Cel : cold[k] # None =>
         /\ cold[k] \in worn /\ cold[k] \notin leaving /\ bytes[cold[k]] \in Pic
         /\ \A j \in Cel : cold[j] = cold[k] => j = k

\* What a cel's ref reads in the saved file is a picture.
RefsHold == \A k \in Cel : fileRef[k] # None => bytes[fileRef[k]] \in Pic

\* The refs the cels hold into the saved file.
Held == {fileRef[k] : k \in Cel} \cup {None}

\* A thaw on a worker decodes what its ref still holds, or a park removed.
ThawsTrue ==
    \A k \in Cel, r \in Ref, p \in Pic : thawing[k] = Decoding(r, p) =>
        /\ bytes[r] \in {p, None}
        /\ r \in Park => r \in worn

\* What a reader is given by hot tier h, parks c, refs f and disk b.
ReadOf(h, c, f, b, k) ==
    IF h[k] # None THEN h[k]
    ELSE IF c[k] # None THEN b[c[k]]
    ELSE IF f[k] # None THEN b[f[k]] ELSE None

\* With marks d, no half of a resize was refused under cel k: a pass that is
\* refused its second write has marked the cel for the first.
Sure(d, k) == ~RoomFills \/ d[k] = 0

\* TiersAgree of any tiers, of the cels no resize left in halves.
Agree(h, c, f, b, d) ==
    \A k \in Cel :
        /\ h[k] # None => c[k] = None
        /\ f[k] # None /\ Sure(d, k) => b[f[k]] = ReadOf(h, c, f, b, k)

\* After the step those cels read as m says.
Becomes(m) == \A k \in Cel : Sure(dirty', k) => Reads'[k] = m[k]

HotHolds ==
    /\ hot \in [Cel -> Pic \cup {None}]
    /\ order \in Seq(Cel)
    /\ Listing(hot, order)
    /\ cooling \in Coolings

DiskHolds ==
    /\ cold \in [Cel -> Park \cup {None}]
    /\ fileRef \in [Cel -> Slot \cup {None}]
    /\ bytes \in [Ref -> Pic \cup {None}]
    /\ worn \subseteq Park /\ leaving \subseteq Park
    /\ ParksHold
    /\ RefsHold

MarksHold ==
    /\ dirty \in [Cel -> Nat] /\ tick \in Nat /\ \A k \in Cel : dirty[k] <= tick
    /\ content \subseteq Cel
    /\ budget \in FloorBudget..NormalBudget /\ stoodDown \in BOOLEAN
    /\ filed \in [Cel -> Pic \cup {None}]

ThawsHold ==
    /\ thawing \in [Cel -> Thawings]
    /\ line \in Seq(Cel)
    /\ ThawsTrue

IInv ==
    /\ HotHolds
    /\ DiskHolds
    /\ MarksHold
    /\ ThawsHold
    /\ Agree(hot, cold, fileRef, bytes, dirty)

\* A reader sees exactly the tiers.
LEMMA ReadsAre ==
    Reads = [k \in Cel |-> ReadOf(hot, cold, fileRef, bytes, k)]
<1>1. \A k \in Cel : Current(k) = ReadOf(hot, cold, fileRef, bytes, k)
  BY DEF Current, Kept, ReadOf
<1> QED
  BY <1>1 DEF Reads

\* Whatever a cel reads as is a picture.
LEMMA ReadsArePics ==
    ASSUME IInv, NEW k \in Cel, Reads[k] # None
    PROVE  Reads[k] \in Pic
<1>1. Reads[k] = ReadOf(hot, cold, fileRef, bytes, k)
  BY ReadsAre
<1> QED
  BY <1>1 DEF IInv, HotHolds, DiskHolds, ParksHold, RefsHold, ReadOf

\* The invariant says what the runs check.
LEMMA IInvImplies ==
    IInv => TypeOK /\ KeptReadable /\ OrderIsHot /\ NoOrphanPark /\ (~RoomFills => TiersAgree)
<1> SUFFICES ASSUME IInv
             PROVE  TypeOK /\ KeptReadable /\ OrderIsHot /\ NoOrphanPark /\ (~RoomFills => TiersAgree)
  OBVIOUS
<1>1. TypeOK
  BY DEF IInv, HotHolds, DiskHolds, MarksHold, ThawsHold, TypeOK, Coolings, Thawings
<1>2. KeptReadable
  <2>1. \A k \in Cel : fileRef[k] # None => fileRef[k] \in Slot
    BY <1>1 DEF TypeOK
  <2> QED
    BY <2>1, TokenAssumption DEF IInv, DiskHolds, KeptReadable, ParksHold, RefsHold
<1>3. ~RoomFills => TiersAgree
  BY DEF IInv, Agree, Sure, ReadOf, TiersAgree, Current, Kept
<1>4. OrderIsHot
  BY DEF IInv, HotHolds, Listing, OrderIsHot
<1>5. NoOrphanPark
  BY DEF IInv, DiskHolds, ParksHold, NoOrphanPark
<1> QED
  BY <1>1, <1>2, <1>3, <1>4, <1>5

\* What a pass lets go of, the tiers below still give.
LEMMA CooledAgrees ==
    ASSUME NEW h \in [Cel -> Pic \cup {None}], Cooled(h),
           Agree(h, cold', fileRef', bytes', dirty')
    PROVE  /\ Agree(hot', cold', fileRef', bytes', dirty')
           /\ Becomes([k \in Cel |-> ReadOf(h, cold', fileRef', bytes', k)])
<1>1. \A k \in Cel : Sure(dirty', k) =>
        ReadOf(hot', cold', fileRef', bytes', k) = ReadOf(h, cold', fileRef', bytes', k)
  BY DEF Cooled, Agree, ReadOf
<1>2. Agree(hot', cold', fileRef', bytes', dirty')
  BY <1>1 DEF Cooled, Agree
<1>3. \A k \in Cel : Current(k)' = ReadOf(hot', cold', fileRef', bytes', k)
  BY DEF Current, Kept, ReadOf
<1> QED
  BY <1>1, <1>2, <1>3 DEF Reads, Becomes

\* The hot tier and the pass, moved by a pass over h.
LEMMA CooledHolds ==
    ASSUME NEW h \in [Cel -> Pic \cup {None}], Cooled(h),
           Agree(h, cold', fileRef', bytes', dirty'),
           DiskHolds', MarksHold', ThawsHold'
    PROVE  /\ IInv'
           /\ Becomes([k \in Cel |-> ReadOf(h, cold', fileRef', bytes', k)])
<1>1. HotHolds'
  BY DEF Cooled, HotHolds
<1> QED
  BY <1>1, CooledAgrees DEF IInv

\* Letting a cel's park go.
LEMMA DropColdHolds ==
    ASSUME DiskHolds, NEW k \in Cel, DropCold(k), UNCHANGED <<bytes, worn>>,
           fileRef' \in [Cel -> Held]
    PROVE  /\ cold' = [cold EXCEPT ![k] = None]
           /\ DiskHolds'
<1> USE TokenAssumption
<1>1. cold' = [cold EXCEPT ![k] = None] /\ leaving' = leaving \cup ({cold[k]} \ {None})
  BY DEF DropCold, LetGo
<1>2. cold \in [Cel -> Park \cup {None}] /\ leaving \subseteq Park /\ ParksHold
  BY DEF DiskHolds
<1>3. cold' \in [Cel -> Park \cup {None}] /\ leaving' \subseteq Park
  BY <1>1, <1>2
<1>4. ParksHold'
  BY <1>1, <1>2 DEF ParksHold
<1>5. fileRef' \in [Cel -> Slot \cup {None}] /\ RefsHold'
  BY DEF DiskHolds, RefsHold, Held
<1> QED
  BY <1>1, <1>3, <1>4, <1>5 DEF DiskHolds

\* Parking a picture under a name never given out before.
LEMMA KeepColdHolds ==
    ASSUME DiskHolds, NEW k \in Cel, NEW f \in Park \ worn, NEW p \in Pic,
           KeepCold(k, f, p), fileRef' \in [Cel -> Held]
    PROVE  /\ cold' = [cold EXCEPT ![k] = f]
           /\ bytes' = [bytes EXCEPT ![f] = p]
           /\ f \in Ref \ Slot
           /\ \A c \in Cel : cold[c] # f
           /\ DiskHolds'
           /\ ThawsHold /\ UNCHANGED thaws => ThawsHold'
<1> USE TokenAssumption
<1>1. /\ worn' = worn \cup {f}
      /\ bytes' = [bytes EXCEPT ![f] = p]
      /\ cold' = [cold EXCEPT ![k] = f]
      /\ leaving' = leaving \cup ({cold[k]} \ {None})
  BY DEF KeepCold, LetGo
<1>2. /\ cold \in [Cel -> Park \cup {None}] /\ leaving \subseteq Park
      /\ worn \subseteq Park /\ bytes \in [Ref -> Pic \cup {None}]
      /\ ParksHold /\ RefsHold
  BY DEF DiskHolds
<1>3. f \in Ref \ Slot
  BY DEF Ref
<1>4. /\ cold' \in [Cel -> Park \cup {None}]
      /\ leaving' \subseteq Park /\ worn' \subseteq Park
      /\ bytes' \in [Ref -> Pic \cup {None}]
  BY <1>1, <1>2, <1>3
<1>5. \A c \in Cel : cold[c] # f
  BY <1>2 DEF ParksHold
<1>6. ParksHold'
  <2>1. leaving' \subseteq worn'
    BY <1>1, <1>2 DEF ParksHold
  <2>2. \A c \in Cel : cold'[c] = IF c = k THEN f ELSE cold[c]
    BY <1>1, <1>2
  <2>3. \A r \in Ref : bytes'[r] = IF r = f THEN p ELSE bytes[r]
    BY <1>1, <1>2
  <2>4. \A c \in Cel : cold[c] # None => cold[c] \in Ref
    BY <1>2 DEF Ref
  <2>5. f \notin leaving'
    BY <1>1, <1>2, <1>5 DEF ParksHold
  <2> QED
    BY <1>1, <1>2, <1>3, <1>5, <2>1, <2>2, <2>3, <2>4, <2>5 DEF ParksHold
<1>7. fileRef' \in [Cel -> Slot \cup {None}] /\ RefsHold'
  BY <1>1, <1>2, <1>3 DEF DiskHolds, RefsHold, Held, Ref
<1>8. ASSUME ThawsHold, UNCHANGED thaws PROVE ThawsHold'
  BY <1>1, <1>2, <1>3, <1>8 DEF ThawsHold, ThawsTrue, Ref, thaws
<1> QED
  BY <1>1, <1>3, <1>4, <1>5, <1>6, <1>7, <1>8 DEF DiskHolds

\* A cel made hot, and the pass that may follow.
LEMMA StoreHotCools ==
    ASSUME HotHolds, NEW k \in Cel, NEW p \in Pic, StoreHot(k, p)
    PROVE  /\ Cooled([hot EXCEPT ![k] = p])
           /\ [hot EXCEPT ![k] = p] \in [Cel -> Pic \cup {None}]
           /\ stoodDown' = FALSE /\ budget' = budget
<1> DEFINE h == [hot EXCEPT ![k] = p]
<1>1. h \in [Cel -> Pic \cup {None}]
  BY DEF HotHolds
<1>2. Newest(order, k) \in Seq(Cel) /\ Listing(h, Newest(order, k))
  BY NewestLists DEF HotHolds
<1>3. cooling \in Coolings /\ ScheduleCooling(cooling, h, Newest(order, k))
  BY DEF HotHolds, StoreHot
<1> HIDE DEF h
<1>4. Cooled(h)
  BY <1>1, <1>2, <1>3, ScheduleCools
<1> QED
  BY <1>1, <1>4 DEF StoreHot, h

\* One more edit marked.
LEMMA MarkDirtyHolds ==
    ASSUME MarksHold, NEW k \in Cel, MarkDirty(k)
    PROVE  /\ dirty' \in [Cel -> Nat] /\ tick' \in Nat /\ \A c \in Cel : dirty'[c] <= tick'
           /\ dirty'[k] # 0 /\ \A c \in Cel \ {k} : dirty'[c] = dirty[c]
           /\ dirty'[k] > tick /\ tick' >= tick
BY DEF MarkDirty, MarksHold

LEMMA NoteHolds ==
    ASSUME MarksHold, NEW K \in SUBSET Cel, NoteCelContent(K)
    PROVE  content' \subseteq Cel
BY DEF NoteCelContent, MarksHold

-----------------------------------------------------------------------------
(* Edits.                                                                   *)

LEMMA DonateHolds ==
    ASSUME IInv, NEW k \in Cel, NEW p \in Pic, Donate(k, p)
    PROVE  IInv' /\ Becomes([Reads EXCEPT ![k] = p])
<1> DEFINE h == [hot EXCEPT ![k] = p]
<1> USE DEF IInv
<1>1. Cooled(h) /\ h \in [Cel -> Pic \cup {None}] /\ stoodDown' = FALSE /\ budget' = budget
  BY StoreHotCools DEF Donate
<1>2. fileRef' = [fileRef EXCEPT ![k] = None] /\ fileRef' \in [Cel -> Held]
  BY DEF Donate, ForgetFileRef, DiskHolds, Held
<1>3. bytes' = bytes /\ worn' = worn /\ UNCHANGED <<thawing, line, filed>>
  BY DEF Donate, thaws
<1>4. cold' = [cold EXCEPT ![k] = None] /\ DiskHolds'
  BY <1>2, <1>3, DropColdHolds DEF Donate
<1>5. MarksHold'
  BY <1>1, <1>3, MarkDirtyHolds, NoteHolds DEF Donate, MarksHold
<1>6. ThawsHold'
  BY <1>3 DEF ThawsHold, ThawsTrue
<1>7. p # None
  BY TokenAssumption
<1>8. \A c \in Cel : ReadOf(h, cold', fileRef', bytes', c)
                     = IF c = k THEN p ELSE ReadOf(hot, cold, fileRef, bytes, c)
  BY <1>2, <1>3, <1>4, <1>7 DEF ReadOf, HotHolds, DiskHolds
<1>9. Agree(h, cold', fileRef', bytes', dirty')
  <2>1. \A c \in Cel \ {k} : dirty'[c] = dirty[c]
    BY MarkDirtyHolds DEF Donate
  <2> QED
    BY <1>2, <1>3, <1>4, <1>8, <2>1 DEF Agree, Sure, HotHolds, DiskHolds
<1> HIDE DEF h
<1>10. IInv' /\ Becomes([c \in Cel |-> ReadOf(h, cold', fileRef', bytes', c)])
  BY <1>1, <1>4, <1>5, <1>6, <1>9, CooledHolds
<1> QED
  BY <1>8, <1>10, ReadsAre

\* A cel used where it is hot, or given the surface it holds.
LEMMA UseHolds ==
    ASSUME IInv, NEW k \in Cel, hot[k] # None, order' = Newest(order, k),
           stoodDown' \in BOOLEAN,
           UNCHANGED <<hot, cold, fileRef, disk, edits, content, budget, cooling, thaws, filed>>
    PROVE  IInv' /\ Becomes(Reads)
<1> USE DEF IInv
<1>1. hot[k] \in Pic /\ [hot EXCEPT ![k] = hot[k]] = hot
  BY DEF HotHolds
<1>2. Newest(order, k) \in Seq(Cel) /\ Listing(hot, Newest(order, k))
  BY <1>1, NewestLists DEF HotHolds
<1>3. HotHolds'
  BY <1>2 DEF HotHolds
<1>4. DiskHolds' /\ MarksHold' /\ ThawsHold'
  BY DEF DiskHolds, MarksHold, ThawsHold, ParksHold, RefsHold, ThawsTrue, disk, edits, thaws
<1>5. Agree(hot, cold, fileRef, bytes, dirty)'
  BY DEF Agree, Sure, ReadOf, disk, edits
<1>6. Becomes(Reads)
  BY DEF Becomes, Reads, Current, Kept, disk
<1> QED
  BY <1>3, <1>4, <1>5, <1>6

LEMMA RemoveBakedHolds ==
    ASSUME IInv, NEW k \in Cel, RemoveBaked(k)
    PROVE  IInv' /\ Becomes([Reads EXCEPT ![k] = None])
<1> DEFINE h == [hot EXCEPT ![k] = None]
<1> USE DEF IInv
<1>1. h \in [Cel -> Pic \cup {None}] /\ hot' = h /\ order' = Without(order, k)
  BY DEF RemoveBaked, HotHolds
<1>2. order' \in Seq(Cel) /\ Listing(h, order')
  BY <1>1, WithoutLists DEF HotHolds
<1>3. cooling' = cooling /\ stoodDown' = stoodDown /\ budget' = budget
  BY DEF RemoveBaked, pass
<1>4. Cooled(h)
  BY <1>1, <1>2, <1>3 DEF Cooled, HotHolds
<1>5. fileRef' = [fileRef EXCEPT ![k] = None] /\ fileRef' \in [Cel -> Held]
  BY DEF RemoveBaked, ForgetFileRef, DiskHolds, Held
<1>6. bytes' = bytes /\ worn' = worn /\ UNCHANGED <<thawing, line, filed>>
  BY DEF RemoveBaked, thaws
<1>7. cold' = [cold EXCEPT ![k] = None] /\ DiskHolds'
  BY <1>5, <1>6, DropColdHolds DEF RemoveBaked
<1>8. MarksHold'
  BY <1>3, <1>6, MarkDirtyHolds, NoteHolds DEF RemoveBaked, MarksHold
<1>9. ThawsHold'
  BY <1>6 DEF ThawsHold, ThawsTrue
<1>10. \A c \in Cel : ReadOf(h, cold', fileRef', bytes', c)
                      = IF c = k THEN None ELSE ReadOf(hot, cold, fileRef, bytes, c)
  BY <1>5, <1>6, <1>7 DEF ReadOf, HotHolds, DiskHolds
<1>11. Agree(h, cold', fileRef', bytes', dirty')
  <2>1. \A c \in Cel \ {k} : dirty'[c] = dirty[c]
    BY MarkDirtyHolds DEF RemoveBaked
  <2> QED
    BY <1>5, <1>6, <1>7, <1>10, <2>1 DEF Agree, Sure, HotHolds, DiskHolds
<1> HIDE DEF h
<1>12. IInv' /\ Becomes([c \in Cel |-> ReadOf(h, cold', fileRef', bytes', c)])
  BY <1>1, <1>4, <1>7, <1>8, <1>9, <1>11, CooledHolds
<1> QED
  BY <1>10, <1>12, ReadsAre

\* A copy kept as bytes: whatever the tiers below hold of it is what it reads as.
LEMMA KeepCopyHolds ==
    ASSUME IInv, NEW k \in Cel, NEW p \in Pic, KeepCopy(k),
           DiskHolds', ThawsHold',
           Agree([hot EXCEPT ![k] = None], cold', fileRef', bytes', dirty'),
           \A c \in Cel : ReadOf([hot EXCEPT ![k] = None], cold', fileRef', bytes', c)
                          = IF c = k THEN p ELSE ReadOf(hot, cold, fileRef, bytes, c)
    PROVE  IInv' /\ Becomes([Reads EXCEPT ![k] = p])
<1> DEFINE h == [hot EXCEPT ![k] = None]
<1> USE DEF IInv
<1>1. h \in [Cel -> Pic \cup {None}] /\ hot' = h /\ order' = Without(order, k)
  BY DEF KeepCopy, HotHolds
<1>2. order' \in Seq(Cel) /\ Listing(h, order')
  BY <1>1, WithoutLists DEF HotHolds
<1>3. cooling' = cooling /\ stoodDown' = stoodDown /\ budget' = budget /\ filed' = filed
  BY DEF KeepCopy, pass
<1>4. Cooled(h)
  BY <1>1, <1>2, <1>3 DEF Cooled, HotHolds
<1>5. MarksHold'
  BY <1>3, MarkDirtyHolds, NoteHolds DEF KeepCopy, MarksHold
<1> HIDE DEF h
<1>6. IInv' /\ Becomes([c \in Cel |-> ReadOf(h, cold', fileRef', bytes', c)])
  BY <1>1, <1>4, <1>5, CooledHolds DEF h
<1> QED
  BY <1>6, ReadsAre DEF h

LEMMA StoreBakedSurfaceHolds ==
    ASSUME IInv, NEW k \in Cel, NEW p \in Pic, StoreBakedSurface(k, p)
    PROVE  IInv' /\ Becomes([Reads EXCEPT ![k] = p])
<1>1. CASE hot[k] = p
  <2>1. Redonate(k) /\ hot[k] # None
    BY <1>1, TokenAssumption DEF StoreBakedSurface
  <2>2. IInv' /\ Becomes(Reads)
    BY <2>1, UseHolds DEF Redonate
  <2>3. [Reads EXCEPT ![k] = p] = Reads
    BY <1>1, <2>1 DEF Reads, Current
  <2> QED
    BY <2>2, <2>3
<1>2. CASE hot[k] # p
  BY <1>2, DonateHolds DEF StoreBakedSurface
<1> QED
  BY <1>1, <1>2

LEMMA CopyCelHolds ==
    ASSUME IInv, NEW from \in Cel, NEW to \in Cel, CopyCel(from, to)
    PROVE  IInv' /\ Becomes([Reads EXCEPT ![to] = Reads[from]])
<1> DEFINE h == [hot EXCEPT ![to] = None]
<1> USE TokenAssumption DEF IInv
<1>a. KeepCopy(to) => \A c \in Cel \ {to} : dirty'[c] = dirty[c]
  BY MarkDirtyHolds DEF KeepCopy
<1>0. from # to /\ Reads[from] = ReadOf(hot, cold, fileRef, bytes, from)
  BY ReadsAre DEF CopyCel
<1>1. CASE hot[from] # None /\ StoreBakedSurface(to, hot[from])
  <2>1. hot[from] \in Pic /\ Reads[from] = hot[from]
    BY <1>0, <1>1 DEF HotHolds, ReadOf
  <2> QED
    BY <1>1, <2>1, StoreBakedSurfaceHolds
<1>2. CASE /\ hot[from] = None /\ cold[from] = None /\ fileRef[from] # None
           /\ fileRef' = [fileRef EXCEPT ![to] = fileRef[from]]
           /\ DropCold(to)
           /\ UNCHANGED <<bytes, worn>>
           /\ KeepCopy(to)
  <2>1. fileRef[from] \in Slot /\ fileRef' \in [Cel -> Held]
    BY <1>2 DEF DiskHolds, Held
  <2>2. DiskHolds' /\ cold' = [cold EXCEPT ![to] = None]
    BY <1>2, <2>1, DropColdHolds
  <2>3. ThawsHold'
    BY <1>2 DEF KeepCopy, thaws, ThawsHold, ThawsTrue
  <2>4. bytes[fileRef[from]] \in Pic /\ Reads[from] = bytes[fileRef[from]]
    BY <1>0, <1>2, <2>1 DEF DiskHolds, RefsHold, ReadOf
  <2>5. \A c \in Cel : ReadOf(h, cold', fileRef', bytes', c)
          = IF c = to THEN Reads[from] ELSE ReadOf(hot, cold, fileRef, bytes, c)
    BY <1>2, <2>1, <2>2, <2>4 DEF ReadOf, HotHolds, DiskHolds
  <2>6. Agree(h, cold', fileRef', bytes', dirty')
    BY <1>2, <1>a, <2>1, <2>2, <2>4, <2>5 DEF Agree, Sure, HotHolds, DiskHolds
  <2> HIDE DEF h
  <2> QED
    BY <1>2, <2>2, <2>3, <2>4, <2>5, <2>6, KeepCopyHolds DEF h
<1>3. CASE hot[from] = None /\ cold[from] # None
  <2>1. bytes[cold[from]] \in Pic /\ Reads[from] = bytes[cold[from]]
    BY <1>0, <1>3 DEF DiskHolds, ParksHold, ReadOf
  <2>2. ASSUME NEW f \in Park \ worn, KeepCold(to, f, bytes[cold[from]]),
               ForgetFileRef(to), KeepCopy(to)
        PROVE  IInv' /\ Becomes([Reads EXCEPT ![to] = Reads[from]])
    <3>1. fileRef' = [fileRef EXCEPT ![to] = None] /\ fileRef' \in [Cel -> Held]
      BY <2>2 DEF ForgetFileRef, DiskHolds, Held
    <3>2. UNCHANGED thaws
      BY <2>2 DEF KeepCopy
    <3>3. /\ cold' = [cold EXCEPT ![to] = f] /\ bytes' = [bytes EXCEPT ![f] = Reads[from]]
          /\ f \in Ref \ Slot
          /\ \A c \in Cel : cold[c] # f
          /\ DiskHolds' /\ ThawsHold'
      BY <2>1, <2>2, <3>1, <3>2, KeepColdHolds
    <3>4. \A r \in Ref : bytes'[r] = IF r = f THEN Reads[from] ELSE bytes[r]
      BY <3>3 DEF DiskHolds
    <3>5. \A c \in Cel : cold[c] \in Ref \cup {None} /\ fileRef[c] \in Ref \cup {None} /\ fileRef[c] # f
      BY <3>3 DEF DiskHolds, Ref
    <3>6. f # None
      OBVIOUS
    <3>7. \A c \in Cel : ReadOf(h, cold', fileRef', bytes', c)
            = IF c = to THEN Reads[from] ELSE ReadOf(hot, cold, fileRef, bytes, c)
      BY <3>1, <3>3, <3>4, <3>5, <3>6 DEF ReadOf, HotHolds, DiskHolds
    <3>8. Agree(h, cold', fileRef', bytes', dirty')
      BY <1>a, <2>2, <3>1, <3>3, <3>4, <3>5, <3>7 DEF Agree, Sure, HotHolds, DiskHolds
    <3> HIDE DEF h
    <3> QED
      BY <2>1, <2>2, <3>3, <3>7, <3>8, KeepCopyHolds DEF h
  <2>3. CASE Donate(to, bytes[cold[from]])
    BY <2>1, <2>3, DonateHolds
  <2> QED
    BY <1>3, <2>2, <2>3 DEF CopyCel
<1> QED
  BY <1>1, <1>2, <1>3 DEF CopyCel

LEMMA CarryHolds ==
    ASSUME IInv, NEW from \in Cel, NEW to \in Cel, Carry(from, to)
    PROVE  /\ IInv' /\ from # to /\ Reads[to] = None
           /\ Becomes([Reads EXCEPT ![to] = Reads[from], ![from] = None])
<1> DEFINE h == [hot EXCEPT ![from] = None, ![to] = hot[from]]
<1> USE TokenAssumption DEF IInv
<1>1. /\ from # to
      /\ hot[to] = None /\ cold[to] = None /\ fileRef[to] = None
      /\ hot' = h
      /\ cold' = [cold EXCEPT ![from] = None, ![to] = cold[from]]
      /\ fileRef' = [fileRef EXCEPT ![from] = None, ![to] = fileRef[from]]
  BY DEF Carry, Rehome
<1>2. h \in [Cel -> Pic \cup {None}]
  BY DEF HotHolds
<1>3. order' \in Seq(Cel) /\ Listing(h, order')
  <2>1. CASE hot[from] = None
    <3>1. h = hot /\ order' = order
      BY <1>1, <2>1 DEF HotHolds, Carry, Rehome
    <3> QED
      BY <3>1 DEF HotHolds
  <2>2. CASE hot[from] # None
    <3> DEFINE g == [hot EXCEPT ![from] = None]
               w == Without(order, from)
    <3>1. g \in [Cel -> Pic \cup {None}] /\ hot[from] \in Pic
      BY <2>2 DEF HotHolds
    <3>2. w \in Seq(Cel) /\ Listing(g, w)
      BY WithoutLists DEF HotHolds
    <3>3. order' = Newest(w, to)
      BY <2>2 DEF Carry, Rehome
    <3>4. [g EXCEPT ![to] = hot[from]] = h
      BY <1>1 DEF HotHolds
    <3> HIDE DEF g, w, h
    <3> QED
      BY <3>1, <3>2, <3>3, <3>4, NewestLists
  <2> QED
    BY <2>1, <2>2
<1>4. /\ UNCHANGED <<bytes, worn, leaving, budget, stoodDown, cooling, thawing, line, filed>>
      /\ dirty' = [dirty EXCEPT ![from] = tick + 1, ![to] = tick + 2]
      /\ tick' = tick + 2
      /\ NoteCelContent({from, to})
  BY DEF Carry, Rehome, disk, pass, thaws
<1>5. Cooled(h)
  BY <1>1, <1>2, <1>3, <1>4 DEF Cooled, HotHolds
<1>6. DiskHolds'
  <2>1. cold' \in [Cel -> Park \cup {None}] /\ fileRef' \in [Cel -> Slot \cup {None}]
    BY <1>1 DEF DiskHolds
  <2>2. ParksHold'
    BY <1>1, <1>4 DEF DiskHolds, ParksHold
  <2>3. RefsHold'
    BY <1>1, <1>4 DEF DiskHolds, RefsHold
  <2> QED
    BY <1>4, <2>1, <2>2, <2>3 DEF DiskHolds
<1>7. MarksHold'
  <2>1. dirty' \in [Cel -> Nat] /\ tick' \in Nat
    BY <1>4 DEF MarksHold
  <2> QED
    BY <1>4, <2>1, NoteHolds DEF MarksHold
<1>8. ThawsHold'
  BY <1>4 DEF ThawsHold, ThawsTrue
<1>9. \A c \in Cel : ReadOf(h, cold', fileRef', bytes', c)
        = IF c = from THEN None
          ELSE IF c = to THEN ReadOf(hot, cold, fileRef, bytes, from)
          ELSE ReadOf(hot, cold, fileRef, bytes, c)
  BY <1>1, <1>4 DEF ReadOf, HotHolds, DiskHolds
<1>10. Agree(h, cold', fileRef', bytes', dirty')
  <2>1. dirty'[from] # 0 /\ dirty'[to] # 0 /\ \A c \in Cel \ {from, to} : dirty'[c] = dirty[c]
    BY <1>1, <1>4 DEF MarksHold
  <2> QED
    BY <1>1, <1>4, <1>9, <2>1 DEF Agree, Sure, HotHolds, DiskHolds
<1> HIDE DEF h
<1>11. IInv' /\ Becomes([c \in Cel |-> ReadOf(h, cold', fileRef', bytes', c)])
  BY <1>2, <1>5, <1>6, <1>7, <1>8, <1>10, CooledHolds
<1>12. Reads[to] = None
  BY <1>1, ReadsAre DEF ReadOf
<1>13. Becomes([Reads EXCEPT ![to] = Reads[from], ![from] = None])
  BY <1>1, <1>9, <1>11, ReadsAre
<1> QED
  BY <1>1, <1>11, <1>12, <1>13

LEMMA ResizeHotHolds ==
    ASSUME IInv, NEW k \in Cel, ResizeHot(k)
    PROVE  IInv' /\ Reads[k] # None /\ Becomes([Reads EXCEPT ![k] = Resized[Reads[k]]])
<1> DEFINE q == Resized[hot[k]]
           h == [hot EXCEPT ![k] = q]
<1> USE TokenAssumption DEF IInv
<1>1. hot[k] # None /\ hot[k] \in Pic /\ q \in Pic
  BY PicAssumption DEF ResizeHot, HotHolds
<1>2. hot' = h /\ h \in [Cel -> Pic \cup {None}]
  BY <1>1 DEF ResizeHot, HotHolds
<1>3. order' = Newest(order, k) /\ order' \in Seq(Cel) /\ Listing(h, order')
  BY <1>1, NewestLists DEF ResizeHot, HotHolds
<1>4. /\ stoodDown' = FALSE
      /\ fileRef' = [fileRef EXCEPT ![k] = None]
      /\ UNCHANGED <<cold, bytes, worn, leaving, budget, cooling, thawing, line, filed>>
  BY DEF ResizeHot, ForgetFileRef, disk, thaws
<1>5. Cooled(h)
  BY <1>2, <1>3, <1>4 DEF Cooled, HotHolds
<1>6. DiskHolds'
  BY <1>4 DEF DiskHolds, ParksHold, RefsHold
<1>7. MarksHold'
  BY <1>4, MarkDirtyHolds, NoteHolds DEF ResizeHot, MarksHold
<1>8. ThawsHold'
  BY <1>4 DEF ThawsHold, ThawsTrue
<1>9. \A c \in Cel : ReadOf(h, cold', fileRef', bytes', c)
        = IF c = k THEN q ELSE ReadOf(hot, cold, fileRef, bytes, c)
  BY <1>1, <1>4 DEF ReadOf, HotHolds, DiskHolds
<1>10. Agree(h, cold', fileRef', bytes', dirty')
  <2>1. \A c \in Cel \ {k} : dirty'[c] = dirty[c]
    BY MarkDirtyHolds DEF ResizeHot
  <2> QED
    BY <1>1, <1>4, <1>9, <2>1 DEF Agree, Sure, HotHolds, DiskHolds
<1>11. Reads[k] = hot[k]
  BY <1>1, ReadsAre DEF ReadOf
<1> HIDE DEF h
<1>12. IInv' /\ Becomes([c \in Cel |-> ReadOf(h, cold', fileRef', bytes', c)])
  BY <1>2, <1>5, <1>6, <1>7, <1>8, <1>10, CooledHolds
<1>13. Becomes([Reads EXCEPT ![k] = q])
  BY <1>9, <1>12, ReadsAre
<1> QED
  BY <1>1, <1>11, <1>12, <1>13

\* Of two copies one write each is asked for; where the room takes the first
\* and refuses the second the saved file's copy keeps the size before, and the
\* cel is marked for the first.
LEMMA ResizeKeptHolds ==
    ASSUME IInv, NEW k \in Cel, ResizeKept(k)
    PROVE  IInv' /\ Reads[k] # None /\ Becomes([Reads EXCEPT ![k] = Resized[Reads[k]]])
<1> USE TokenAssumption DEF IInv
<1> DEFINE stale(r) == r # None /\ Resized[bytes[r]] # bytes[r]
<1>1. PICK c \in (Park \ worn) \cup {None}, f \in (Park \ worn) \cup {None} :
        /\ c # None => stale(cold[k])
        /\ f # None => stale(fileRef[k])
        /\ c = f => c = None
        /\ {c, f} # {None}
        /\ c # None /\ stale(fileRef[k]) /\ f = None => RoomFills
        /\ LET last == IF f # None THEN f ELSE c IN
           /\ cold' = [cold EXCEPT ![k] = last]
           /\ LetGo({cold[k], c} \ {last})
           /\ bytes' = [r \in Ref |->
                          IF r = c THEN Resized[bytes[cold[k]]]
                          ELSE IF r = f THEN Resized[bytes[fileRef[k]]]
                          ELSE bytes[r]]
           /\ worn' = worn \cup ({c, f} \ {None})
        /\ fileRef' = IF f # None THEN [fileRef EXCEPT ![k] = None] ELSE fileRef
  BY DEF ResizeKept
<1>2. hot[k] = None /\ MarkDirty(k) /\ UNCHANGED <<hot, order, content, pass, thaws, filed>>
  BY DEF ResizeKept
<1> DEFINE last == IF f # None THEN f ELSE c
           p == Reads[k]
           q == Resized[p]
<1>3. /\ cold[k] # None => bytes[cold[k]] = p /\ p \in Pic
      /\ fileRef[k] # None => bytes[fileRef[k]] \in Pic
      /\ ~RoomFills /\ fileRef[k] # None => bytes[fileRef[k]] = p
      /\ cold[k] = None /\ fileRef[k] # None => bytes[fileRef[k]] = p
  BY <1>2, ReadsAre DEF Agree, Sure, ReadOf, DiskHolds, ParksHold, RefsHold
<1>4. /\ p \in Pic
      /\ c # None => Resized[bytes[cold[k]]] = q /\ q \in Pic /\ q # p
      /\ f # None => Resized[bytes[fileRef[k]]] \in Pic
      /\ ~RoomFills /\ f # None => Resized[bytes[fileRef[k]]] = q /\ q \in Pic /\ q # p
  BY <1>1, <1>3, PicAssumption
<1>5. last # None /\ last \in Park \ worn
  BY <1>1
<1>6. /\ fileRef' \in [Cel -> Slot \cup {None}]
      /\ \A j \in Cel \ {k} : fileRef'[j] = fileRef[j]
      /\ ~RoomFills => fileRef' = [fileRef EXCEPT ![k] = None]
  <2>1. CASE f # None
    BY <1>1, <2>1 DEF DiskHolds
  <2>2. CASE f = None
    <3>1. fileRef' = fileRef /\ (~RoomFills => fileRef[k] = None)
      BY <1>1, <1>3, <1>4, <2>2
    <3> QED
      BY <3>1 DEF DiskHolds
  <2> QED
    BY <2>1, <2>2
<1>7. /\ cold' = [cold EXCEPT ![k] = last]
      /\ leaving' = leaving \cup (({cold[k], c} \ {last}) \ {None})
      /\ worn' = worn \cup ({c, f} \ {None})
  BY <1>1 DEF LetGo
<1>8. \A r \in Ref : /\ r \notin {c, f} => bytes'[r] = bytes[r]
                     /\ r \in {c, f} => bytes'[r] \in Pic
                     /\ ~RoomFills /\ r \in {c, f} => bytes'[r] = q
  <2>1. None \notin Ref
    BY DEF Ref
  <2> QED
    BY <1>1, <1>4, <2>1
<1>9. \A r \in Ref : r \in worn \cup Slot => bytes'[r] = bytes[r]
  <2>1. \A r \in Ref : r \in worn \cup Slot => r \notin {c, f}
    BY <1>1 DEF Ref
  <2> QED
    BY <2>1, <1>8
<1>10. bytes'[last] \in Pic /\ last \in Ref /\ (~RoomFills => bytes'[last] = q)
  BY <1>5, <1>8 DEF Ref
<1>11. DiskHolds'
  <2>1. cold' \in [Cel -> Park \cup {None}]
    BY <1>5, <1>7 DEF DiskHolds
  <2>2. worn' \subseteq Park /\ leaving' \subseteq Park
    BY <1>1, <1>7 DEF DiskHolds
  <2>3. bytes' \in [Ref -> Pic \cup {None}]
    <3>1. \A r \in Ref : bytes'[r] \in Pic \cup {None}
      BY <1>8 DEF DiskHolds
    <3>2. bytes' = [r \in Ref |-> bytes'[r]]
      BY <1>1
    <3> QED
      BY <3>1, <3>2
  <2>4. RefsHold'
    BY <1>1, <1>6, <1>9 DEF DiskHolds, RefsHold, Ref
  <2>5. ParksHold'
    <3>1. leaving' \subseteq worn'
      BY <1>1, <1>7 DEF DiskHolds, ParksHold
    <3>2. \A j \in Cel : cold'[j] = IF j = k THEN last ELSE cold[j]
      BY <1>7 DEF DiskHolds
    <3>3. last \in worn' /\ last \notin leaving' /\ bytes'[last] \in Pic
      BY <1>1, <1>5, <1>7, <1>10 DEF DiskHolds, ParksHold
    <3>4. ASSUME NEW j \in Cel, j # k, cold[j] # None
          PROVE  cold[j] \in worn' /\ cold[j] \notin leaving' /\ bytes'[cold[j]] \in Pic /\ cold[j] # last
      <4>1. cold[j] \in worn /\ cold[j] \notin leaving /\ bytes[cold[j]] \in Pic /\ cold[j] # cold[k]
        BY <3>4 DEF DiskHolds, ParksHold
      <4>2. cold[j] \in Ref
        BY <3>4 DEF DiskHolds, Ref
      <4> QED
        BY <1>1, <1>5, <1>7, <1>9, <4>1, <4>2
    <3>5. ASSUME NEW r \in Park, bytes'[r] # None
          PROVE  r \in leaving' \/ \E j \in Cel : cold'[j] = r
      <4>1. CASE r \in {c, f}
        BY <1>1, <1>5, <1>7, <3>2, <4>1
      <4>2. CASE r \notin {c, f}
        <5>1. bytes[r] # None
          BY <1>8, <3>5, <4>2 DEF Ref
        <5>2. r \in leaving \/ \E j \in Cel : cold[j] = r
          BY <5>1 DEF DiskHolds, ParksHold
        <5> QED
          BY <1>7, <3>2, <5>2, <4>2
      <4> QED
        BY <4>1, <4>2
    <3> QED
      BY <3>1, <3>2, <3>3, <3>4, <3>5 DEF DiskHolds, ParksHold
  <2> QED
    BY <1>6, <2>1, <2>2, <2>3, <2>4, <2>5 DEF DiskHolds
<1>12. MarksHold'
  BY <1>2, MarkDirtyHolds DEF MarksHold, pass
<1>13. ThawsHold'
  BY <1>2, <1>7, <1>9 DEF ThawsHold, ThawsTrue, thaws, Ref
<1>14. Cooled(hot)
  BY <1>2 DEF Cooled, HotHolds, pass
<1>15. \A j \in Cel : cold[j] # None => cold[j] \in Ref /\ cold[j] \in worn
  BY DEF DiskHolds, ParksHold, Ref
<1>16. \A j \in Cel : fileRef[j] # None => fileRef[j] \in Ref /\ fileRef[j] \in Slot
  BY DEF DiskHolds, Ref
<1>17. \A j \in Cel : /\ j # k => ReadOf(hot, cold', fileRef', bytes', j) = ReadOf(hot, cold, fileRef, bytes, j)
                      /\ j = k /\ ~RoomFills => ReadOf(hot, cold', fileRef', bytes', j) = q
  BY <1>2, <1>5, <1>6, <1>7, <1>9, <1>10, <1>15, <1>16 DEF ReadOf, HotHolds, DiskHolds
<1>18. Sure(dirty', k) => ~RoomFills
  BY <1>2, MarkDirtyHolds DEF Sure
<1>19. Agree(hot, cold', fileRef', bytes', dirty')
  <2>1. \A j \in Cel \ {k} : dirty'[j] = dirty[j]
    BY <1>2, MarkDirtyHolds
  <2>2. ASSUME NEW j \in Cel \ {k}
        PROVE  /\ hot[j] # None => cold'[j] = None
               /\ fileRef'[j] # None /\ Sure(dirty', j)
                  => bytes'[fileRef'[j]] = ReadOf(hot, cold', fileRef', bytes', j)
    <3>1. cold'[j] = cold[j] /\ fileRef'[j] = fileRef[j] /\ dirty'[j] = dirty[j]
      BY <1>6, <1>7, <2>1 DEF DiskHolds
    <3>2. fileRef[j] # None => bytes'[fileRef[j]] = bytes[fileRef[j]]
      BY <1>9, <1>16
    <3>3. ReadOf(hot, cold', fileRef', bytes', j) = ReadOf(hot, cold, fileRef, bytes, j)
      BY <1>17
    <3> QED
      BY <3>1, <3>2, <3>3 DEF Agree, Sure
  <2>3. /\ hot[k] = None
        /\ Sure(dirty', k) => fileRef'[k] = None
    BY <1>2, <1>6, <1>18 DEF DiskHolds
  <2> QED
    BY <2>2, <2>3 DEF Agree
<1>20. IInv' /\ Becomes([j \in Cel |-> ReadOf(hot, cold', fileRef', bytes', j)])
  BY <1>11, <1>12, <1>13, <1>14, <1>19, CooledHolds DEF HotHolds
<1>21. Becomes([Reads EXCEPT ![k] = q])
  BY <1>17, <1>18, <1>20, ReadsAre DEF Becomes
<1> QED
  BY <1>4, <1>20, <1>21

-----------------------------------------------------------------------------
(* Reads.                                                                   *)

\* A thaw kept: the cel hot with what its kept bytes read as.
LEMMA KeepThawedHolds ==
    ASSUME IInv, NEW k \in Cel, NEW p \in Pic, hot[k] = None, Reads[k] = p,
           KeepThawed(k, p), ThawsHold'
    PROVE  IInv' /\ Becomes(Reads)
<1> DEFINE h == [hot EXCEPT ![k] = p]
<1> USE TokenAssumption DEF IInv
<1>1. Cooled(h) /\ h \in [Cel -> Pic \cup {None}] /\ stoodDown' = FALSE /\ budget' = budget
  BY StoreHotCools DEF KeepThawed
<1>2. UNCHANGED <<fileRef, bytes, worn, dirty, tick, content, filed>>
  BY DEF KeepThawed, edits
<1>3. cold' = [cold EXCEPT ![k] = None] /\ DiskHolds'
  BY <1>2, DropColdHolds DEF KeepThawed, DiskHolds, Held
<1>4. MarksHold'
  BY <1>1, <1>2 DEF MarksHold
<1>5. \A c \in Cel : ReadOf(h, cold', fileRef', bytes', c) = ReadOf(hot, cold, fileRef, bytes, c)
  BY <1>2, <1>3, ReadsAre DEF ReadOf, HotHolds, DiskHolds
<1>6. Agree(h, cold', fileRef', bytes', dirty')
  BY <1>2, <1>3, <1>5 DEF Agree, HotHolds, DiskHolds
<1> HIDE DEF h
<1>7. IInv' /\ Becomes([c \in Cel |-> ReadOf(h, cold', fileRef', bytes', c)])
  BY <1>1, <1>3, <1>4, <1>6, CooledHolds
<1> QED
  BY <1>5, <1>7, ReadsAre

\* What a kept cel is read through holds its picture.
LEMMA KeptHolds ==
    ASSUME IInv, NEW k \in Cel, hot[k] = None, Kept(k) # None
    PROVE  /\ Kept(k) \in Ref /\ bytes[Kept(k)] \in Pic /\ Reads[k] = bytes[Kept(k)]
           /\ Kept(k) \in Park => Kept(k) \in worn
<1> USE TokenAssumption DEF IInv
<1>1. Reads[k] = bytes[Kept(k)]
  BY DEF Reads, Current
<1>2. CASE cold[k] # None
  BY <1>1, <1>2 DEF Kept, DiskHolds, ParksHold, Ref
<1>3. CASE cold[k] = None
  BY <1>1, <1>3 DEF Kept, DiskHolds, RefsHold, Ref
<1> QED
  BY <1>2, <1>3

LEMMA ThawHolds ==
    ASSUME IInv, NEW k \in Cel, Thaw(k)
    PROVE  IInv' /\ Becomes(Reads)
<1>1. hot[k] = None /\ Kept(k) # None /\ KeepThawed(k, bytes[Kept(k)]) /\ UNCHANGED thaws
  BY DEF Thaw
<1>2. bytes[Kept(k)] \in Pic /\ Reads[k] = bytes[Kept(k)]
  BY <1>1, KeptHolds
<1>3. ThawsHold'
  BY <1>1 DEF IInv, ThawsHold, ThawsTrue, thaws, KeepThawed
<1> QED
  BY <1>1, <1>2, <1>3, KeepThawedHolds

\* Nothing but the thaws in flight moved.
LEMMA OnlyThawsMove ==
    ASSUME IInv, UNCHANGED <<tiers, disk, edits, content, pass, filed>>, ThawsHold'
    PROVE  IInv' /\ Becomes(Reads)
<1> USE DEF IInv, tiers, disk, edits, pass
<1>1. HotHolds' /\ DiskHolds' /\ MarksHold'
  BY DEF HotHolds, DiskHolds, MarksHold, ParksHold, RefsHold
<1>2. Agree(hot, cold, fileRef, bytes, dirty)'
  BY DEF Agree, Sure, ReadOf
<1>3. Becomes(Reads)
  BY DEF Becomes, Reads, Current, Kept
<1> QED
  BY <1>1, <1>2, <1>3

LEMMA BeginThawHolds ==
    ASSUME IInv, NEW k \in Cel, BeginThaw(k), UNCHANGED <<bytes, worn>>
    PROVE  thawing' \in [Cel -> Thawings] /\ ThawsTrue'
<1> USE DEF IInv
<1>1. CASE hot[k] = None /\ Kept(k) # None
  <2>1. /\ Kept(k) \in Ref /\ bytes[Kept(k)] \in Pic
        /\ Kept(k) \in Park => Kept(k) \in worn
    BY <1>1, KeptHolds
  <2>2. thawing' = [thawing EXCEPT ![k] = Decoding(Kept(k), bytes[Kept(k)])]
    BY <1>1 DEF BeginThaw
  <2> QED
    BY <2>1, <2>2 DEF ThawsHold, ThawsTrue, Thawings, Decoding
<1>2. CASE ~(hot[k] = None /\ Kept(k) # None)
  <2>1. thawing' = [thawing EXCEPT ![k] = NoThaw]
    BY <1>2 DEF BeginThaw
  <2> QED
    BY <2>1 DEF ThawsHold, ThawsTrue, Thawings, NoThaw, Decoding
<1> QED
  BY <1>1, <1>2

LEMMA ThawAheadHolds ==
    ASSUME IInv, NEW k \in Cel, ThawAhead(k)
    PROVE  IInv' /\ Becomes(Reads)
<1> USE DEF IInv
<1>1. UNCHANGED <<bytes, worn>> /\ UNCHANGED <<tiers, disk, edits, content, pass, filed>>
  BY DEF ThawAhead, disk
<1>2. ThawsHold'
  <2>1. CASE BeginThaw(k) /\ UNCHANGED line
    BY <1>1, <2>1, BeginThawHolds DEF ThawsHold
  <2>2. CASE thawing' = [thawing EXCEPT ![k] = Queued] /\ line' = Append(line, k)
    <3>1. line' \in Seq(Cel)
      BY <2>2, AppendProperties DEF ThawsHold
    <3>2. thawing' \in [Cel -> Thawings] /\ ThawsTrue'
      BY <1>1, <2>2 DEF ThawsHold, ThawsTrue, Thawings, Queued, Decoding
    <3> QED
      BY <3>1, <3>2 DEF ThawsHold
  <2> QED
    BY <2>1, <2>2 DEF ThawAhead
<1> QED
  BY <1>1, <1>2, OnlyThawsMove

LEMMA ThawTurnHolds ==
    ASSUME IInv, ThawTurn
    PROVE  IInv' /\ Becomes(Reads)
<1> USE DEF IInv
<1>1. UNCHANGED <<bytes, worn>> /\ UNCHANGED <<tiers, disk, edits, content, pass, filed>>
  BY DEF ThawTurn, disk
<1>2. Head(line) \in Cel /\ line' \in Seq(Cel)
  BY HeadTailProperties DEF ThawTurn, ThawsHold
<1>3. thawing' \in [Cel -> Thawings] /\ ThawsTrue'
  BY <1>1, <1>2, BeginThawHolds DEF ThawTurn
<1> QED
  BY <1>1, <1>2, <1>3, OnlyThawsMove DEF ThawsHold

LEMMA ThawEndsHold ==
    ASSUME IInv, NEW k \in Cel, thawing' = [thawing EXCEPT ![k] = NoThaw], UNCHANGED line,
           bytes' = bytes, worn' = worn
    PROVE  ThawsHold'
BY DEF IInv, ThawsHold, ThawsTrue, Thawings, NoThaw, Decoding

LEMMA ThawLandsHolds ==
    ASSUME IInv, NEW k \in Cel, ThawLands(k)
    PROVE  IInv' /\ Becomes(Reads)
<1>1. /\ thawing[k].phase = "decoding"
      /\ thawing' = [thawing EXCEPT ![k] = NoThaw]
      /\ UNCHANGED line
  BY DEF ThawLands
<1>2. CASE hot[k] = None /\ Kept(k) = thawing[k].from
  <2>1. KeepThawed(k, thawing[k].pic) /\ bytes' = bytes /\ worn' = worn
    BY <1>2 DEF ThawLands, KeepThawed
  <2>2. ThawsHold'
    BY <1>1, <2>1, ThawEndsHold
  <2>3. PICK r \in Ref, p \in Pic : thawing[k] = Decoding(r, p)
    BY <1>1 DEF IInv, ThawsHold, Thawings, NoThaw, Queued
  <2>4. thawing[k].from = r /\ thawing[k].pic = p
    BY <2>3 DEF Decoding
  <2>5. r # None
    BY TokenAssumption DEF Ref
  <2>6. bytes[r] \in {p, None}
    BY <2>3 DEF IInv, ThawsHold, ThawsTrue
  <2>7. bytes[r] \in Pic /\ Reads[k] = bytes[r]
    BY <1>2, <2>4, <2>5, KeptHolds
  <2>8. Reads[k] = p
    BY <2>6, <2>7, TokenAssumption
  <2> QED
    BY <1>2, <2>1, <2>2, <2>4, <2>8, KeepThawedHolds
<1>3. CASE ~(hot[k] = None /\ Kept(k) = thawing[k].from)
  <2>1. UNCHANGED <<tiers, disk, edits, content, pass, filed>>
    BY <1>3 DEF ThawLands
  <2>2. ThawsHold'
    BY <1>1, <2>1, ThawEndsHold DEF disk
  <2> QED
    BY <2>1, <2>2, OnlyThawsMove
<1> QED
  BY <1>2, <1>3

LEMMA ThawFailsHolds ==
    ASSUME IInv, NEW k \in Cel, ThawFails(k)
    PROVE  IInv' /\ Becomes(Reads)
<1>1. UNCHANGED <<tiers, disk, edits, content, pass, filed>>
  BY DEF ThawFails
<1>2. ThawsHold'
  BY <1>1, ThawEndsHold DEF ThawFails, disk
<1> QED
  BY <1>1, <1>2, OnlyThawsMove

-----------------------------------------------------------------------------
(* The cooling pass, memory warnings and the room's removals.               *)

\* A pass that only drops what the saved file holds, or does nothing.
LEMMA PassHolds ==
    ASSUME IInv, Cooled(hot),
           UNCHANGED <<cold, fileRef, disk, edits, content, thaws, filed>>,
           budget' \in FloorBudget..NormalBudget, stoodDown' \in BOOLEAN
    PROVE  IInv' /\ Becomes(Reads)
<1> USE DEF IInv, disk, edits, thaws
<1>1. DiskHolds' /\ MarksHold' /\ ThawsHold'
  BY DEF DiskHolds, MarksHold, ThawsHold, ParksHold, RefsHold, ThawsTrue
<1>2. Agree(hot, cold', fileRef', bytes', dirty')
  BY DEF Agree, ReadOf
<1>3. IInv' /\ Becomes([k \in Cel |-> ReadOf(hot, cold', fileRef', bytes', k)])
  BY <1>1, <1>2, CooledHolds DEF HotHolds
<1> QED
  BY <1>3, ReadsAre DEF ReadOf

LEMMA CoolParksHolds ==
    ASSUME IInv, CoolParks
    PROVE  IInv' /\ Becomes(Reads)
<1> USE TokenAssumption DEF IInv
<1>1. PICK k \in Cel, p \in Pic : cooling = Compress(k, p)
  BY DEF CoolParks, HotHolds, Coolings, CoolIdle, CoolEnded
<1>2. cooling.cel = k /\ cooling.pic = p
  BY <1>1 DEF Compress
<1> DEFINE h == [hot EXCEPT ![k] = None]
<1>3. /\ hot[k] = p
      /\ UNCHANGED <<fileRef, dirty, tick, content, budget, stoodDown, filed>> /\ UNCHANGED thaws
      /\ CoolLoop(h, Without(order, k))
  BY <1>2 DEF CoolParks, edits
<1>4. PICK f \in Park \ worn : KeepCold(k, f, p)
  BY <1>2 DEF CoolParks
<1>5. /\ cold' = [cold EXCEPT ![k] = f] /\ bytes' = [bytes EXCEPT ![f] = p]
      /\ f \in Ref \ Slot
      /\ \A c \in Cel : cold[c] # f
      /\ DiskHolds' /\ ThawsHold'
  BY <1>3, <1>4, KeepColdHolds DEF DiskHolds, Held
<1>6. h \in [Cel -> Pic \cup {None}]
  BY DEF HotHolds
<1>7. Without(order, k) \in Seq(Cel) /\ Listing(h, Without(order, k))
  BY WithoutLists DEF HotHolds
<1>8. Cooled(h)
  BY <1>3, <1>6, <1>7, CoolLoopCools
<1>9. MarksHold'
  BY <1>3 DEF MarksHold
<1>10. \A r \in Ref : bytes'[r] = IF r = f THEN p ELSE bytes[r]
  BY <1>5 DEF DiskHolds
<1>11. \A c \in Cel : cold[c] \in Ref \cup {None} /\ fileRef[c] \in Ref \cup {None} /\ fileRef[c] # f
  BY <1>5 DEF DiskHolds, Ref
<1>12. \A c \in Cel : ReadOf(h, cold', fileRef', bytes', c) = ReadOf(hot, cold, fileRef, bytes, c)
  BY <1>3, <1>5, <1>10, <1>11 DEF ReadOf, HotHolds, DiskHolds
<1>13. Agree(h, cold', fileRef', bytes', dirty')
  BY <1>3, <1>5, <1>10, <1>11, <1>12 DEF Agree, HotHolds, DiskHolds
<1> HIDE DEF h
<1>14. IInv' /\ Becomes([c \in Cel |-> ReadOf(h, cold', fileRef', bytes', c)])
  BY <1>5, <1>6, <1>8, <1>9, <1>13, CooledHolds
<1> QED
  BY <1>12, <1>14, ReadsAre

LEMMA CoolStepHolds ==
    ASSUME IInv, CoolStep
    PROVE  IInv' /\ Becomes(Reads)
<1>0. /\ hot \in [Cel -> Pic \cup {None}] /\ order \in Seq(Cel) /\ Listing(hot, order)
      /\ budget \in FloorBudget..NormalBudget /\ stoodDown \in BOOLEAN
  BY DEF IInv, HotHolds, MarksHold
<1>1. CASE CoolRefused
  <2>1. Cooled(hot)
    BY <1>0, <1>1 DEF CoolRefused, Cooled, Coolings, tiers
  <2> QED
    BY <1>0, <1>1, <2>1, PassHolds DEF CoolRefused, tiers
<1>2. CASE CoolStale
  <2>1. Cooled(hot)
    BY <1>0, <1>2, CoolLoopCools DEF CoolStale
  <2> QED
    BY <1>0, <1>2, <2>1, PassHolds DEF CoolStale
<1>3. CASE CoolEnds
  <2>1. Cooled(hot)
    BY <1>0, <1>3, ScheduleCools DEF CoolEnds, Coolings
  <2> QED
    BY <1>0, <1>3, <2>1, PassHolds DEF CoolEnds
<1> QED
  BY <1>1, <1>2, <1>3, CoolParksHolds DEF CoolStep

LEMMA PressureHolds ==
    ASSUME IInv, Pressure
    PROVE  IInv' /\ Becomes(Reads)
<1> USE BudgetAssumption
<1>0. /\ hot \in [Cel -> Pic \cup {None}] /\ order \in Seq(Cel) /\ Listing(hot, order)
      /\ cooling \in Coolings
      /\ budget \in FloorBudget..NormalBudget /\ stoodDown \in BOOLEAN
  BY DEF IInv, HotHolds, MarksHold
<1>1. CASE RespondToMemoryPressure
  <2>1. Cooled(hot)
    BY <1>0, <1>1, ScheduleCools DEF RespondToMemoryPressure
  <2>2. budget' \in FloorBudget..NormalBudget
    BY <1>0, <1>1 DEF RespondToMemoryPressure
  <2> QED
    BY <1>0, <1>1, <2>1, <2>2, PassHolds DEF RespondToMemoryPressure
<1>2. CASE LiftEveryWarning
  <2>1. Cooled(hot)
    BY <1>0, <1>2 DEF LiftEveryWarning, Cooled, tiers
  <2>2. budget' \in FloorBudget..NormalBudget
    BY <1>2 DEF LiftEveryWarning
  <2> QED
    BY <1>0, <1>2, <2>1, <2>2, PassHolds DEF LiftEveryWarning, tiers
<1> QED
  BY <1>1, <1>2 DEF Pressure

\* A removed file was no cel's any more.
LEMMA FileRemovedHolds ==
    ASSUME IInv, NEW f \in Park, FileRemoved(f)
    PROVE  IInv' /\ Becomes(Reads)
<1> USE TokenAssumption DEF IInv
<1>1. /\ f \in leaving /\ leaving' = leaving \ {f} /\ bytes' = [bytes EXCEPT ![f] = None]
      /\ UNCHANGED <<hot, order, cold, fileRef, worn, dirty, tick, content,
                     budget, stoodDown, cooling, thawing, line, filed>>
  BY DEF FileRemoved, tiers, edits, pass, thaws
<1>2. \A r \in Ref : bytes'[r] = IF r = f THEN None ELSE bytes[r]
  BY <1>1 DEF DiskHolds
<1>3. \A k \in Cel : cold[k] # None => cold[k] # f /\ cold[k] \in Ref
  BY <1>1 DEF DiskHolds, ParksHold, Ref
<1>4. \A k \in Cel : fileRef[k] # None => fileRef[k] # f /\ fileRef[k] \in Ref
  BY DEF DiskHolds, Ref
<1>5. \A s \in Slot : s # f /\ s \in Ref
  BY DEF Ref
<1>6. DiskHolds'
  <2>1. \A r \in Park : bytes'[r] # None => r \in leaving' \/ \E k \in Cel : cold'[k] = r
    BY <1>1, <1>2 DEF DiskHolds, ParksHold, Ref
  <2>2. RefsHold'
    BY <1>1, <1>2, <1>4 DEF DiskHolds, RefsHold
  <2>3. ParksHold'
    BY <1>1, <1>2, <1>3, <2>1 DEF DiskHolds, ParksHold
  <2> QED
    BY <1>1, <2>2, <2>3 DEF DiskHolds
<1>7. HotHolds' /\ MarksHold'
  BY <1>1 DEF HotHolds, MarksHold
<1>8. ThawsHold'
  BY <1>1, <1>2 DEF ThawsHold, ThawsTrue
<1>9. \A k \in Cel : ReadOf(hot', cold', fileRef', bytes', k) = ReadOf(hot, cold, fileRef, bytes, k)
  BY <1>1, <1>2, <1>3, <1>4 DEF ReadOf
<1>10. Agree(hot', cold', fileRef', bytes', dirty')
  BY <1>1, <1>2, <1>4, <1>9 DEF Agree
<1>11. Cooled(hot)
  BY <1>1 DEF Cooled, HotHolds
<1>12. IInv' /\ Becomes([k \in Cel |-> ReadOf(hot, cold', fileRef', bytes', k)])
  BY <1>1, <1>6, <1>7, <1>8, <1>10, <1>11, CooledHolds DEF HotHolds
<1> QED
  BY <1>1, <1>9, <1>12, ReadsAre

-----------------------------------------------------------------------------
(* Every behaviour.                                                         *)

\* A project just opened satisfies the invariant.
LEMMA InitHolds == Init => IInv
<1> SUFFICES ASSUME Init PROVE IInv
  OBVIOUS
<1> USE TokenAssumption, BudgetAssumption DEF Init
<1>1. PICK saved \in [Slot -> Pic] :
        bytes = [r \in Ref |-> IF r \in Slot THEN saved[r] ELSE None]
  OBVIOUS
<1>2. HotHolds
  BY DEF HotHolds, Listing, Coolings
<1>3. /\ bytes \in [Ref -> Pic \cup {None}]
      /\ \A s \in Slot : s \in Ref /\ bytes[s] \in Pic
  BY <1>1 DEF Ref
<1>4. DiskHolds
  <2>1. \A f \in Park : bytes[f] = None
    BY <1>1 DEF Ref
  <2> QED
    BY <1>3, <2>1 DEF DiskHolds, ParksHold, RefsHold
<1>5. \A k \in Cel : /\ Current(k) = ReadOf(hot, cold, fileRef, bytes, k)
                    /\ Current(k) = IF fileRef[k] # None THEN bytes[fileRef[k]] ELSE None
  BY DEF Current, Kept, ReadOf
<1>6. Reads \in [Cel -> Pic \cup {None}]
  BY <1>3, <1>5 DEF Reads
<1>7. MarksHold
  <2>1. content \subseteq Cel
    BY Zenon
  <2>2. dirty = [k \in Cel |-> 0] /\ tick = 0 /\ filed = Reads /\ budget = NormalBudget
    BY Zenon
  <2>3. stoodDown \in BOOLEAN
    BY Zenon
  <2> HIDE DEF Init
  <2>4. dirty \in [Cel -> Nat] /\ tick \in Nat /\ \A k \in Cel : dirty[k] <= tick
    BY <2>2
  <2>5. budget \in FloorBudget..NormalBudget
    BY <2>2
  <2>6. filed \in [Cel -> Pic \cup {None}]
    BY <1>6, <2>2, Zenon
  <2> QED
    BY <2>1, <2>3, <2>4, <2>5, <2>6, Zenon DEF MarksHold
<1>8. ThawsHold
  BY DEF ThawsHold, ThawsTrue, Thawings, NoThaw, Decoding
<1>9. Agree(hot, cold, fileRef, bytes, dirty)
  BY <1>5 DEF Agree
<1> QED
  BY <1>2, <1>4, <1>7, <1>8, <1>9 DEF IInv

\* The store an edit leaves where no resize was refused half of its writes.
LEMMA WholeMap ==
    ASSUME ~RoomFills, NEW m, Becomes(m), m = [k \in Cel |-> m[k]]
    PROVE  Reads' = m
<1>1. Reads' = [k \in Cel |-> Reads'[k]]
  BY DEF Reads
<1>2. \A k \in Cel : Reads'[k] = m[k]
  BY DEF Becomes, Sure
<1> HIDE DEF Becomes
<1> QED
  BY <1>1, <1>2

LEMMA ReadsIs == Reads = [k \in Cel |-> Reads[k]]
BY DEF Reads

\* Every edit keeps the invariant, and is an edit of the map.
LEMMA EditHolds ==
    ASSUME IInv, NEW k \in Cel, Edit(k)
    PROVE  IInv' /\ (~RoomFills => Map!Next)
<1> USE WholeMap, ReadsIs
<1>1. ASSUME NEW p \in Pic, StoreBakedSurface(k, p) PROVE IInv' /\ (~RoomFills => Map!Next)
  <2>1. IInv' /\ Becomes([Reads EXCEPT ![k] = p])
    BY <1>1, StoreBakedSurfaceHolds
  <2>2. ~RoomFills => Reads' = [Reads EXCEPT ![k] = p]
    BY <2>1
  <2> QED
    BY <2>1, <2>2 DEF Map!Next, Map!Draw
<1>2. CASE RemoveBaked(k)
  <2>1. IInv' /\ Becomes([Reads EXCEPT ![k] = None])
    BY <1>2, RemoveBakedHolds
  <2>2. ~RoomFills => Reads' = [Reads EXCEPT ![k] = None]
    BY <2>1
  <2> QED
    BY <2>1, <2>2 DEF Map!Next, Map!Draw
<1>3. ASSUME NEW to \in Cel, CopyCel(k, to) PROVE IInv' /\ (~RoomFills => Map!Next)
  <2>1. IInv' /\ Becomes([Reads EXCEPT ![to] = Reads[k]])
    BY <1>3, CopyCelHolds
  <2>2. ~RoomFills => Reads' = [Reads EXCEPT ![to] = Reads[k]]
    BY <2>1
  <2> QED
    BY <2>1, <2>2 DEF Map!Next, Map!Copy
<1>4. ASSUME NEW to \in Cel, Carry(k, to) PROVE IInv' /\ (~RoomFills => Map!Next)
  <2>1. /\ IInv' /\ k # to /\ Reads[to] = None
        /\ Becomes([Reads EXCEPT ![to] = Reads[k], ![k] = None])
    BY <1>4, CarryHolds
  <2>2. ~RoomFills => Reads' = [Reads EXCEPT ![to] = Reads[k], ![k] = None]
    BY <2>1
  <2> QED
    BY <2>1, <2>2 DEF Map!Next, Map!Carry
<1>5. CASE ResizeHot(k) \/ ResizeKept(k)
  <2>1. IInv' /\ Reads[k] # None /\ Becomes([Reads EXCEPT ![k] = Resized[Reads[k]]])
    BY <1>5, ResizeHotHolds, ResizeKeptHolds
  <2>2. ~RoomFills => Reads' = [Reads EXCEPT ![k] = Resized[Reads[k]]]
    BY <2>1
  <2> QED
    BY <2>1, <2>2 DEF Map!Next, Map!Resize
<1> QED
  BY <1>1, <1>2, <1>3, <1>4, <1>5 DEF Edit

\* A step that is no edit: no picture moves, no mark, and no cel is noted.
Quiet == Becomes(Reads) /\ UNCHANGED <<fileRef, edits, content, filed>>

LEMMA ReadHolds ==
    ASSUME IInv, NEW k \in Cel, Read(k)
    PROVE  IInv' /\ Quiet
<1>1. CASE Touch(k)
  <2>1. stoodDown' \in BOOLEAN /\ UNCHANGED budget /\ UNCHANGED cooling
    BY <1>1 DEF Touch, pass, IInv, MarksHold
  <2> QED
    BY <1>1, <2>1, UseHolds DEF Touch, Quiet
<1>2. CASE Thaw(k)
  BY <1>2, ThawHolds DEF Thaw, KeepThawed, Quiet
<1>3. CASE ThawAhead(k)
  BY <1>3, ThawAheadHolds DEF ThawAhead, Quiet, tiers
<1> QED
  BY <1>1, <1>2, <1>3 DEF Read

LEMMA ThawBackHolds ==
    ASSUME IInv, NEW k \in Cel, ThawBack(k)
    PROVE  IInv' /\ Quiet
<1>1. IInv' /\ Becomes(Reads)
  BY ThawLandsHolds, ThawFailsHolds DEF ThawBack
<1>2. UNCHANGED <<fileRef, edits, content, filed>>
  BY DEF ThawBack, ThawLands, ThawFails, KeepThawed, tiers
<1> QED
  BY <1>1, <1>2 DEF Quiet

\* Every step keeps the invariant; one that is no edit is quiet.
LEMMA NextHolds ==
    ASSUME IInv, [Next]_vars
    PROVE  IInv' /\ (Quiet \/ \E k \in Cel : Edit(k))
<1>1. ASSUME NEW k \in Cel, Edit(k) PROVE IInv'
  BY <1>1, EditHolds
<1>2. CASE ThawTurn
  BY <1>2, ThawTurnHolds DEF ThawTurn, Quiet, tiers
<1>3. CASE CoolStep
  <2>1. IInv' /\ Becomes(Reads)
    BY <1>3, CoolStepHolds
  <2>2. UNCHANGED <<fileRef, edits, content, filed>>
    BY <1>3 DEF CoolStep, CoolParks, CoolRefused, CoolStale, CoolEnds, tiers
  <2> QED
    BY <2>1, <2>2 DEF Quiet
<1>4. CASE Pressure
  <2>1. IInv' /\ Becomes(Reads)
    BY <1>4, PressureHolds
  <2>2. UNCHANGED <<fileRef, edits, content, filed>>
    BY <1>4 DEF Pressure, RespondToMemoryPressure, LiftEveryWarning, tiers
  <2> QED
    BY <2>1, <2>2 DEF Quiet
<1>5. ASSUME NEW f \in Park, FileRemoved(f) PROVE IInv' /\ Quiet
  BY <1>5, FileRemovedHolds DEF FileRemoved, Quiet, tiers
<1>6. CASE UNCHANGED vars
  <2>1. ThawsHold'
    BY <1>6 DEF vars, thaws, disk, IInv, ThawsHold, ThawsTrue
  <2>2. UNCHANGED <<tiers, disk, edits, content, pass, filed>>
    BY <1>6 DEF vars
  <2> QED
    BY <2>1, <2>2, OnlyThawsMove DEF Quiet, tiers
<1> QED
  BY <1>1, <1>2, <1>3, <1>4, <1>5, <1>6, ReadHolds, ThawBackHolds DEF Next

\* The invariant of every behaviour.
LEMMA AlwaysIInv == Spec => []IInv
<1>1. Init => IInv
  BY InitHolds
<1>2. IInv /\ [Next]_vars => IInv'
  BY NextHolds
<1> QED
  BY <1>1, <1>2, PTL DEF Spec

-----------------------------------------------------------------------------
(* The marks, the map's names and the crossing detector.                    *)

\* The cels in K edited: marked, the others as clean and as they read before;
\* their content noted, or what a resize keeps of it.
EditOf(K) ==
    /\ filed' = filed /\ tick' >= tick /\ fileRef' \in [Cel -> Held]
    /\ \A c \in K : dirty'[c] # 0 /\ dirty'[c] > tick
    /\ \A c \in Cel \ K : dirty'[c] = dirty[c] /\ fileRef'[c] = fileRef[c]
                          /\ (Sure(dirty', c) => Reads'[c] = Reads[c])
    /\ \/ NoteCelContent(K)
       \/ /\ content' = content
          /\ \A c \in K : ResizeKept(c)
          /\ \A c \in K : Sure(dirty', c) =>
               Reads[c] \in Pic /\ Reads'[c] = Resized[Reads[c]]

\* What forgetting one cel's ref leaves.
LEMMA ForgetHolds ==
    ASSUME IInv, NEW k \in Cel, ForgetFileRef(k)
    PROVE  /\ fileRef' \in [Cel -> Held]
           /\ \A c \in Cel \ {k} : fileRef'[c] = fileRef[c]
BY DEF ForgetFileRef, Held, IInv, DiskHolds

LEMMA DonateEdits ==
    ASSUME IInv, NEW k \in Cel, NEW p \in Pic, Donate(k, p)
    PROVE  \E K \in SUBSET Cel : EditOf(K)
<1>1. Becomes([Reads EXCEPT ![k] = p])
  BY DonateHolds
<1>2. /\ fileRef' \in [Cel -> Held]
      /\ \A c \in Cel \ {k} : fileRef'[c] = fileRef[c]
  BY ForgetHolds DEF Donate
<1>3. /\ dirty'[k] # 0 /\ dirty'[k] > tick /\ tick' >= tick
      /\ \A c \in Cel \ {k} : dirty'[c] = dirty[c]
      /\ filed' = filed /\ NoteCelContent({k})
  BY MarkDirtyHolds DEF IInv, Donate
<1>4. EditOf({k})
  BY <1>1, <1>2, <1>3, ReadsIs DEF EditOf, Becomes
<1> QED
  BY <1>4

LEMMA StoreEdits ==
    ASSUME IInv, NEW k \in Cel, NEW p \in Pic, StoreBakedSurface(k, p)
    PROVE  \E K \in SUBSET Cel : EditOf(K)
<1>1. CASE Redonate(k)
  <2>1. hot[k] # None /\ order' = Newest(order, k) /\ stoodDown' \in BOOLEAN
    BY <1>1 DEF Redonate
  <2>2. Becomes(Reads)
    BY <1>1, <2>1, UseHolds DEF Redonate
  <2>3. UNCHANGED <<fileRef, edits, content, filed>>
    BY <1>1 DEF Redonate
  <2>4. fileRef' \in [Cel -> Held] /\ tick' >= tick
    BY <2>3 DEF IInv, DiskHolds, MarksHold, Held, edits
  <2>5. EditOf({})
    BY <2>2, <2>3, <2>4 DEF EditOf, Becomes, edits
  <2> QED
    BY <2>5
<1>2. CASE Donate(k, p)
  BY <1>2, DonateEdits
<1> QED
  BY <1>1, <1>2 DEF StoreBakedSurface

LEMMA CopyEdits ==
    ASSUME IInv, NEW from \in Cel, NEW to \in Cel, CopyCel(from, to)
    PROVE  \E K \in SUBSET Cel : EditOf(K)
<1>1. Becomes([Reads EXCEPT ![to] = Reads[from]])
  BY CopyCelHolds
<1>2. ASSUME KeepCopy(to), ForgetFileRef(to) \/ fileRef' = [fileRef EXCEPT ![to] = fileRef[from]]
      PROVE  \E K \in SUBSET Cel : EditOf(K)
  <2>1. /\ fileRef' \in [Cel -> Held]
        /\ \A c \in Cel \ {to} : fileRef'[c] = fileRef[c]
    <3>1. CASE fileRef' = [fileRef EXCEPT ![to] = fileRef[from]]
      BY <3>1 DEF Held, IInv, DiskHolds
    <3> QED
      BY <1>2, <3>1, ForgetHolds
  <2>2. /\ dirty'[to] # 0 /\ dirty'[to] > tick /\ tick' >= tick
        /\ \A c \in Cel \ {to} : dirty'[c] = dirty[c]
        /\ filed' = filed /\ NoteCelContent({to})
    BY <1>2, MarkDirtyHolds DEF IInv, KeepCopy
  <2>3. EditOf({to})
    BY <1>1, <2>1, <2>2, ReadsIs DEF EditOf, Becomes
  <2> QED
    BY <2>3
<1>3. ASSUME NEW p \in Pic, Donate(to, p) PROVE \E K \in SUBSET Cel : EditOf(K)
  BY <1>3, DonateEdits
<1>4. CASE hot[from] # None /\ StoreBakedSurface(to, hot[from])
  BY <1>4, StoreEdits DEF IInv, HotHolds
<1>5. cold[from] # None => bytes[cold[from]] \in Pic
  BY DEF IInv, DiskHolds, ParksHold
<1> QED
  BY <1>2, <1>3, <1>4, <1>5 DEF CopyCel

LEMMA EditEdits ==
    ASSUME IInv, NEW k \in Cel, Edit(k)
    PROVE  \E K \in SUBSET Cel : EditOf(K)
<1>1. CASE RemoveBaked(k)
  <2>1. Becomes([Reads EXCEPT ![k] = None])
    BY <1>1, RemoveBakedHolds
  <2>2. /\ fileRef' \in [Cel -> Held]
        /\ \A c \in Cel \ {k} : fileRef'[c] = fileRef[c]
    BY <1>1, ForgetHolds DEF RemoveBaked
  <2>3. /\ dirty'[k] # 0 /\ dirty'[k] > tick /\ tick' >= tick
        /\ \A c \in Cel \ {k} : dirty'[c] = dirty[c]
        /\ filed' = filed /\ NoteCelContent({k})
    BY <1>1, MarkDirtyHolds DEF IInv, RemoveBaked
  <2>4. EditOf({k})
    BY <2>1, <2>2, <2>3, ReadsIs DEF EditOf, Becomes
  <2> QED
    BY <2>4
<1>2. ASSUME NEW to \in Cel, Carry(k, to) PROVE \E K \in SUBSET Cel : EditOf(K)
  <2>1. k # to /\ Becomes([Reads EXCEPT ![to] = Reads[k], ![k] = None])
    BY <1>2, CarryHolds
  <2>2. /\ dirty'[k] # 0 /\ dirty'[to] # 0
        /\ dirty'[k] > tick /\ dirty'[to] > tick /\ tick' >= tick
        /\ \A c \in Cel \ {k, to} : dirty'[c] = dirty[c]
        /\ filed' = filed /\ NoteCelContent({k, to})
    BY <1>2 DEF IInv, MarksHold, Carry, Rehome
  <2>3. /\ fileRef' \in [Cel -> Held]
        /\ \A c \in Cel \ {k, to} : fileRef'[c] = fileRef[c]
    BY <1>2 DEF IInv, DiskHolds, Held, Carry, Rehome
  <2>4. EditOf({k, to})
    BY <2>1, <2>2, <2>3, ReadsIs DEF EditOf, Becomes
  <2> QED
    BY <2>4
<1>3. CASE ResizeHot(k)
  <2>1. Becomes([Reads EXCEPT ![k] = Resized[Reads[k]]])
    BY <1>3, ResizeHotHolds
  <2>2. /\ fileRef' \in [Cel -> Held]
        /\ \A c \in Cel \ {k} : fileRef'[c] = fileRef[c]
    BY <1>3, ForgetHolds DEF ResizeHot
  <2>3. /\ dirty'[k] # 0 /\ dirty'[k] > tick /\ tick' >= tick
        /\ \A c \in Cel \ {k} : dirty'[c] = dirty[c]
        /\ filed' = filed /\ NoteCelContent({k})
    BY <1>3, MarkDirtyHolds DEF IInv, ResizeHot
  <2>4. EditOf({k})
    BY <2>1, <2>2, <2>3, ReadsIs DEF EditOf, Becomes
  <2> QED
    BY <2>4
<1>4. CASE ResizeKept(k)
  <2>1. Reads[k] # None /\ Becomes([Reads EXCEPT ![k] = Resized[Reads[k]]])
    BY <1>4, ResizeKeptHolds
  <2>2. /\ dirty'[k] # 0 /\ dirty'[k] > tick /\ tick' >= tick
        /\ \A c \in Cel \ {k} : dirty'[c] = dirty[c]
        /\ filed' = filed /\ content' = content
    BY <1>4, MarkDirtyHolds DEF IInv, ResizeKept
  <2>3. Reads[k] \in Pic
    BY <2>1, ReadsArePics
  <2>4. /\ fileRef' \in [Cel -> Held]
        /\ \A c \in Cel \ {k} : fileRef'[c] = fileRef[c]
    <3>1. fileRef' = fileRef \/ ForgetFileRef(k)
      BY <1>4 DEF ResizeKept, ForgetFileRef
    <3>2. CASE fileRef' = fileRef
      BY <3>2 DEF Held, IInv, DiskHolds
    <3> QED
      BY <3>1, <3>2, ForgetHolds
  <2>5. EditOf({k})
    BY <1>4, <2>1, <2>2, <2>3, <2>4, ReadsIs DEF EditOf, Becomes
  <2> QED
    BY <2>5
<1> QED
  BY <1>1, <1>2, <1>3, <1>4, StoreEdits, CopyEdits DEF Edit

\* Clean cels stay what the project file holds under their names.
LEMMA CleanHolds ==
    ASSUME IInv, [Next]_vars, CleanIsFiled
    PROVE  CleanIsFiled'
<1>1. \A c \in Cel : Reads[c] = Current(c) /\ Reads'[c] = Current(c)'
  BY DEF Reads
<1>2. CASE Quiet
  BY <1>1, <1>2 DEF Quiet, Becomes, Sure, edits, CleanIsFiled
<1>3. ASSUME NEW K \in SUBSET Cel, EditOf(K) PROVE CleanIsFiled'
  BY <1>1, <1>3 DEF EditOf, Sure, CleanIsFiled
<1> QED
  BY <1>2, <1>3, NextHolds, EditEdits

\* No cel that shows something is forgotten: the part of ContentFollows that
\* holds of every state.
NoneForgotten == \A k \in Cel : Shows(k) => k \in content

\* The detector through one step: what it knew it knows, and what crosses it is
\* told, but where kept bytes are rewritten.
Followed(k) == ResizeKept(k) \/ (Known(k) \/ Shows(k)' # Shows(k) => Known(k)')

LEMMA ContentHolds ==
    ASSUME ~RoomFills, IInv, [Next]_vars, NoneForgotten
    PROVE  NoneForgotten' /\ \A k \in Cel : Followed(k)
<1>1. /\ \A c \in Cel : Shows(c) <=> Reads[c] \in Pic \ Blank
      /\ \A c \in Cel : Shows(c)' <=> Reads'[c] \in Pic \ Blank
  BY DEF Shows, Reads
<1>2. ASSUME NEW c \in Cel, Reads'[c] = Reads[c], c \in content' <=> c \in content
      PROVE  (Shows(c)' => c \in content') /\ Followed(c)
  <2>1. Shows(c)' = Shows(c)
    BY <1>2 DEF Shows, Reads
  <2> QED
    BY <1>2, <2>1 DEF NoneForgotten, Followed, Known
<1>3. CASE Quiet
  <2>1. \A c \in Cel : Reads'[c] = Reads[c]
    BY <1>3 DEF Quiet, Becomes, Sure
  <2> QED
    BY <1>2, <1>3, <2>1 DEF Quiet, NoneForgotten
<1>4. ASSUME NEW K \in SUBSET Cel, EditOf(K), NEW c \in Cel
      PROVE  (Shows(c)' => c \in content') /\ Followed(c)
  <2>1. CASE c \notin K
    <3>1. Reads'[c] = Reads[c]
      BY <1>4, <2>1 DEF EditOf, Sure
    <3>2. c \in content' <=> c \in content
      BY <1>4, <2>1 DEF EditOf, NoteCelContent
    <3> QED
      BY <1>2, <3>1, <3>2
  <2>2. CASE c \in K /\ NoteCelContent(K)
    BY <2>2 DEF NoteCelContent, Followed, Known
  <2>3. CASE c \in K /\ content' = content /\ ResizeKept(c)
                /\ Reads[c] \in Pic /\ Reads'[c] = Resized[Reads[c]]
    <3>1. Reads'[c] \in Pic \ Blank => Reads[c] \in Pic \ Blank
      BY <2>3, PicAssumption
    <3> QED
      BY <1>1, <2>3, <3>1 DEF NoneForgotten, Followed
  <2> QED
    BY <1>4, <2>1, <2>2, <2>3 DEF EditOf, Sure
<1>5. ASSUME NEW K \in SUBSET Cel, EditOf(K)
      PROVE  NoneForgotten' /\ \A k \in Cel : Followed(k)
  BY <1>4, <1>5 DEF NoneForgotten
<1> QED
  BY <1>3, <1>5, NextHolds, EditEdits

-----------------------------------------------------------------------------
(* What becomes hot is tended.                                              *)

\* Taking a cel out of the order makes it one shorter, or leaves it.
LEMMA WithoutLength ==
    ASSUME NEW s \in Seq(Cel), NEW k \in Cel
    PROVE  /\ Without(s, k) \in Seq(Cel)
           /\ Len(Without(s, k)) = IF \E i \in 1..Len(s) : s[i] = k THEN Len(s) - 1 ELSE Len(s)
<1> DEFINE w == Without(s, k)
<1>0. Len(s) \in Nat /\ \A i \in 1..Len(s) : s[i] \in Cel
  BY ElementOfSeq, LenProperties
<1>1. CASE ~\E i \in 1..Len(s) : s[i] = k
  BY <1>1 DEF Without
<1>2. CASE \E i \in 1..Len(s) : s[i] = k
  <2> DEFINE i == IndexIn(s, k)
  <2>1. i \in 1..Len(s)
    BY <1>2 DEF IndexIn
  <2>2. w = [j \in 1..(Len(s) - 1) |-> IF j < i THEN s[j] ELSE s[j + 1]]
    BY <1>2 DEF Without
  <2> HIDE DEF i, w
  <2>3. Len(s) - 1 \in Nat /\ \A j \in 1..(Len(s) - 1) : (IF j < i THEN s[j] ELSE s[j + 1]) \in Cel
    BY <1>0, <2>1
  <2>4. w \in Seq(Cel)
    BY <2>2, <2>3, IsASeq
  <2>5. DOMAIN w = 1..Len(w) /\ DOMAIN w = 1..(Len(s) - 1) /\ Len(w) \in Nat
    BY <2>4, <2>2, LenProperties
  <2> QED
    BY <1>2, <2>3, <2>4, <2>5 DEF w
<1> QED
  BY <1>1, <1>2

\* A cel used where it is hot takes no new place.
LEMMA UseLength ==
    ASSUME HotHolds, NEW k \in Cel, hot[k] # None
    PROVE  Len(Newest(order, k)) = Len(order)
<1>0. k \in {order[i] : i \in 1..Len(order)} /\ order \in Seq(Cel)
  BY DEF HotHolds, Listing
<1>1. Without(order, k) \in Seq(Cel) /\ Len(Without(order, k)) = Len(order) - 1
  BY <1>0, WithoutLength
<1>2. Len(order) \in Nat
  BY LenProperties DEF HotHolds
<1>3. Len(Append(Without(order, k), k)) = Len(Without(order, k)) + 1
  BY <1>1, AppendProperties
<1> QED
  BY <1>1, <1>2, <1>3 DEF Newest

\* A run of the pass is under way or has ended and will be asked again.
LEMMA CoolLoopTends ==
    ASSUME NEW h, NEW s, CoolLoop(h, s)
    PROVE  Tended'
BY DEF CoolLoop, Tended, CoolIdle, CoolEnded, Compress

LEMMA ScheduleTends ==
    ASSUME NEW c, NEW h, NEW s, ScheduleCooling(c, h, s)
    PROVE  Tended'
<1>1. CASE c = CoolIdle /\ ~stoodDown' /\ Over(Len(s))
  BY <1>1, CoolLoopTends DEF ScheduleCooling
<1>2. CASE ~(c = CoolIdle /\ ~stoodDown' /\ Over(Len(s)))
  BY <1>2 DEF ScheduleCooling, Over, Tended
<1> QED
  BY <1>1, <1>2

\* Every step but a scheduled one leaves the hot tier no larger.
LEMMA GrowthTends ==
    ASSUME HotHolds, Next
    PROVE  Tended' \/ Len(order') <= Len(order)
<1> DEFINE Ok == Tended' \/ Len(order') <= Len(order)
<1>0. Len(order) \in Nat
  BY LenProperties DEF HotHolds
<1>1. ASSUME UNCHANGED order PROVE Ok
  BY <1>0, <1>1
<1>2. ASSUME NEW k \in Cel, order' = Without(order, k) PROVE Ok
  <2>1. order \in Seq(Cel)
    BY DEF HotHolds
  <2>2. \/ Len(Without(order, k)) = Len(order) - 1
        \/ Len(Without(order, k)) = Len(order)
    BY <2>1, WithoutLength
  <2> QED
    BY <1>0, <1>2, <2>2
<1>3. ASSUME NEW k \in Cel, hot[k] # None, order' = Newest(order, k) PROVE Ok
  BY <1>0, <1>3, UseLength
<1>4. ASSUME NEW k \in Cel, NEW p, StoreHot(k, p) PROVE Ok
  BY <1>4, ScheduleTends DEF StoreHot
<1> HIDE DEF Ok
<1>5. ASSUME NEW k \in Cel, NEW p, StoreBakedSurface(k, p) PROVE Ok
  BY <1>3, <1>4, <1>5 DEF StoreBakedSurface, Redonate, Donate
<1>6. ASSUME NEW from \in Cel, NEW to \in Cel, CopyCel(from, to) PROVE Ok
  BY <1>2, <1>4, <1>5, <1>6 DEF CopyCel, KeepCopy, Donate
<1>7. ASSUME NEW from \in Cel, NEW to \in Cel, Carry(from, to) PROVE Ok
  <2>1. CASE hot[from] = None
    BY <1>1, <1>7, <2>1 DEF Carry, Rehome
  <2>2. CASE hot[from] # None
    <3> DEFINE w == Without(order, from)
    <3>0. from \in {order[i] : i \in 1..Len(order)} /\ order \in Seq(Cel)
      BY <2>2 DEF HotHolds, Listing
    <3>1. w \in Seq(Cel) /\ Len(w) = Len(order) - 1
      BY <3>0, WithoutLength
    <3>2. order' = Append(Without(w, to), to)
      BY <1>7, <2>2 DEF Carry, Rehome, Newest
    <3> HIDE DEF w
    <3>3. /\ Without(w, to) \in Seq(Cel)
          /\ (Len(Without(w, to)) = Len(w) - 1) \/ (Len(Without(w, to)) = Len(w))
      BY <3>1, WithoutLength
    <3>4. Len(order') = Len(Without(w, to)) + 1
      BY <3>2, <3>3, AppendProperties
    <3>5. Len(Without(w, to)) \in Nat
      BY <3>3, LenProperties
    <3> QED
      BY <1>0, <3>1, <3>3, <3>4, <3>5 DEF Ok
  <2> QED
    BY <2>1, <2>2
<1>8. ASSUME NEW k \in Cel, Edit(k) PROVE Ok
  BY <1>1, <1>2, <1>3, <1>5, <1>6, <1>7, <1>8 DEF Edit, RemoveBaked, ResizeHot, ResizeKept
<1>9. ASSUME NEW k \in Cel, Read(k) PROVE Ok
  BY <1>1, <1>3, <1>4, <1>9 DEF Read, Touch, Thaw, KeepThawed, ThawAhead, tiers
<1>10. ASSUME NEW k \in Cel, ThawBack(k) PROVE Ok
  BY <1>1, <1>4, <1>10 DEF ThawBack, ThawLands, ThawFails, KeepThawed, tiers
<1>11. CASE ThawTurn
  BY <1>1, <1>11 DEF ThawTurn, tiers
<1>12. CASE CoolStep
  BY <1>1, <1>12, CoolLoopTends, ScheduleTends
     DEF CoolStep, CoolParks, CoolRefused, CoolStale, CoolEnds, tiers, Ok
<1>13. CASE Pressure
  BY <1>1, <1>13, ScheduleTends
     DEF Pressure, RespondToMemoryPressure, LiftEveryWarning, tiers, Ok
<1>14. ASSUME NEW f \in Park, FileRemoved(f) PROVE Ok
  BY <1>1, <1>14 DEF FileRemoved, tiers
<1> QED
  BY <1>8, <1>9, <1>10, <1>11, <1>12, <1>13, <1>14 DEF Next, Ok

-----------------------------------------------------------------------------
(* What the store promises.                                                 *)

\* Every variable keeps its shape: the budget never under its floor or over
\* its norm, a pass or a worker always at work on a cel and a picture of it.
THEOREM StoreTyped == Spec => []TypeOK
<1>1. IInv => TypeOK
  BY IInvImplies
<1> QED
  BY <1>1, AlwaysIInv, PTL

\* No cel is ever kept by a file that is gone, on its way out, or another
\* cel's too: what _dropCold, _storeCold and letGo do in whatever order.
THEOREM StoreReadable == Spec => []KeptReadable
<1>1. IInv => KeptReadable
  BY IInvImplies
<1> QED
  BY <1>1, AlwaysIInv, PTL

\* No file of the room is forgotten: what is on disk there is some cel's only
\* copy or on its way out, the second park of a refused resize included.
THEOREM StoreRoom == Spec => []NoOrphanPark
<1>1. IInv => NoOrphanPark
  BY IInvImplies
<1> QED
  BY <1>1, AlwaysIInv, PTL

\* The order of use lists exactly the hot cels, once each, at every await of a
\* cooling pass: its next victim is always a hot cel.
THEOREM StoreOrdered == Spec => []OrderIsHot
<1>1. IInv => OrderIsHot
  BY IInvImplies
<1> QED
  BY <1>1, AlwaysIInv, PTL

\* All work a save would lose is marked: a cel without a mark reads as what
\* the project file holds under its name, whatever tiers it went through and
\* whatever write of a resize the room refused.
THEOREM StoreFiled == Spec => []CleanIsFiled
<1>1. Init => CleanIsFiled
  BY DEF Init, CleanIsFiled, Reads
<1>2. IInv /\ CleanIsFiled /\ [Next]_vars => CleanIsFiled'
  BY CleanHolds
<1> QED
  BY <1>1, <1>2, AlwaysIInv, PTL DEF Spec

\* A cel becomes hot with a pass under way, stood down at a refusal, or the
\* budget kept: every road to _storeHot ends in _scheduleCooling.
THEOREM StoreTended == Spec => GrowthIsTended
<1>1. IInv /\ [Next]_vars => [Len(order') > Len(order) => Tended']_vars
  <2> SUFFICES ASSUME IInv, Next, Len(order') > Len(order)
               PROVE  Tended'
    OBVIOUS
  <2>1. Len(order) \in Nat
    BY LenProperties DEF IInv, HotHolds
  <2>2. Len(order') \in Nat
    BY NextHolds, LenProperties DEF IInv, HotHolds
  <2> QED
    BY <2>1, <2>2, GrowthTends DEF IInv
<1> QED
  BY <1>1, AlwaysIInv, PTL DEF Spec, GrowthIsTended

\* A cel kept in two tiers reads the same from both: what lets _coolLoop drop
\* a file-backed cel for free and bakedSurfaceOrNull stop at the first tier.
THEOREM StoreAgrees == ASSUME ~RoomFills PROVE Spec => []TiersAgree
<1>1. IInv => TiersAgree
  BY IInvImplies
<1> QED
  BY <1>1, AlwaysIInv, PTL

\* The crossing detector follows the pictures: no block reads empty over a
\* drawing, and only the rewrite of kept bytes (_rewriteKeptCels, which does not
\* ask) leaves a crossing untold or the detector wrong where it was right.
THEOREM StoreContent == ASSUME ~RoomFills PROVE Spec => ContentFollows
<1>1. Init => NoneForgotten
  BY DEF Init, NoneForgotten
<1>2. IInv /\ NoneForgotten /\ [Next]_vars =>
        NoneForgotten' /\ [\A k \in Cel : Followed(k)]_vars
  BY ContentHolds
<1>3. NoneForgotten <=> \A k \in Cel : Shows(k) => k \in content
  BY DEF NoneForgotten
<1>4. [\A k \in Cel : Followed(k)]_vars <=>
        [\A k \in Cel : ResizeKept(k) \/ (Known(k) \/ Shows(k)' # Shows(k) => Known(k)')]_vars
  BY DEF Followed
<1> QED
  BY <1>1, <1>2, <1>3, <1>4, AlwaysIInv, PTL DEF Spec, ContentFollows

\* The store implements the map of cels to pictures: whatever tier a cel is
\* in, only an edit changes what it reads as, and in the way the edit says.
THEOREM StoreImplementsMap == ASSUME ~RoomFills PROVE Spec => ImplementsCelMap
<1>1. Init => Map!Init
  <2> SUFFICES ASSUME Init PROVE Reads \in [Cel -> Pic \cup {None}]
    BY DEF Map!Init
  <2> QED
    BY InitHolds DEF Init, IInv, MarksHold
<1>2. IInv /\ [Next]_vars => [Map!Next]_Reads
  <2>1. ASSUME Quiet PROVE Reads' = Reads
    BY <2>1, WholeMap, ReadsIs DEF Quiet
  <2> QED
    BY <2>1, NextHolds, EditHolds
<1> QED
  BY <1>1, <1>2, AlwaysIInv, PTL DEF Spec, ImplementsCelMap, Map!Spec

=============================================================================
