------------------------- MODULE ProjectSaveProofs -------------------------
(***************************************************************************)
(* A store that is saved keeps its word, proved for every set of cels,     *)
(* pictures and places and any number of saves - where no park let go of   *)
(* is removed while a save runs, no ref is carried during a whole write,   *)
(* and the room never takes half of a resize.                              *)
(***************************************************************************)
EXTENDS ProjectSave, CelStoreProofs

-----------------------------------------------------------------------------
(* A step of the store.                                                     *)

\* What a step of the store leaves on disk: the places of the project file,
\* and every park given out that is not removed; a thaw that begins reads the
\* place its cel's ref names.
DiskKept ==
    /\ \A s \in Slot : bytes'[s] = bytes[s]
    /\ worn \subseteq worn'
    /\ \A f \in worn : bytes'[f] = bytes[f] \/ f \in leaving \ leaving'
    /\ \A k \in Cel, r \in Slot, p \in Pic : thawing'[k] = Decoding(r, p) =>
         thawing[k] = Decoding(r, p) \/ r = fileRef[k]

\* A park newly written is at a name never given out.
LEMMA KeepColdKeeps ==
    ASSUME IInv, NEW k \in Cel, NEW f \in Park \ worn, NEW p, KeepCold(k, f, p),
           UNCHANGED thaws
    PROVE  DiskKept
BY TokenAssumption DEF IInv, DiskHolds, KeepCold, DiskKept, Ref, thaws

LEMMA DiskStays ==
    ASSUME IInv, UNCHANGED <<bytes, worn, thaws>>
    PROVE  DiskKept
BY DEF IInv, DiskHolds, DiskKept, thaws

\* A thaw that begins reads the cel's park or its place in the file.
LEMMA BeginThawKeeps ==
    ASSUME IInv, NEW k \in Cel, BeginThaw(k), UNCHANGED disk
    PROVE  DiskKept
<1>1. ASSUME NEW c \in Cel, NEW r \in Slot, NEW p \in Pic, thawing'[c] = Decoding(r, p)
      PROVE  thawing[c] = Decoding(r, p) \/ r = fileRef[c]
  <2>1. CASE c # k
    BY <1>1, <2>1 DEF BeginThaw, IInv, ThawsHold
  <2>2. CASE c = k
    <3>1. Kept(k) = r
      BY <1>1, <2>2 DEF BeginThaw, IInv, ThawsHold, Decoding, NoThaw
    <3>2. cold[k] # None => cold[k] \in Park
      BY DEF IInv, DiskHolds
    <3> QED
      BY <3>1, <3>2, <2>2, TokenAssumption DEF Kept
  <2> QED
    BY <2>1, <2>2
<1> QED
  BY <1>1 DEF DiskKept, disk

\* A thaw that is not begun, or is over, reads nothing.
LEMMA NoThawKeeps ==
    ASSUME IInv, NEW k \in Cel, NEW t \in {NoThaw, Queued},
           thawing' = [thawing EXCEPT ![k] = t], UNCHANGED <<bytes, worn>>
    PROVE  DiskKept
<1>1. ASSUME NEW c \in Cel, NEW r \in Slot, NEW p \in Pic, thawing'[c] = Decoding(r, p)
      PROVE  thawing[c] = Decoding(r, p)
  BY <1>1 DEF IInv, ThawsHold, NoThaw, Queued, Decoding
<1> QED
  BY <1>1 DEF DiskKept

LEMMA StoreBakedSurfaceKeeps ==
    ASSUME IInv, NEW k \in Cel, NEW p, StoreBakedSurface(k, p)
    PROVE  DiskKept
<1>1. UNCHANGED <<bytes, worn, thaws>>
  BY DEF StoreBakedSurface, Redonate, Donate, disk
<1> QED
  BY <1>1, DiskStays

LEMMA CopyCelKeeps ==
    ASSUME IInv, NEW from \in Cel, NEW to \in Cel, CopyCel(from, to)
    PROVE  DiskKept
<1>1. CASE StoreBakedSurface(to, hot[from])
  BY <1>1, StoreBakedSurfaceKeeps
<1>2. CASE UNCHANGED <<bytes, worn>> /\ KeepCopy(to)
  BY <1>2, DiskStays DEF KeepCopy
<1>3. ASSUME NEW f \in Park \ worn, KeepCold(to, f, bytes[cold[from]]), KeepCopy(to)
      PROVE  DiskKept
  BY <1>3, KeepColdKeeps DEF KeepCopy
<1>4. CASE Donate(to, bytes[cold[from]])
  BY <1>4, DiskStays DEF Donate
<1> QED
  BY <1>1, <1>2, <1>3, <1>4 DEF CopyCel

\* A resize writes parks of its own.
LEMMA ResizeKeptKeeps ==
    ASSUME IInv, NEW k \in Cel, ResizeKept(k)
    PROVE  DiskKept
<1>1. PICK c \in (Park \ worn) \cup {None}, f \in (Park \ worn) \cup {None} :
        /\ bytes' = [r \in Ref |->
                       IF r = c THEN Resized[bytes[cold[k]]]
                       ELSE IF r = f THEN Resized[bytes[fileRef[k]]]
                       ELSE bytes[r]]
        /\ worn' = worn \cup ({c, f} \ {None})
  BY DEF ResizeKept
<1>2. \A r \in Slot \cup worn : r \in Ref /\ r # c /\ r # f
  BY TokenAssumption DEF Ref, IInv, DiskHolds
<1> QED
  BY <1>1, <1>2 DEF ResizeKept, DiskKept, thaws

LEMMA EditKeeps ==
    ASSUME IInv, NEW k \in Cel, Edit(k)
    PROVE  DiskKept
<1>1. CASE RemoveBaked(k) \/ ResizeHot(k) \/ \E to \in Cel : Carry(k, to)
  <2>1. UNCHANGED <<bytes, worn, thaws>>
    BY <1>1 DEF RemoveBaked, ResizeHot, Carry, Rehome, disk
  <2> QED
    BY <2>1, DiskStays
<1> QED
  BY <1>1, StoreBakedSurfaceKeeps, CopyCelKeeps, ResizeKeptKeeps DEF Edit

LEMMA NextKeeps ==
    ASSUME IInv, [Next]_vars
    PROVE  DiskKept
<1>1. ASSUME NEW k \in Cel, Read(k) PROVE DiskKept
  <2>1. CASE Touch(k) \/ Thaw(k)
    <3>1. UNCHANGED <<bytes, worn, thaws>>
      BY <2>1 DEF Touch, Thaw, KeepThawed, disk
    <3> QED
      BY <3>1, DiskStays
  <2>2. CASE ThawAhead(k)
    BY <2>2, BeginThawKeeps, NoThawKeeps DEF ThawAhead, disk
  <2> QED
    BY <1>1, <2>1, <2>2 DEF Read
<1>2. ASSUME NEW k \in Cel, ThawBack(k) PROVE DiskKept
  <2>1. thawing' = [thawing EXCEPT ![k] = NoThaw] /\ UNCHANGED <<bytes, worn>>
    BY <1>2 DEF ThawBack, ThawLands, ThawFails, KeepThawed, disk
  <2> QED
    BY <2>1, NoThawKeeps
<1>3. CASE ThawTurn
  <2>1. Head(line) \in Cel /\ BeginThaw(Head(line)) /\ UNCHANGED disk
    BY <1>3, HeadTailProperties DEF ThawTurn, IInv, ThawsHold
  <2> QED
    BY <2>1, BeginThawKeeps
<1>4. CASE CoolStep
  <2>1. CASE CoolParks
    <3>1. cooling.cel \in Cel
      BY <2>1 DEF CoolParks, IInv, HotHolds, Coolings, CoolIdle, CoolEnded, Compress
    <3> QED
      BY <2>1, <3>1, KeepColdKeeps DEF CoolParks
  <2>2. CASE CoolRefused \/ CoolStale \/ CoolEnds
    <3>1. UNCHANGED <<bytes, worn, thaws>>
      BY <2>2 DEF CoolRefused, CoolStale, CoolEnds, disk
    <3> QED
      BY <3>1, DiskStays
  <2> QED
    BY <1>4, <2>1, <2>2 DEF CoolStep
<1>5. CASE Pressure
  <2>1. UNCHANGED <<bytes, worn, thaws>>
    BY <1>5 DEF Pressure, RespondToMemoryPressure, LiftEveryWarning, disk
  <2> QED
    BY <2>1, DiskStays
<1>6. ASSUME NEW f \in Park, FileRemoved(f) PROVE DiskKept
  BY <1>6, TokenAssumption DEF FileRemoved, IInv, DiskHolds, DiskKept, thaws, Ref
<1>7. CASE UNCHANGED vars
  BY <1>7, DiskStays DEF vars, disk
<1> QED
  BY <1>1, <1>2, <1>3, <1>4, <1>5, <1>6, <1>7, EditKeeps DEF Next

\* A step of the store leaves what is filed alone; a cel is as it was, or is
\* marked with a later edit than any before.
StoreMoves ==
    /\ IInv' /\ DiskKept /\ filed' = filed /\ fileRef' \in [Cel -> Held]
    /\ \A k \in Cel :
         \/ dirty'[k] > tick
         \/ dirty'[k] = dirty[k] /\ fileRef'[k] = fileRef[k] /\ Reads'[k] = Reads[k]

LEMMA NextMoves ==
    ASSUME ~RoomFills, IInv, [Next]_vars
    PROVE  StoreMoves
<1>1. IInv' /\ DiskKept
  BY NextHolds, NextKeeps
<1>2. CASE Quiet
  <2>1. fileRef' \in [Cel -> Held]
    BY <1>2 DEF Quiet, Held, IInv, DiskHolds
  <2> QED
    BY <1>1, <1>2, <2>1 DEF Quiet, Becomes, Sure, edits, StoreMoves
<1>3. ASSUME NEW K \in SUBSET Cel, EditOf(K) PROVE StoreMoves
  BY <1>1, <1>3 DEF EditOf, Sure, StoreMoves
<1> QED
  BY <1>2, <1>3, NextHolds, EditEdits

-----------------------------------------------------------------------------
(* A step of the save.                                                      *)

\* The save moves the cels' refs and the places of the file under them.  What
\* every cel reads as stays, and the store's invariant, where each ref reads
\* what its cel reads as, no ref but a cel's without a park is taken away, and
\* a place a worker decodes keeps its bytes or loses them.
LEMMA SaveMoves ==
    ASSUME ~RoomFills, IInv, NEW K \in SUBSET Cel,
           UNCHANGED <<hot, order, worn, tick, pass, thaws>>,
           cold' \in [Cel -> Park \cup {None}],
           \A k \in Cel : cold'[k] = IF k \in K THEN None ELSE cold[k],
           leaving' = leaving \cup ({cold[k] : k \in K} \ {None}),
           fileRef' \in [Cel -> Slot \cup {None}],
           bytes' \in [Ref -> Pic \cup {None}],
           \A f \in Park : bytes'[f] = bytes[f],
           \A k \in Cel : fileRef'[k] # None => bytes'[fileRef'[k]] = Reads[k] /\ Reads[k] # None,
           \A k \in Cel : fileRef'[k] = None => k \notin K /\ fileRef[k] = None,
           \A k \in Cel, r \in Slot, p \in Pic :
               thawing[k] = Decoding(r, p) => bytes'[r] \in {bytes[r], None},
           dirty' \in [Cel -> Nat], \A k \in Cel : dirty'[k] <= dirty[k],
           content' \subseteq Cel, filed' \in [Cel -> Pic \cup {None}]
    PROVE  IInv' /\ Reads' = Reads
<1>1. \A k \in Cel : Reads[k] = ReadOf(hot, cold, fileRef, bytes, k)
  BY ReadsAre
<1>2. \A k \in Cel : cold[k] # None => cold[k] \in Park /\ cold[k] \notin leaving
  BY DEF IInv, DiskHolds, ParksHold
<1>3. \A k \in Cel : ReadOf(hot, cold', fileRef', bytes', k) = Reads[k]
  <2> SUFFICES ASSUME NEW k \in Cel
               PROVE  ReadOf(hot, cold', fileRef', bytes', k) = Reads[k]
    OBVIOUS
  <2>1. hot[k] # None => cold[k] = None
    BY DEF IInv, Agree
  <2>2. CASE k \in K
    BY <2>2, <1>1, <2>1 DEF ReadOf
  <2>3. CASE k \notin K
    BY <2>3, <1>1, <1>2, <2>1 DEF ReadOf
  <2> QED
    BY <2>2, <2>3
<1>4. Reads' = Reads
  <2>1. \A k \in Cel : Current(k)' = ReadOf(hot, cold', fileRef', bytes', k)
    BY DEF Current, Kept, ReadOf
  <2> QED
    BY <2>1, <1>3, ReadsIs DEF Reads
<1>5. HotHolds'
  BY DEF IInv, HotHolds, Listing, Coolings, pass
<1>6. ParksHold'
  <2>1. leaving' \subseteq worn'
    BY <1>2 DEF IInv, DiskHolds, ParksHold
  <2>2. \A f \in Park : bytes'[f] # None => f \in leaving' \/ \E k \in Cel : cold'[k] = f
    <3> SUFFICES ASSUME NEW f \in Park, bytes'[f] # None, f \notin leaving'
                 PROVE  \E k \in Cel : cold'[k] = f
      OBVIOUS
    <3>1. PICK k \in Cel : cold[k] = f
      BY DEF IInv, DiskHolds, ParksHold
    <3>2. k \notin K
      BY <3>1, TokenAssumption
    <3> QED
      BY <3>1, <3>2
  <2>3. \A k \in Cel : cold'[k] # None =>
          /\ cold'[k] \in worn' /\ cold'[k] \notin leaving' /\ bytes'[cold'[k]] \in Pic
          /\ \A j \in Cel : cold'[j] = cold'[k] => j = k
    <3> SUFFICES ASSUME NEW k \in Cel, cold'[k] # None
                 PROVE  /\ cold'[k] \in worn' /\ cold'[k] \notin leaving' /\ bytes'[cold'[k]] \in Pic
                        /\ \A j \in Cel : cold'[j] = cold'[k] => j = k
      OBVIOUS
    <3>1. k \notin K /\ cold'[k] = cold[k]
      OBVIOUS
    <3>2. /\ cold[k] \in worn /\ cold[k] \notin leaving /\ bytes[cold[k]] \in Pic
          /\ \A j \in Cel : cold[j] = cold[k] => j = k
      BY <3>1 DEF IInv, DiskHolds, ParksHold
    <3> QED
      BY <3>1, <3>2, <1>2
  <2> QED
    BY <2>1, <2>2, <2>3 DEF ParksHold
<1>7. DiskHolds'
  <2>1. RefsHold'
    BY ReadsArePics DEF RefsHold
  <2>2. worn' \subseteq Park /\ leaving' \subseteq Park
    BY <1>2 DEF IInv, DiskHolds
  <2> QED
    BY <1>6, <2>1, <2>2 DEF DiskHolds
<1>8. MarksHold'
  <2>1. \A k \in Cel : dirty'[k] <= tick'
    BY DEF IInv, MarksHold
  <2> QED
    BY <2>1 DEF IInv, MarksHold, pass
<1>9. ThawsHold'
  <2>1. thawing' = thawing /\ line' = line
    BY DEF thaws
  <2>2. ThawsTrue'
    <3> SUFFICES ASSUME NEW k \in Cel, NEW r \in Ref, NEW p \in Pic, thawing[k] = Decoding(r, p)
                 PROVE  bytes'[r] \in {p, None} /\ (r \in Park => r \in worn)
      BY <2>1 DEF ThawsTrue
    <3>1. bytes[r] \in {p, None} /\ (r \in Park => r \in worn)
      BY DEF IInv, ThawsHold, ThawsTrue
    <3> QED
      BY <3>1 DEF Ref
  <2> QED
    BY <2>1, <2>2 DEF IInv, ThawsHold
<1>10. Agree(hot', cold', fileRef', bytes', dirty')
  BY <1>3 DEF IInv, Agree
<1> QED
  BY <1>4, <1>5, <1>7, <1>8, <1>9, <1>10 DEF IInv

-----------------------------------------------------------------------------
(* The inductive invariant.                                                 *)

Savings == [phase : {"none", "append", "rehome", "pack", "moved", "adopt", "whole", "swap"},
            work  : [Cel -> Pic \cup Ref \cup {None}],
            ticks : [Cel -> Nat],
            refs  : [Cel -> Slot \cup {None}],
            got   : [Cel -> Pic \cup {None}],
            moved : (Slot \cup {None}) \X (Slot \cup {None}),
            seen  : [Cel -> Pic \cup {None}]]

SaveShape ==
    /\ entry \in [Cel -> Slot \cup {None}] /\ named \subseteq Slot /\ saves \in 0..MaxSaves
    /\ saving \in Savings
    /\ saving.phase = "none" => saving = NoSave
    /\ saving.phase # "moved" => saving.moved = <<None, None>>

\* Every place the directory names, a cel's ref reads or a worker decodes was
\* named; the directory's hold what is filed.
PlacesHold ==
    /\ \A k \in Cel : entry[k] # None => entry[k] \in named /\ bytes[entry[k]] \in Pic
    /\ \A k \in Cel : fileRef[k] # None => fileRef[k] \in named
    /\ \A k \in Cel, r \in Slot, p \in Pic : thawing[k] = Decoding(r, p) => r \in named
    /\ \A k \in Cel : filed[k] = IF entry[k] = None THEN None ELSE bytes[entry[k]]

\* A cel not edited since the snapshot reads as it did then.
SnapshotHolds == \A k \in Cel :
    /\ saving.ticks[k] <= dirty[k]
    /\ ~Edited(k) => Reads[k] = saving.seen[k]
    /\ saving.work[k] = None <=> saving.seen[k] = None

\* What the save has yet to read is still there, in the file or the room.
WorkHolds == \A k \in Cel :
    /\ saving.work[k] \in Park => saving.work[k] \in worn
    /\ Resolve(saving.work[k]) = saving.seen[k]

\* The refs of the snapshot read what it saw, and no cel holds another.
RefsOfSnapshot == \A k \in Cel :
    /\ saving.refs[k] # None => saving.refs[k] \in named /\ bytes[saving.refs[k]] = saving.seen[k]
    /\ fileRef[k] # None => \E j \in Cel : saving.refs[j] = fileRef[k]

\* The file holds the cels the append does not write.
CleanWereFiled == \A k \in Cel \ DirtyThen : filed[k] = saving.seen[k]

\* The file holds every cel as the snapshot saw it.
SnapshotIsFiled ==
    /\ \A k \in Cel : filed[k] = saving.seen[k]
    /\ \A k \in Cel : saving.got[k] = IF k \in DirtyThen THEN saving.seen[k] ELSE None

\* The round's entry is at two places, and the cels' refs at either.
RoundHolds ==
    /\ saving.moved[1] \in named /\ saving.moved[2] \in Entries
    /\ bytes[saving.moved[1]] = bytes[saving.moved[2]]
    /\ \A k \in Cel : fileRef[k] # None => fileRef[k] \in Entries \cup {saving.moved[1]}

\* What the phase of the save promises beside.
PhaseHolds ==
    /\ saving.phase # "none" => SnapshotHolds
    /\ saving.phase \in {"append", "whole"} => WorkHolds
    /\ saving.phase \in {"append", "rehome"} => RefsOfSnapshot
    /\ saving.phase = "append" => CleanWereFiled
    /\ saving.phase \in {"rehome", "pack", "moved", "adopt"} => SnapshotIsFiled
    /\ saving.phase = "rehome" => Backed
    /\ saving.phase = "pack" => \A k \in Cel : fileRef[k] # None => fileRef[k] \in Entries
    /\ saving.phase = "moved" => RoundHolds
    /\ saving.phase = "swap" => \A k \in Cel : saving.got[k] = saving.seen[k]
    /\ WritesWhole => \A k \in Cel : Edited(k) => fileRef[k] = None

SInv == IInv /\ CleanIsFiled /\ SaveShape /\ PlacesHold /\ PhaseHolds

\* The invariant says what the run checks.
LEMMA SInvImplies ==
    ASSUME ~RoomFills, SInv
    PROVE  SaveIsSound
<1>1. KeptReadable /\ TiersAgree /\ NoOrphanPark
  BY IInvImplies DEF SInv
<1>2. SaveTypeOK
  BY DEF SInv, SaveShape, Savings, PhaseHolds, RoundHolds, PlacesHold, SaveTypeOK
<1>3. FiledInPlace
  <2>1. filed = [k \in Cel |-> filed[k]]
    BY DEF SInv, IInv, MarksHold
  <2> QED
    BY <2>1 DEF SInv, PlacesHold, FiledInPlace, Filed
<1> QED
  BY <1>1, <1>2, <1>3 DEF SInv, SaveIsSound

\* With no save under way there is no phase to hold to.
LEMMA IdleHolds ==
    ASSUME saving = NoSave
    PROVE  PhaseHolds /\ saving \in Savings /\ saving.phase = "none" /\ saving.moved = <<None, None>>
BY DEF NoSave, Nothing, Savings, PhaseHolds, WritesWhole

\* A step of the store beside the save.
LEMMA BesideHolds ==
    ASSUME ~RoomFills, ~RemovesMidSave, ~CarriesMidWrite, SInv, Beside
    PROVE  SInv'
<1>1. StoreMoves
  BY NextMoves DEF SInv, Beside
<1>2. IInv' /\ CleanIsFiled'
  BY <1>1, CleanHolds DEF StoreMoves, SInv, Beside
<1>3. UNCHANGED <<entry, named, saving, saves>>
  BY DEF Beside, saveVars
<1>4. SaveShape'
  BY <1>3 DEF SInv, SaveShape
<1>5. \A s \in Slot : bytes'[s] = bytes[s]
  BY <1>1 DEF StoreMoves, DiskKept
<1>6. \A k \in Cel : fileRef'[k] # None => \E j \in Cel : fileRef[j] = fileRef'[k]
  BY <1>1 DEF StoreMoves, Held
<1>7. \A k \in Cel : dirty[k] <= tick /\ dirty[k] \in Nat /\ tick \in Nat /\ dirty'[k] \in Nat
  BY <1>2 DEF SInv, IInv, MarksHold
<1>8. PlacesHold'
  <2>1. \A k \in Cel, r \in Slot, p \in Pic : thawing'[k] = Decoding(r, p) => r \in named
    BY <1>1, TokenAssumption DEF StoreMoves, DiskKept, SInv, PlacesHold
  <2>2. \A k \in Cel : fileRef'[k] # None => fileRef'[k] \in named
    BY <1>6 DEF SInv, PlacesHold
  <2>3. \A k \in Cel : entry[k] # None => entry[k] \in Slot
    BY DEF SInv, SaveShape
  <2>4. filed' = filed
    BY <1>1 DEF StoreMoves
  <2> QED
    BY <1>3, <1>5, <2>1, <2>2, <2>3, <2>4 DEF SInv, PlacesHold
<1>9. CASE saving.phase = "none"
  BY <1>2, <1>3, <1>4, <1>8, <1>9, IdleHolds DEF SInv, SaveShape, PhaseHolds, WritesWhole
<1>10. CASE saving.phase # "none"
  <2>0. saving \in Savings /\ saving # NoSave
    BY <1>10 DEF SInv, SaveShape, NoSave
  <2>1. \A f \in worn : bytes'[f] = bytes[f] /\ f \in worn'
    BY <1>1, <2>0 DEF Beside, StoreMoves, DiskKept
  <2>2. \A k \in Cel : dirty'[k] > saving.ticks[k] \/
          (dirty'[k] = dirty[k] /\ fileRef'[k] = fileRef[k] /\ Reads'[k] = Reads[k])
    BY <1>1, <1>7, <1>10, <2>0 DEF StoreMoves, SInv, PhaseHolds, SnapshotHolds, Savings
  <2>3. SnapshotHolds'
    BY <1>3, <1>7, <1>10, <2>0, <2>2 DEF SInv, PhaseHolds, SnapshotHolds, Edited, Savings
  <2>4. WorkHolds => WorkHolds'
    BY <1>3, <1>5, <2>0, <2>1 DEF WorkHolds, Resolve, Ref, Savings
  <2>5. RefsOfSnapshot => RefsOfSnapshot'
    BY <1>3, <1>5, <1>6, <2>0 DEF RefsOfSnapshot, Savings
  <2>6. filed' = filed
    BY <1>1 DEF StoreMoves
  <2>7. CleanWereFiled => CleanWereFiled'
    BY <1>3, <2>6 DEF CleanWereFiled, DirtyThen
  <2>8. SnapshotIsFiled => SnapshotIsFiled'
    BY <1>3, <2>6 DEF SnapshotIsFiled, DirtyThen
  <2>9. Backed' = Backed /\ Entries' = Entries /\ WritesWhole' = WritesWhole
    BY <1>3 DEF Backed, DirtyThen, Entries, WritesWhole
  <2>10. saving.phase = "moved" => RoundHolds'
    <3> SUFFICES ASSUME saving.phase = "moved" PROVE RoundHolds'
      OBVIOUS
    <3>1. RoundHolds
      BY DEF SInv, PhaseHolds
    <3>2. saving.moved[1] \in Slot /\ saving.moved[2] \in Slot
      BY <3>1 DEF RoundHolds, SInv, SaveShape, Entries
    <3> QED
      BY <1>3, <1>5, <1>6, <2>9, <3>1, <3>2 DEF RoundHolds
  <2>11. WritesWhole => \A k \in Cel : Edited(k)' => fileRef'[k] = None
    BY DEF Beside
  <2>12. PhaseHolds'
    BY <1>3, <1>6, <2>3, <2>4, <2>5, <2>7, <2>8, <2>9, <2>10, <2>11 DEF SInv, PhaseHolds
  <2> QED
    BY <1>2, <1>4, <1>8, <2>12 DEF SInv
<1> QED
  BY <1>9, <1>10

\* Where the save writes nothing yet, or nothing more, the store is still.
LEMMA StoreStill ==
    ASSUME SInv, UNCHANGED <<vars, entry, named>>
    PROVE  IInv' /\ CleanIsFiled' /\ PlacesHold' /\ Reads' = Reads
<1>1. UNCHANGED <<hot, cold, fileRef, bytes, thawing, filed>>
  BY DEF vars, tiers, disk, thaws
<1>2. \A k \in Cel : Current(k)' = Current(k)
  BY <1>1 DEF Current, Kept
<1>3. IInv' /\ CleanIsFiled'
  BY NextHolds, CleanHolds DEF SInv
<1> QED
  BY <1>1, <1>2, <1>3 DEF SInv, PlacesHold, Reads

\* The snapshot: every cel as it is now, the file's or the room's bytes of the
\* kept ones still to be read.
LEMMA BeginSaveHolds ==
    ASSUME ~RoomFills, SInv, NEW rewriteWhole \in BOOLEAN, BeginSave(rewriteWhole)
    PROVE  SInv' /\ Reads' = Reads
<1>1. IInv' /\ CleanIsFiled' /\ PlacesHold' /\ Reads' = Reads
  BY StoreStill DEF BeginSave
<1>2. UNCHANGED <<hot, cold, fileRef, bytes, worn, dirty, filed, entry, named>>
  BY DEF BeginSave, vars, tiers, disk, edits
<1>3. Reads \in [Cel -> Pic \cup {None}]
  <2>1. \A k \in Cel : Reads[k] \in Pic \cup {None}
    BY ReadsArePics DEF SInv
  <2> QED
    BY <2>1, ReadsIs
<1>4. \A k \in Cel : /\ hot[k] \in Pic \cup {None}
                     /\ cold[k] \in Park \cup {None} /\ (cold[k] # None => cold[k] \in worn)
                     /\ fileRef[k] \in Slot \cup {None} /\ (fileRef[k] # None => fileRef[k] \in named)
                     /\ dirty[k] \in Nat
  BY DEF SInv, IInv, HotHolds, DiskHolds, ParksHold, MarksHold, PlacesHold
<1>5. \A k \in Cel : /\ Work(k) \in Pic \cup Ref \cup {None}
                     /\ Work(k) \in Park => Work(k) \in worn
                     /\ Resolve(Work(k)) = Reads[k]
                     /\ Work(k) = None <=> Reads[k] = None
  <2> SUFFICES ASSUME NEW k \in Cel
               PROVE  /\ Work(k) \in Pic \cup Ref \cup {None}
                      /\ Work(k) \in Park => Work(k) \in worn
                      /\ Resolve(Work(k)) = Reads[k]
                      /\ Work(k) = None <=> Reads[k] = None
    OBVIOUS
  <2>1. Reads[k] = ReadOf(hot, cold, fileRef, bytes, k)
    BY ReadsAre
  <2>2. fileRef[k] # None => bytes[fileRef[k]] = Reads[k] /\ bytes[fileRef[k]] \in Pic
    BY <2>1 DEF SInv, IInv, Agree, Sure, DiskHolds, RefsHold
  <2>3. cold[k] # None => bytes[cold[k]] \in Pic
    BY DEF SInv, IInv, DiskHolds, ParksHold
  <2>4. None \notin Pic /\ None \notin Ref /\ Pic \cap Ref = {} /\ Park \cap Slot = {}
    BY TokenAssumption, SaveAssumption DEF Ref
  <2> QED
    BY <1>4, <2>1, <2>2, <2>3, <2>4 DEF Work, Kept, Resolve, ReadOf, Ref
<1>6. /\ saving' \in Savings /\ saving'.phase \in {"append", "whole"}
      /\ saving'.work = [k \in Cel |-> Work(k)] /\ saving'.ticks = dirty
      /\ saving'.refs = fileRef /\ saving'.seen = Reads /\ saving'.moved = <<None, None>>
      /\ saves' \in 0..MaxSaves
  <2>1. saves' \in 0..MaxSaves
    BY SaveAssumption DEF BeginSave, SInv, SaveShape
  <2>2. [k \in Cel |-> Work(k)] \in [Cel -> Pic \cup Ref \cup {None}]
    BY <1>5
  <2>3. dirty \in [Cel -> Nat] /\ fileRef \in [Cel -> Slot \cup {None}]
    BY DEF SInv, IInv, MarksHold, DiskHolds
  <2> QED
    BY <1>3, <2>1, <2>2, <2>3 DEF BeginSave, NoSave, Nothing, Savings
<1>7. SaveShape'
  BY <1>2, <1>6 DEF SaveShape, SInv
<1>8. ~\E k \in Cel : Edited(k)'
  BY <1>2, <1>4, <1>6 DEF Edited
<1>9. SnapshotHolds' /\ WorkHolds' /\ RefsOfSnapshot' /\ CleanWereFiled'
  <2>1. \A k \in Cel : fileRef[k] # None => bytes[fileRef[k]] = Reads[k]
    BY ReadsAre DEF SInv, IInv, Agree, Sure
  <2>2. SnapshotHolds'
    BY <1>1, <1>2, <1>4, <1>5, <1>6, <1>8 DEF SnapshotHolds
  <2>3. WorkHolds'
    BY <1>2, <1>5, <1>6 DEF WorkHolds, Resolve
  <2>4. RefsOfSnapshot'
    BY <1>2, <1>4, <1>6, <2>1 DEF RefsOfSnapshot
  <2>5. CleanWereFiled'
    BY <1>2, <1>6 DEF CleanWereFiled, DirtyThen, SInv, CleanIsFiled, Reads
  <2> QED
    BY <2>2, <2>3, <2>4, <2>5
<1>10. PhaseHolds'
  BY <1>6, <1>8, <1>9 DEF PhaseHolds
<1> QED
  BY <1>1, <1>7, <1>10 DEF SInv

\* A save that fails, or gives its place up to another kind of write, or has
\* read what it writes, moves nothing but its own phase.
LEMMA SaveFailsHolds ==
    ASSUME SInv, SaveFails
    PROVE  SInv' /\ Reads' = Reads
<1>1. IInv' /\ CleanIsFiled' /\ PlacesHold' /\ Reads' = Reads
  BY StoreStill DEF SaveFails
<1>2. SaveShape' /\ PhaseHolds'
  BY DEF SaveFails, SInv, SaveShape, NoSave, Nothing, Savings, PhaseHolds, WritesWhole
<1> QED
  BY <1>1, <1>2 DEF SInv

LEMMA AppendUnsoundHolds ==
    ASSUME SInv, AppendUnsound
    PROVE  SInv' /\ Reads' = Reads
<1>1. IInv' /\ CleanIsFiled' /\ PlacesHold' /\ Reads' = Reads
  BY StoreStill DEF AppendUnsound
<1>2. /\ saving.phase = "append" /\ saving'.phase = "whole" /\ saving' \in Savings
      /\ saving'.work = saving.work /\ saving'.ticks = saving.ticks /\ saving'.seen = saving.seen
      /\ saving'.moved = saving.moved /\ saving \in Savings
  BY DEF AppendUnsound, At, SInv, SaveShape, Savings
<1>3. SaveShape'
  BY <1>2 DEF AppendUnsound, SInv, SaveShape
<1>4. UNCHANGED <<fileRef, dirty, bytes, worn>>
  BY DEF AppendUnsound, vars, tiers, disk, edits
<1>5. SnapshotHolds' /\ WorkHolds'
  BY <1>1, <1>2, <1>4 DEF SInv, PhaseHolds, SnapshotHolds, WorkHolds, Edited, Resolve
<1>6. \A k \in Cel : Edited(k)' => fileRef'[k] = None
  BY <1>2, <1>4 DEF SInv, PhaseHolds, WritesWhole, AppendUnsound, Edited
<1>7. PhaseHolds'
  BY <1>2, <1>5, <1>6 DEF PhaseHolds
<1> QED
  BY <1>1, <1>3, <1>7 DEF SInv

LEMMA WriteWholeHolds ==
    ASSUME SInv, WriteWhole
    PROVE  SInv' /\ Reads' = Reads
<1>1. IInv' /\ CleanIsFiled' /\ PlacesHold' /\ Reads' = Reads
  BY StoreStill DEF WriteWhole
<1>2. \A k \in Cel : Resolve(saving.work[k]) = saving.seen[k]
  BY DEF WriteWhole, SInv, PhaseHolds, WorkHolds
<1>3. /\ saving.phase = "whole" /\ saving'.phase = "swap" /\ saving' \in Savings
      /\ saving'.work = saving.work /\ saving'.ticks = saving.ticks /\ saving'.seen = saving.seen
      /\ saving'.moved = saving.moved /\ saving \in Savings
      /\ \A k \in Cel : saving'.got[k] = saving.seen[k]
  <2>1. saving \in Savings
    BY DEF SInv, SaveShape
  <2>2. [k \in Cel |-> Resolve(saving.work[k])] = saving.seen
    BY <1>2, <2>1 DEF Savings
  <2> HIDE DEF Resolve
  <2> QED
    BY <2>1, <2>2 DEF WriteWhole, Savings
<1>4. SaveShape'
  BY <1>3 DEF WriteWhole, SInv, SaveShape
<1>5. UNCHANGED <<fileRef, dirty>>
  BY DEF WriteWhole, vars, tiers, edits
<1>6. SnapshotHolds'
  BY <1>1, <1>3, <1>5 DEF SInv, PhaseHolds, SnapshotHolds, Edited
<1>7. \A k \in Cel : Edited(k)' => fileRef'[k] = None
  BY <1>3, <1>5 DEF SInv, PhaseHolds, WritesWhole, Edited
<1>8. PhaseHolds'
  BY <1>3, <1>6, <1>7 DEF PhaseHolds
<1> QED
  BY <1>1, <1>4, <1>8 DEF SInv

-----------------------------------------------------------------------------
(* The push-down.                                                           *)

\* Places written or let go of, and refs moved, with no cel adopted.
LEMMA FileMoves ==
    ASSUME ~RoomFills, IInv,
           UNCHANGED <<hot, order, cold, worn, leaving, edits, content, pass, thaws>>,
           fileRef' \in [Cel -> Slot \cup {None}],
           bytes' \in [Ref -> Pic \cup {None}],
           \A f \in Park : bytes'[f] = bytes[f],
           \A k \in Cel : fileRef'[k] # None => bytes'[fileRef'[k]] = Reads[k] /\ Reads[k] # None,
           \A k \in Cel : fileRef'[k] = None => fileRef[k] = None,
           \A k \in Cel, r \in Slot, p \in Pic :
               thawing[k] = Decoding(r, p) => bytes'[r] \in {bytes[r], None},
           filed' \in [Cel -> Pic \cup {None}]
    PROVE  IInv' /\ Reads' = Reads
<1> DEFINE K == {}
<1>1. /\ K \in SUBSET Cel
      /\ \A k \in Cel : k \notin K
      /\ leaving' = leaving \cup ({cold[k] : k \in K} \ {None})
  OBVIOUS
<1> HIDE DEF K
<1>2. dirty' = dirty /\ tick' = tick
  BY DEF edits
<1>3. /\ cold' \in [Cel -> Park \cup {None}]
      /\ dirty' \in [Cel -> Nat] /\ \A k \in Cel : dirty'[k] <= dirty[k]
      /\ content' \subseteq Cel
  BY <1>2 DEF IInv, DiskHolds, MarksHold
<1>4. \A k \in Cel : cold'[k] = IF k \in K THEN None ELSE cold[k]
  BY <1>1
<1> QED
  BY <1>1, <1>2, <1>3, <1>4, SaveMoves

\* What a cel's ref reads is the cel's picture.
LEMMA RefsRead ==
    ASSUME ~RoomFills, IInv, NEW k \in Cel, fileRef[k] # None
    PROVE  bytes[fileRef[k]] = Reads[k] /\ Reads[k] \in Pic /\ Reads[k] # None
<1>1. bytes[fileRef[k]] \in Pic /\ bytes[fileRef[k]] = Reads[k]
  BY ReadsAre DEF IInv, Agree, Sure, DiskHolds, RefsHold
<1> QED
  BY <1>1, TokenAssumption

\* The refs dirty cels held go to entries that hold the same picture.
LEMMA RehomeRefsHolds ==
    ASSUME ~RoomFills, SInv, RehomeRefs
    PROVE  SInv' /\ Reads' = Reads
<1> DEFINE held == {k \in DirtyThen : saving.refs[k] # None}
           D    == {saving.refs[k] : k \in held}
<1>1. PICK pick \in [D -> held] :
        /\ \A r \in D : saving.refs[pick[r]] = r
        /\ fileRef' = [k \in Cel |-> IF fileRef[k] \in D THEN entry[pick[fileRef[k]]] ELSE fileRef[k]]
  BY Zenon DEF RehomeRefs, Relocate
<1>2. UNCHANGED <<hot, order, cold, bytes, worn, leaving, edits, content, pass, thaws, filed,
                  entry, named, saves>>
  BY DEF RehomeRefs, disk
<1>3. /\ saving.phase = "rehome" /\ saving'.phase = "pack" /\ saving' \in Savings
      /\ saving'.work = saving.work /\ saving'.ticks = saving.ticks /\ saving'.seen = saving.seen
      /\ saving'.got = saving.got /\ saving'.moved = saving.moved /\ saving \in Savings
  BY DEF RehomeRefs, At, SInv, SaveShape, Savings
<1>4. SnapshotHolds /\ RefsOfSnapshot /\ SnapshotIsFiled /\ Backed
  BY <1>3 DEF SInv, PhaseHolds
<1>5. \A k \in Cel : fileRef[k] # None /\ fileRef[k] \in D =>
        /\ fileRef'[k] = entry[pick[fileRef[k]]] /\ fileRef'[k] # None
        /\ fileRef'[k] \in Entries /\ bytes[fileRef'[k]] = Reads[k] /\ fileRef'[k] \in Slot
  <2> SUFFICES ASSUME NEW k \in Cel, fileRef[k] # None, fileRef[k] \in D
               PROVE  /\ fileRef'[k] = entry[pick[fileRef[k]]] /\ fileRef'[k] # None
                      /\ fileRef'[k] \in Entries /\ bytes[fileRef'[k]] = Reads[k] /\ fileRef'[k] \in Slot
    OBVIOUS
  <2> DEFINE r == fileRef[k]
             j == pick[r]
  <2>1. j \in Cel /\ saving.refs[j] = r /\ fileRef'[k] = entry[j]
    BY <1>1 DEF DirtyThen
  <2>2. bytes[r] = Reads[k] /\ Reads[k] # None
    BY RefsRead DEF SInv
  <2> HIDE DEF j, D, held
  <2>3. filed[j] = Reads[k]
    BY <1>4, <2>1, <2>2 DEF RefsOfSnapshot, SnapshotIsFiled
  <2>4. entry[j] # None /\ bytes[entry[j]] = Reads[k]
    BY <2>1, <2>2, <2>3 DEF SInv, PlacesHold
  <2> QED
    BY <2>1, <2>4 DEF Entries, SInv, SaveShape, j
<1>6. \A k \in Cel : fileRef[k] # None /\ fileRef[k] \notin D =>
        fileRef'[k] = fileRef[k] /\ fileRef[k] \in Entries
  <2> SUFFICES ASSUME NEW k \in Cel, fileRef[k] # None, fileRef[k] \notin D
               PROVE  fileRef'[k] = fileRef[k] /\ fileRef[k] \in Entries
    OBVIOUS
  <2>1. PICK j \in Cel : saving.refs[j] = fileRef[k]
    BY <1>4 DEF RefsOfSnapshot
  <2>2. j \notin DirtyThen
    BY <2>1
  <2>3. entry[j] = fileRef[k]
    BY <1>4, <2>1, <2>2 DEF Backed
  <2> QED
    BY <1>1, <2>3 DEF Entries
<1>7. \A k \in Cel : fileRef[k] = None => fileRef'[k] = None
  <2>1. None \notin D
    OBVIOUS
  <2> QED
    BY <1>1, <2>1
<1>8. DOMAIN fileRef' = Cel /\ fileRef' = [k \in Cel |-> fileRef'[k]]
  BY <1>1
<1> HIDE DEF D, held
<1>9. fileRef' \in [Cel -> Slot \cup {None}]
  <2>1. \A k \in Cel : fileRef'[k] \in Slot \cup {None}
    BY <1>5, <1>6, <1>7 DEF SInv, IInv, DiskHolds
  <2> QED
    BY <1>8, <2>1
<1>10. \A k \in Cel : fileRef'[k] # None => /\ fileRef'[k] \in Entries
                                            /\ bytes[fileRef'[k]] = Reads[k] /\ Reads[k] # None
  BY <1>5, <1>6, <1>7, RefsRead DEF SInv
<1>11. IInv' /\ Reads' = Reads
  <2>1. bytes' \in [Ref -> Pic \cup {None}] /\ filed' \in [Cel -> Pic \cup {None}]
    BY <1>2 DEF SInv, IInv, DiskHolds, MarksHold
  <2>2. \A k \in Cel : fileRef'[k] = None => fileRef[k] = None
    BY <1>5, <1>6
  <2> QED
    BY <1>2, <1>9, <1>10, <2>1, <2>2, FileMoves DEF SInv
<1>12. dirty' = dirty
  BY <1>2 DEF edits
<1>13. CleanIsFiled'
  BY <1>2, <1>11, <1>12 DEF SInv, CleanIsFiled, Reads
<1>14. SaveShape'
  BY <1>2, <1>3 DEF SInv, SaveShape
<1>15. PlacesHold'
  <2>1. \A k \in Cel : fileRef'[k] # None => fileRef'[k] \in named
    BY <1>10 DEF Entries, SInv, PlacesHold
  <2> QED
    BY <1>2, <2>1 DEF SInv, PlacesHold, thaws
<1>16. PhaseHolds'
  <2>1. SnapshotHolds' /\ SnapshotIsFiled'
    BY <1>2, <1>3, <1>4, <1>11, <1>12 DEF SnapshotHolds, SnapshotIsFiled, Edited, DirtyThen
  <2>2. \A k \in Cel : fileRef'[k] # None => fileRef'[k] \in Entries'
    BY <1>2, <1>10 DEF Entries
  <2> QED
    BY <1>3, <2>1, <2>2 DEF PhaseHolds, WritesWhole
<1> QED
  BY <1>11, <1>13, <1>14, <1>15, <1>16 DEF SInv

\* The session's answer: refs at the old place of the round's entry go to its
\* new one, which holds the same.
LEMMA MoveRefsHolds ==
    ASSUME ~RoomFills, SInv, MoveRefs
    PROVE  SInv' /\ Reads' = Reads
<1> DEFINE s == saving.moved[1]
           t == saving.moved[2]
<1>1. fileRef' = [k \in Cel |-> IF fileRef[k] = s THEN t ELSE fileRef[k]]
  <2>1. \A k \in Cel : fileRef[k] = s => [r \in {s} |-> t][fileRef[k]] = t
    OBVIOUS
  <2> QED
    BY <2>1 DEF MoveRefs, Relocate
<1>2. UNCHANGED <<hot, order, cold, bytes, worn, leaving, edits, content, pass, thaws, filed,
                  entry, named, saves>>
  BY DEF MoveRefs, disk
<1>3. /\ saving.phase = "moved" /\ saving'.phase = "pack" /\ saving' \in Savings
      /\ saving'.work = saving.work /\ saving'.ticks = saving.ticks /\ saving'.seen = saving.seen
      /\ saving'.got = saving.got /\ saving'.moved = <<None, None>> /\ saving \in Savings
  BY DEF MoveRefs, SInv, SaveShape, Savings
<1>4. SnapshotHolds /\ SnapshotIsFiled /\ RoundHolds
  BY <1>3 DEF SInv, PhaseHolds
<1>5. s \in Slot /\ s \in named /\ t \in Slot /\ t \in Entries /\ bytes[s] = bytes[t]
  BY <1>4 DEF RoundHolds, SInv, SaveShape, Entries
<1> HIDE DEF s, t
<1>6. \A k \in Cel : fileRef'[k] # None => /\ fileRef[k] # None /\ fileRef'[k] \in Entries
                                           /\ bytes[fileRef'[k]] = Reads[k] /\ Reads[k] # None
  <2> SUFFICES ASSUME NEW k \in Cel, fileRef'[k] # None
               PROVE  /\ fileRef[k] # None /\ fileRef'[k] \in Entries
                      /\ bytes[fileRef'[k]] = Reads[k] /\ Reads[k] # None
    OBVIOUS
  <2>1. fileRef[k] # None
    BY <1>1, <1>5, TokenAssumption
  <2>2. bytes[fileRef[k]] = Reads[k] /\ Reads[k] # None
    BY <2>1, RefsRead DEF SInv
  <2>3. fileRef[k] \in Entries \cup {s}
    BY <1>4, <2>1 DEF RoundHolds, s
  <2> QED
    BY <1>1, <1>5, <2>1, <2>2, <2>3
<1>7. fileRef' \in [Cel -> Slot \cup {None}]
  BY <1>1, <1>5 DEF SInv, IInv, DiskHolds
<1>8. IInv' /\ Reads' = Reads
  <2>1. bytes' \in [Ref -> Pic \cup {None}] /\ filed' \in [Cel -> Pic \cup {None}]
    BY <1>2 DEF SInv, IInv, DiskHolds, MarksHold
  <2>2. \A k \in Cel : fileRef'[k] = None => fileRef[k] = None
    BY <1>1, <1>5, TokenAssumption
  <2> QED
    BY <1>2, <1>6, <1>7, <2>1, <2>2, FileMoves DEF SInv
<1>9. dirty' = dirty
  BY <1>2 DEF edits
<1>10. CleanIsFiled'
  BY <1>2, <1>8, <1>9 DEF SInv, CleanIsFiled, Reads
<1>11. SaveShape'
  BY <1>2, <1>3 DEF SInv, SaveShape
<1>12. PlacesHold'
  <2>1. \A k \in Cel : fileRef'[k] # None => fileRef'[k] \in named
    BY <1>6 DEF Entries, SInv, PlacesHold
  <2> QED
    BY <1>2, <2>1 DEF SInv, PlacesHold, thaws
<1>13. PhaseHolds'
  <2>1. SnapshotHolds' /\ SnapshotIsFiled'
    BY <1>2, <1>3, <1>4, <1>8, <1>9 DEF SnapshotHolds, SnapshotIsFiled, Edited, DirtyThen
  <2>2. \A k \in Cel : fileRef'[k] # None => fileRef'[k] \in Entries'
    BY <1>2, <1>6 DEF Entries
  <2> QED
    BY <1>3, <2>1, <2>2 DEF PhaseHolds, WritesWhole
<1> QED
  BY <1>8, <1>10, <1>11, <1>12, <1>13 DEF SInv

\* Keys laid where there is room each have a place of their own, never named.
LEMMA Laying ==
    ASSUME NEW W, NEW S, Layings(W, S) # {}
    PROVE  /\ Laid(W, S) \in [W -> S]
           /\ \A j, k \in W : Laid(W, S)[j] = Laid(W, S)[k] => j = k
<1>1. Laid(W, S) \in Layings(W, S)
  BY DEF Laid
<1> QED
  BY <1>1 DEF Layings

\* A round copies a live entry over dead bytes: no ref reads those.
LEMMA PackRoundHolds ==
    ASSUME ~RoomFills, SInv, NEW s \in Entries, NEW d \in Dead, PackRound(s, d)
    PROVE  SInv' /\ Reads' = Reads
<1> DEFINE t == Places({s})[s]
<1>1. /\ bytes' = [bytes EXCEPT ![t] = bytes[s], ![d] = None]
      /\ named' = named \cup {t}
      /\ entry' = [k \in Cel |-> IF entry[k] = s THEN t ELSE entry[k]]
  BY DEF PackRound
<1>2. t \in Slot /\ t \notin named
  <2>1. Layings({s}, Slot \ named) # {}
    BY DEF PackRound, Room
  <2>2. Places({s}) \in [{s} -> Slot \ named]
    BY <2>1, Laying DEF Places
  <2> QED
    BY <2>2
<1>3. /\ saving.phase = "pack" /\ saving' = [saving EXCEPT !.phase = "moved", !.moved = <<s, t>>]
      /\ UNCHANGED <<hot, order, cold, fileRef, worn, leaving, edits, content, pass, thaws, filed, saves>>
  BY DEF PackRound, tiers
<1> HIDE DEF t
<1>4. s \in Slot /\ s \in named /\ d \in named /\ d \in Slot /\ d \notin Entries /\ d # t /\ d # s /\ s # t
  BY <1>2 DEF Dead, Entries, SInv, PlacesHold, SaveShape
<1>5. /\ saving'.phase = "moved" /\ saving' \in Savings
      /\ saving'.work = saving.work /\ saving'.ticks = saving.ticks /\ saving'.seen = saving.seen
      /\ saving'.got = saving.got /\ saving'.moved[1] = s /\ saving'.moved[2] = t
  BY <1>2, <1>3, <1>4 DEF SInv, SaveShape, Savings
<1>6. SnapshotHolds /\ SnapshotIsFiled /\ \A k \in Cel : fileRef[k] # None => fileRef[k] \in Entries
  BY <1>3 DEF SInv, PhaseHolds
<1>7. /\ bytes' \in [Ref -> Pic \cup {None}] /\ bytes \in [Ref -> Pic \cup {None}]
      /\ \A r \in Ref : r # t /\ r # d => bytes'[r] = bytes[r]
      /\ bytes'[t] = bytes[s] /\ bytes'[d] = None
  <2>1. bytes \in [Ref -> Pic \cup {None}] /\ t \in Ref /\ d \in Ref /\ s \in Ref
    BY <1>2, <1>4 DEF SInv, IInv, DiskHolds, Ref
  <2> QED
    BY <1>1, <1>4, <2>1
<1>8. \A e \in Entries : e \in Slot /\ e \in named /\ e # t /\ e # d /\ bytes'[e] = bytes[e]
  BY <1>2, <1>4, <1>7 DEF Entries, SInv, PlacesHold, SaveShape, Ref
<1>9. IInv' /\ Reads' = Reads
  <2>1. \A k \in Cel : fileRef[k] # None => bytes'[fileRef[k]] = Reads[k] /\ Reads[k] # None
    BY <1>6, <1>8, RefsRead DEF SInv
  <2>2. \A f \in Park : bytes'[f] = bytes[f]
    BY <1>2, <1>4, <1>7, TokenAssumption DEF Ref
  <2>3. \A k \in Cel, r \in Slot, p \in Pic :
          thawing[k] = Decoding(r, p) => bytes'[r] \in {bytes[r], None}
    BY <1>2, <1>7 DEF SInv, PlacesHold, Ref
  <2>4. fileRef' \in [Cel -> Slot \cup {None}] /\ filed' \in [Cel -> Pic \cup {None}]
    BY <1>3 DEF SInv, IInv, DiskHolds, MarksHold
  <2> QED
    BY <1>3, <1>7, <2>1, <2>2, <2>3, <2>4, FileMoves DEF SInv
<1>10. dirty' = dirty
  BY <1>3 DEF edits
<1>11. CleanIsFiled'
  BY <1>3, <1>9, <1>10 DEF SInv, CleanIsFiled, Reads
<1>12. SaveShape'
  BY <1>1, <1>2, <1>3, <1>5 DEF SInv, SaveShape
<1>13. PlacesHold'
  <2>1. \A k \in Cel : fileRef'[k] # None => fileRef'[k] \in named'
    BY <1>1, <1>3 DEF SInv, PlacesHold
  <2>2. \A k \in Cel, r \in Slot, p \in Pic : thawing'[k] = Decoding(r, p) => r \in named'
    BY <1>1, <1>3 DEF SInv, PlacesHold, thaws
  <2>3. \A k \in Cel : /\ entry'[k] # None => entry'[k] \in named' /\ bytes'[entry'[k]] \in Pic
                       /\ filed'[k] = IF entry'[k] = None THEN None ELSE bytes'[entry'[k]]
    <3> SUFFICES ASSUME NEW k \in Cel
                 PROVE  /\ entry'[k] # None => entry'[k] \in named' /\ bytes'[entry'[k]] \in Pic
                        /\ filed'[k] = IF entry'[k] = None THEN None ELSE bytes'[entry'[k]]
      OBVIOUS
    <3>1. CASE entry[k] = s
      <4>1. entry'[k] = t /\ s # None /\ t # None
        BY <1>1, <1>2, <1>4, <3>1, TokenAssumption
      <4> QED
        BY <1>1, <1>3, <1>7, <3>1, <4>1 DEF SInv, PlacesHold
    <3>2. CASE entry[k] # s
      <4>1. entry'[k] = entry[k] /\ (entry[k] # None => entry[k] \in Entries)
        BY <1>1, <3>2 DEF Entries
      <4> QED
        BY <1>1, <1>3, <1>8, <4>1 DEF SInv, PlacesHold
    <3> QED
      BY <3>1, <3>2
  <2> QED
    BY <2>1, <2>2, <2>3 DEF PlacesHold
<1>14. PhaseHolds'
  <2>1. SnapshotHolds' /\ SnapshotIsFiled'
    BY <1>3, <1>5, <1>6, <1>9, <1>10 DEF SnapshotHolds, SnapshotIsFiled, Edited, DirtyThen
  <2>2. \A e \in Entries : e = s \/ e \in Entries'
    BY <1>1 DEF Entries
  <2>3. t \in Entries'
    <3>1. PICK k \in Cel : entry[k] = s
      BY DEF Entries
    <3>2. entry'[k] = t /\ t # None
      BY <1>1, <1>2, <3>1, TokenAssumption
    <3> QED
      BY <3>2 DEF Entries
  <2>4. RoundHolds'
    <3>1. s \in named' /\ bytes'[s] = bytes'[t]
      BY <1>1, <1>4, <1>7, <1>8
    <3>2. \A k \in Cel : fileRef'[k] # None => fileRef'[k] \in Entries' \cup {s}
      BY <1>3, <1>6, <2>2
    <3> QED
      BY <1>5, <2>3, <3>1, <3>2 DEF RoundHolds
  <2> QED
    BY <1>5, <2>1, <2>4 DEF PhaseHolds, WritesWhole
<1> QED
  BY <1>9, <1>11, <1>12, <1>13, <1>14 DEF SInv

\* The tail cut off is nothing's: every ref reads an entry.
LEMMA CutHolds ==
    ASSUME ~RoomFills, SInv, Cut
    PROVE  SInv' /\ Reads' = Reads
<1>1. bytes' = [r \in Ref |-> IF r \in Dead THEN None ELSE bytes[r]]
  BY DEF Cut
<1>2. UNCHANGED <<hot, order, cold, fileRef, worn, leaving, edits, content, pass, thaws, filed,
                  entry, named, saves>>
  BY DEF Cut, tiers
<1>3. /\ saving.phase = "pack" /\ saving'.phase = "adopt" /\ saving' \in Savings
      /\ saving'.work = saving.work /\ saving'.ticks = saving.ticks /\ saving'.seen = saving.seen
      /\ saving'.got = saving.got /\ saving'.moved = saving.moved
  BY DEF Cut, At, SInv, SaveShape, Savings
<1>4. SnapshotHolds /\ SnapshotIsFiled /\ \A k \in Cel : fileRef[k] # None => fileRef[k] \in Entries
  BY <1>3 DEF SInv, PhaseHolds
<1>5. \A e \in Entries : e \in Ref /\ bytes'[e] = bytes[e]
  BY <1>1 DEF Dead, Entries, SInv, SaveShape, Ref
<1>6. IInv' /\ Reads' = Reads
  <2>1. \A k \in Cel : fileRef[k] # None => bytes'[fileRef[k]] = Reads[k] /\ Reads[k] # None
    BY <1>4, <1>5, RefsRead DEF SInv
  <2>2. \A f \in Park : bytes'[f] = bytes[f]
    BY <1>1, TokenAssumption DEF Ref, Dead, SInv, SaveShape
  <2>3. \A k \in Cel, r \in Slot, p \in Pic :
          thawing[k] = Decoding(r, p) => bytes'[r] \in {bytes[r], None}
    BY <1>1 DEF Ref
  <2>4. /\ fileRef' \in [Cel -> Slot \cup {None}] /\ filed' \in [Cel -> Pic \cup {None}]
        /\ bytes' \in [Ref -> Pic \cup {None}]
    BY <1>1, <1>2 DEF SInv, IInv, DiskHolds, MarksHold
  <2> QED
    BY <1>2, <2>1, <2>2, <2>3, <2>4, FileMoves DEF SInv
<1>7. dirty' = dirty
  BY <1>2 DEF edits
<1>8. CleanIsFiled'
  BY <1>2, <1>6, <1>7 DEF SInv, CleanIsFiled, Reads
<1>9. SaveShape'
  BY <1>2, <1>3 DEF SInv, SaveShape
<1>10. PlacesHold'
  <2>1. \A k \in Cel : entry[k] # None => bytes'[entry[k]] = bytes[entry[k]]
    BY <1>5 DEF Entries
  <2> QED
    BY <1>2, <2>1 DEF SInv, PlacesHold, thaws
<1>11. PhaseHolds'
  <2>1. SnapshotHolds' /\ SnapshotIsFiled'
    BY <1>2, <1>3, <1>4, <1>6, <1>7 DEF SnapshotHolds, SnapshotIsFiled, Edited, DirtyThen
  <2> QED
    BY <1>3, <2>1 DEF PhaseHolds, WritesWhole
<1> QED
  BY <1>6, <1>8, <1>9, <1>10, <1>11 DEF SInv

-----------------------------------------------------------------------------
(* The append, and adopting.                                                *)

\* Where no two keys share a place, the key at a place is the one laid there.
LEMMA LaidAt ==
    ASSUME NEW W, NEW p, \A j, k \in W : p[j] = p[k] => j = k, NEW g, NEW j \in W
    PROVE  g[CHOOSE k \in W : p[k] = p[j]] = g[j]
<1>1. (CHOOSE k \in W : p[k] = p[j]) = j
  OBVIOUS
<1> QED
  BY <1>1

\* The dirty cels with a picture, and where the file is given a place for it.
LEMMA AppendDirtyHolds ==
    ASSUME ~RoomFills, SInv, AppendDirty
    PROVE  SInv' /\ Reads' = Reads
<1> DEFINE got == [k \in Cel |-> IF k \in DirtyThen THEN Resolve(saving.work[k]) ELSE None]
           W   == {k \in Cel : got[k] # None}
           P   == Places(W)
<1>1. /\ entry' = [k \in Cel |-> IF k \in W THEN P[k] ELSE IF k \in Emptied THEN None ELSE entry[k]]
      /\ bytes' = [r \in Ref |-> IF \E k \in W : P[k] = r
                                 THEN got[CHOOSE k \in W : P[k] = r] ELSE bytes[r]]
      /\ named' = named \cup {P[k] : k \in W}
      /\ filed' = Filed(entry', bytes')
      /\ saving.phase = "append" /\ Backed /\ Layings(W, Slot \ named) # {}
      /\ \E p \in {"adopt", "rehome"} : saving' = [saving EXCEPT !.phase = p, !.got = got]
      /\ UNCHANGED <<hot, order, cold, fileRef, worn, leaving, edits, content, pass, thaws, saves>>
  BY DEF AppendDirty, Room, tiers
<1>2. SnapshotHolds /\ WorkHolds /\ RefsOfSnapshot /\ CleanWereFiled
  BY <1>1 DEF SInv, PhaseHolds
<1>3. \A k \in Cel : got[k] = IF k \in DirtyThen THEN saving.seen[k] ELSE None
  BY <1>2 DEF WorkHolds
<1>4. \A k \in Cel : saving.seen[k] \in Pic \cup {None}
  BY DEF SInv, SaveShape, Savings
<1>5. got \in [Cel -> Pic \cup {None}]
  BY <1>3, <1>4
<1>6. W \subseteq Cel /\ \A k \in Cel : k \in W <=> k \in DirtyThen /\ saving.seen[k] # None
  BY <1>3
<1>7. \A k \in Cel : k \in Emptied <=> k \in DirtyThen /\ saving.seen[k] = None
  BY <1>2 DEF Emptied, SnapshotHolds, DirtyThen
<1> HIDE DEF got, W
<1>8. P \in [W -> Slot \ named] /\ \A j, k \in W : P[j] = P[k] => j = k
  BY <1>1, Laying DEF Places
<1> HIDE DEF P
<1>9. /\ \A k \in W : P[k] \in Slot /\ P[k] \notin named /\ P[k] # None /\ bytes'[P[k]] = saving.seen[k]
      /\ \A r \in Ref : (\A k \in W : P[k] # r) => bytes'[r] = bytes[r]
  <2>1. \A k \in W : bytes'[P[k]] = got[k]
    <3> SUFFICES ASSUME NEW k \in W PROVE bytes'[P[k]] = got[k]
      OBVIOUS
    <3>1. P[k] \in Ref
      BY <1>8 DEF Ref
    <3>2. bytes'[P[k]] = got[CHOOSE j \in W : P[j] = P[k]]
      BY <1>1, <3>1
    <3> QED
      BY <1>8, <3>2, LaidAt
  <2>2. \A k \in W : P[k] \in Slot /\ P[k] \notin named /\ P[k] # None
    BY <1>8, TokenAssumption
  <2>3. \A k \in W : got[k] = saving.seen[k]
    BY <1>3, <1>6
  <2> QED
    BY <1>1, <2>1, <2>2, <2>3
<1>10. \A r \in Ref : r \in Park \/ r \in named => bytes'[r] = bytes[r]
  BY <1>9, TokenAssumption
<1>11. bytes' \in [Ref -> Pic \cup {None}]
  <2>1. \A r \in Ref : bytes'[r] \in Pic \cup {None}
    BY <1>4, <1>6, <1>9 DEF SInv, IInv, DiskHolds
  <2>2. bytes' = [r \in Ref |-> bytes'[r]]
    BY <1>1
  <2> QED
    BY <2>1, <2>2
<1>12. named \subseteq Slot /\ Slot \subseteq Ref /\ Park \subseteq Ref
  BY DEF SInv, SaveShape, Ref
<1>13. \A k \in Cel : entry[k] # None => entry[k] \in named /\ bytes'[entry[k]] = bytes[entry[k]]
  BY <1>10, <1>12 DEF SInv, PlacesHold
<1>14. \A k \in Cel : /\ entry'[k] # None => /\ entry'[k] \in named' /\ entry'[k] \in Slot
                                             /\ bytes'[entry'[k]] \in Pic
                      /\ filed'[k] = IF entry'[k] = None THEN None ELSE bytes'[entry'[k]]
                      /\ filed'[k] = saving.seen[k]
                      /\ k \notin DirtyThen => entry'[k] = entry[k]
  <2> SUFFICES ASSUME NEW k \in Cel
               PROVE  /\ entry'[k] # None => /\ entry'[k] \in named' /\ entry'[k] \in Slot
                                             /\ bytes'[entry'[k]] \in Pic
                      /\ filed'[k] = IF entry'[k] = None THEN None ELSE bytes'[entry'[k]]
                      /\ filed'[k] = saving.seen[k]
                      /\ k \notin DirtyThen => entry'[k] = entry[k]
    OBVIOUS
  <2>1. filed'[k] = IF entry'[k] = None THEN None ELSE bytes'[entry'[k]]
    BY <1>1 DEF Filed
  <2>2. CASE k \in W
    <3>1. entry'[k] = P[k]
      BY <1>1, <2>2
    <3> QED
      BY <1>1, <1>4, <1>6, <1>9, <2>1, <2>2, <3>1
  <2>3. CASE k \in Emptied
    <3>1. entry'[k] = None
      BY <1>1, <1>6, <1>7, <2>3
    <3> QED
      BY <1>7, <2>1, <2>3, <3>1
  <2>4. CASE k \notin DirtyThen
    <3>1. entry'[k] = entry[k]
      BY <1>1, <1>6, <1>7, <2>4
    <3>2. filed[k] = saving.seen[k]
      BY <1>2, <2>4 DEF CleanWereFiled
    <3> QED
      BY <1>1, <1>12, <1>13, <2>1, <3>1, <3>2 DEF SInv, PlacesHold
  <2> QED
    BY <1>6, <1>7, <2>2, <2>3, <2>4
<1>15. entry' \in [Cel -> Slot \cup {None}] /\ filed' \in [Cel -> Pic \cup {None}]
  <2>1. entry' = [k \in Cel |-> entry'[k]] /\ filed' = [k \in Cel |-> filed'[k]]
    BY <1>1 DEF Filed
  <2>2. \A k \in Cel : entry'[k] \in Slot \cup {None} /\ filed'[k] \in Pic \cup {None}
    BY <1>4, <1>14
  <2> QED
    BY <2>1, <2>2
<1>16. IInv' /\ Reads' = Reads
  <2>1. \A k \in Cel : fileRef[k] # None => bytes'[fileRef[k]] = Reads[k] /\ Reads[k] # None
    BY <1>10, <1>12, RefsRead DEF SInv, PlacesHold
  <2>2. \A k \in Cel, r \in Slot, p \in Pic :
          thawing[k] = Decoding(r, p) => bytes'[r] \in {bytes[r], None}
    BY <1>10, <1>12 DEF SInv, PlacesHold
  <2>3. fileRef' \in [Cel -> Slot \cup {None}]
    BY <1>1 DEF SInv, IInv, DiskHolds
  <2> QED
    BY <1>1, <1>10, <1>11, <1>12, <1>15, <2>1, <2>2, <2>3, FileMoves DEF SInv
<1>17. PICK p \in {"adopt", "rehome"} : saving' = [saving EXCEPT !.phase = p, !.got = got]
  BY <1>1
<1>18. /\ saving'.phase = p /\ saving' \in Savings /\ saving'.refs = saving.refs
       /\ saving'.work = saving.work /\ saving'.ticks = saving.ticks /\ saving'.seen = saving.seen
       /\ saving'.got = got /\ saving'.moved = <<None, None>>
  BY <1>1, <1>5, <1>17 DEF SInv, SaveShape, Savings
<1>19. dirty' = dirty
  BY <1>1 DEF edits
<1>20. CleanIsFiled'
  <2>1. \A k \in Cel : dirty[k] = 0 => Reads[k] = saving.seen[k]
    BY <1>2 DEF SnapshotHolds, Edited, SInv, SaveShape, Savings
  <2> QED
    BY <1>14, <1>16, <1>19, <2>1 DEF CleanIsFiled, Reads
<1>21. SaveShape'
  <2>1. named' \subseteq Slot
    BY <1>1, <1>9, <1>12
  <2> QED
    BY <1>1, <1>15, <1>18, <2>1 DEF SInv, SaveShape
<1>22. PlacesHold'
  <2>1. \A k \in Cel : fileRef'[k] # None => fileRef'[k] \in named'
    BY <1>1 DEF SInv, PlacesHold
  <2>2. \A k \in Cel, r \in Slot, q \in Pic : thawing'[k] = Decoding(r, q) => r \in named'
    BY <1>1 DEF SInv, PlacesHold, thaws
  <2> QED
    BY <1>14, <2>1, <2>2 DEF PlacesHold
<1>23. PhaseHolds'
  <2>1. SnapshotHolds'
    BY <1>2, <1>16, <1>18, <1>19 DEF SnapshotHolds, Edited
  <2>2. SnapshotIsFiled'
    BY <1>3, <1>14, <1>18 DEF SnapshotIsFiled, DirtyThen
  <2>3. RefsOfSnapshot'
    BY <1>1, <1>2, <1>10, <1>12, <1>18 DEF RefsOfSnapshot
  <2>4. Backed'
    BY <1>1, <1>14, <1>18 DEF Backed, DirtyThen
  <2> QED
    BY <1>18, <2>1, <2>2, <2>3, <2>4 DEF PhaseHolds, WritesWhole
<1> QED
  BY <1>16, <1>20, <1>21, <1>22, <1>23 DEF SInv

\* Refs to what the save wrote go to the cels not edited since; the file holds
\* every other cel as its mark says.
LEMMA AdoptHolds ==
    ASSUME ~RoomFills, SInv, saving.phase # "none",
           NEW W \in SUBSET Cel, NEW e, NEW L, L = {}, Adopt(W, e, L),
           bytes' \in [Ref -> Pic \cup {None}],
           \A f \in Park : bytes'[f] = bytes[f],
           \A k \in Adoptable(W) : e[k] \in Slot /\ bytes'[e[k]] = saving.seen[k] /\ saving.seen[k] # None,
           \A k \in Cel \ Adoptable(W) : fileRef[k] # None => bytes'[fileRef[k]] = bytes[fileRef[k]],
           \A k \in Cel, r \in Slot, p \in Pic :
               thawing[k] = Decoding(r, p) => bytes'[r] \in {bytes[r], None},
           filed' = saving.seen
    PROVE  /\ IInv' /\ CleanIsFiled' /\ Reads' = Reads
           /\ \A k \in Cel : fileRef'[k] = IF k \in Adoptable(W) THEN e[k] ELSE fileRef[k]
<1> DEFINE A == Adoptable(W)
<1>1. /\ cold' = [k \in Cel |-> IF k \in A THEN None ELSE cold[k]]
      /\ leaving' = leaving \cup ({cold[k] : k \in A} \ {None})
      /\ fileRef' = [k \in Cel |-> IF k \in A THEN e[k] ELSE fileRef[k]]
      /\ dirty' = [k \in Cel |-> IF k \in DirtyThen /\ ~Edited(k) THEN 0 ELSE dirty[k]]
      /\ UNCHANGED <<hot, order, worn, tick, pass, thaws>>
  BY DEF Adopt, DropParks, LetGo, ClearMarks
<1>2. content' \subseteq Cel
  BY DEF Adopt, NoteCelContent, Adoptable, SInv, IInv, MarksHold
<1>3. A \in SUBSET Cel /\ \A k \in A : Reads[k] = saving.seen[k]
  BY DEF Adoptable, SInv, PhaseHolds, SnapshotHolds
<1> HIDE DEF A
<1>4. \A k \in Cel : fileRef'[k] # None => bytes'[fileRef'[k]] = Reads[k] /\ Reads[k] # None
  BY <1>1, <1>3, RefsRead DEF SInv, A
<1>5. \A k \in Cel : fileRef'[k] = None => k \notin A /\ fileRef[k] = None
  BY <1>1, TokenAssumption DEF A
<1>6. cold' \in [Cel -> Park \cup {None}] /\ fileRef' \in [Cel -> Slot \cup {None}]
  BY <1>1 DEF SInv, IInv, DiskHolds, A
<1>7. \A k \in Cel : dirty[k] \in Nat /\ saving.ticks[k] \in Nat
  BY DEF SInv, IInv, MarksHold, SaveShape, Savings
<1>8. dirty' \in [Cel -> Nat] /\ \A k \in Cel : dirty'[k] <= dirty[k]
  BY <1>1, <1>7
<1>9. filed' \in [Cel -> Pic \cup {None}]
  BY DEF SInv, SaveShape, Savings
<1>10. \A k \in Cel : cold'[k] = IF k \in A THEN None ELSE cold[k]
  BY <1>1
<1>11. IInv' /\ Reads' = Reads
  BY <1>1, <1>2, <1>3, <1>4, <1>5, <1>6, <1>8, <1>9, <1>10, SaveMoves DEF SInv
<1>12. CleanIsFiled'
  <2>1. \A k \in Cel : dirty'[k] = 0 => ~Edited(k)
    BY <1>1, <1>7 DEF Edited
  <2>2. \A k \in Cel : dirty'[k] = 0 => Reads'[k] = filed'[k]
    BY <1>11, <2>1 DEF SInv, PhaseHolds, SnapshotHolds
  <2> QED
    BY <2>2 DEF CleanIsFiled, Reads
<1> QED
  BY <1>1, <1>11, <1>12 DEF A

LEMMA AdoptAppendedHolds ==
    ASSUME ~RoomFills, SInv, AdoptAppended
    PROVE  SInv' /\ Reads' = Reads /\ filed' = saving.seen
<1> DEFINE L == DirtyThen \ (Written \cup Emptied)
<1>1. /\ saving.phase = "adopt" /\ Adopt(Written, entry, L)
      /\ UNCHANGED <<bytes, filed, entry, named>>
  BY DEF AdoptAppended
<1>2. SnapshotHolds /\ SnapshotIsFiled
  BY <1>1 DEF SInv, PhaseHolds
<1>3. L = {}
  BY <1>2 DEF DirtyThen, Written, Emptied, SnapshotHolds, SnapshotIsFiled
<1> HIDE DEF L
<1>4. filed' = saving.seen
  <2>1. DOMAIN filed = Cel /\ DOMAIN saving.seen = Cel
    BY DEF SInv, IInv, MarksHold, SaveShape, Savings
  <2>2. filed = [k \in Cel |-> filed[k]] /\ saving.seen = [k \in Cel |-> saving.seen[k]]
    BY DEF SInv, IInv, MarksHold, SaveShape, Savings
  <2> QED
    BY <1>1, <1>2, <2>2 DEF SnapshotIsFiled
<1>5. \A k \in Adoptable(Written) :
        entry[k] \in Slot /\ bytes'[entry[k]] = saving.seen[k] /\ saving.seen[k] # None
  BY <1>1, <1>2 DEF Adoptable, Written, SnapshotIsFiled, SInv, PlacesHold, SaveShape
<1>6. bytes' \in [Ref -> Pic \cup {None}] /\ Written \in SUBSET Cel
  BY <1>1 DEF SInv, IInv, DiskHolds, Written
<1>7. /\ IInv' /\ CleanIsFiled' /\ Reads' = Reads
      /\ \A k \in Cel : fileRef'[k] = IF k \in Adoptable(Written) THEN entry[k] ELSE fileRef[k]
  <2>1. saving.phase # "none" /\ \A f \in Park : bytes'[f] = bytes[f]
    BY <1>1
  <2>2. \A k \in Cel \ Adoptable(Written) : fileRef[k] # None => bytes'[fileRef[k]] = bytes[fileRef[k]]
    BY <1>1
  <2>3. \A k \in Cel, r \in Slot, p \in Pic :
          thawing[k] = Decoding(r, p) => bytes'[r] \in {bytes[r], None}
    BY <1>1
  <2> QED
    BY <1>1, <1>3, <1>4, <1>5, <1>6, <2>1, <2>2, <2>3, AdoptHolds
<1>8. saving' = NoSave /\ UNCHANGED <<thawing, saves>>
  BY <1>1 DEF Adopt, thaws
<1>9. PlacesHold'
  <2>1. \A k \in Cel : fileRef'[k] # None => fileRef'[k] \in named
    BY <1>5, <1>7, TokenAssumption DEF SInv, PlacesHold, Adoptable
  <2> QED
    BY <1>1, <1>8, <2>1 DEF SInv, PlacesHold
<1>10. SaveShape' /\ PhaseHolds'
  BY <1>1, <1>8 DEF SInv, SaveShape, NoSave, Nothing, Savings, PhaseHolds, WritesWhole
<1> QED
  BY <1>4, <1>7, <1>9, <1>10 DEF SInv

\* The whole file renamed over: no cel still reads the one it replaced.
LEMMA SwapWholeHolds ==
    ASSUME ~RoomFills, SInv, SwapWhole
    PROVE  SInv' /\ Reads' = Reads /\ filed' = saving.seen
<1> DEFINE P == Places(Written)
           e == [k \in Cel |-> IF k \in Written THEN P[k] ELSE None]
           L == {k \in Cel \ Written : saving.work[k] # None}
<1>1. /\ saving.phase = "swap" /\ Layings(Written, Slot \ named) # {}
      /\ bytes' = [r \in Ref |->
                    IF r \in Park THEN bytes[r]
                    ELSE IF \E k \in Written : P[k] = r
                         THEN saving.got[CHOOSE k \in Written : P[k] = r] ELSE None]
      /\ entry' = e /\ named' = named \cup {P[k] : k \in Written}
      /\ filed' = Filed(entry', bytes')
      /\ Adopt(Written, e, L)
  BY DEF SwapWhole, Room
<1>2. SnapshotHolds /\ (\A k \in Cel : saving.got[k] = saving.seen[k])
                    /\ (\A k \in Cel : Edited(k) => fileRef[k] = None)
  BY <1>1 DEF SInv, PhaseHolds, WritesWhole
<1>3. \A k \in Cel : k \in Written <=> saving.seen[k] # None
  BY <1>2 DEF Written
<1>4. L = {}
  BY <1>2, <1>3 DEF SnapshotHolds
<1> HIDE DEF L
<1>5. Written \subseteq Cel /\ \A k \in Cel : saving.seen[k] \in Pic \cup {None}
  BY DEF Written, SInv, SaveShape, Savings
<1>6. P \in [Written -> Slot \ named] /\ \A j, k \in Written : P[j] = P[k] => j = k
  BY <1>1, Laying DEF Places
<1> HIDE DEF P
<1>7. \A r \in Slot : r \in Ref /\ r \notin Park
  BY TokenAssumption DEF Ref
<1>8. \A k \in Written : P[k] \in Slot /\ P[k] \notin named /\ P[k] # None
                         /\ bytes'[P[k]] = saving.seen[k] /\ saving.seen[k] \in Pic
  <2> SUFFICES ASSUME NEW k \in Written
               PROVE  P[k] \in Slot /\ P[k] \notin named /\ P[k] # None
                      /\ bytes'[P[k]] = saving.seen[k] /\ saving.seen[k] \in Pic
    OBVIOUS
  <2>1. P[k] \in Slot /\ P[k] \notin named /\ P[k] # None
    BY <1>6, TokenAssumption
  <2>2. bytes'[P[k]] = saving.got[CHOOSE j \in Written : P[j] = P[k]]
    BY <1>1, <1>7, <2>1
  <2>3. bytes'[P[k]] = saving.got[k]
    BY <1>6, <2>2, LaidAt
  <2> QED
    BY <1>2, <1>3, <1>5, <2>1, <2>3
<1>9. \A r \in Slot : (\A k \in Written : P[k] # r) => bytes'[r] = None
  BY <1>1, <1>7
<1>10. \A f \in Park : bytes'[f] = bytes[f]
  BY <1>1 DEF Ref
<1>11. bytes' \in [Ref -> Pic \cup {None}]
  <2>1. \A r \in Ref : bytes'[r] \in Pic \cup {None}
    BY <1>8, <1>9, <1>10 DEF Ref, SInv, IInv, DiskHolds
  <2>2. bytes' = [r \in Ref |-> bytes'[r]]
    BY <1>1
  <2> QED
    BY <2>1, <2>2
<1>12. \A k \in Cel : /\ entry'[k] = IF k \in Written THEN P[k] ELSE None
                      /\ entry'[k] # None <=> k \in Written
                      /\ filed'[k] = IF entry'[k] = None THEN None ELSE bytes'[entry'[k]]
                      /\ filed'[k] = saving.seen[k]
  <2>1. \A k \in Cel : /\ entry'[k] = IF k \in Written THEN P[k] ELSE None
                       /\ entry'[k] # None <=> k \in Written
    BY <1>1, <1>8
  <2>2. \A k \in Cel : filed'[k] = IF entry'[k] = None THEN None ELSE bytes'[entry'[k]]
    BY <1>1 DEF Filed
  <2> QED
    BY <1>3, <1>8, <2>1, <2>2
<1>13. filed' = saving.seen
  <2>1. filed' = [k \in Cel |-> filed'[k]]
    BY <1>1 DEF Filed
  <2>2. saving.seen = [k \in Cel |-> saving.seen[k]]
    BY DEF SInv, SaveShape, Savings
  <2> QED
    BY <1>12, <2>1, <2>2
<1>14. \A k \in Adoptable(Written) :
         e[k] = P[k] /\ e[k] \in Slot /\ bytes'[e[k]] = saving.seen[k] /\ saving.seen[k] # None
  BY <1>3, <1>5, <1>8 DEF Adoptable
<1>15. \A k \in Cel \ Adoptable(Written) : fileRef[k] = None
  <2> SUFFICES ASSUME NEW k \in Cel \ Adoptable(Written), ~Edited(k), fileRef[k] # None PROVE FALSE
    BY <1>2
  <2>1. Reads[k] = saving.seen[k] /\ Reads[k] # None
    BY <1>2, RefsRead DEF SnapshotHolds, SInv
  <2> QED
    BY <1>3, <2>1 DEF Adoptable
<1> HIDE DEF e
<1>16. \A k \in Cel, r \in Slot, p \in Pic :
         thawing[k] = Decoding(r, p) => bytes'[r] \in {bytes[r], None}
  BY <1>8, <1>9 DEF SInv, PlacesHold
<1>17. /\ IInv' /\ CleanIsFiled' /\ Reads' = Reads
       /\ \A k \in Cel : fileRef'[k] = IF k \in Adoptable(Written) THEN e[k] ELSE fileRef[k]
  <2>1. saving.phase # "none" /\ Written \in SUBSET Cel
    BY <1>1, <1>5
  <2>2. \A k \in Cel \ Adoptable(Written) : fileRef[k] # None => bytes'[fileRef[k]] = bytes[fileRef[k]]
    BY <1>15
  <2>3. \A k \in Adoptable(Written) :
          e[k] \in Slot /\ bytes'[e[k]] = saving.seen[k] /\ saving.seen[k] # None
    BY <1>14
  <2>4. Adopt(Written, e, L)
    BY <1>1
  <2> QED
    BY <1>4, <1>10, <1>11, <1>13, <1>16, <2>1, <2>2, <2>3, <2>4, AdoptHolds
<1>18. saving' = NoSave /\ UNCHANGED <<thawing, saves>>
  BY <1>1 DEF Adopt, thaws
<1>19. PlacesHold'
  <2>1. \A k \in Cel : fileRef'[k] # None => fileRef'[k] \in named'
    BY <1>1, <1>14, <1>15, <1>17 DEF Adoptable
  <2>2. \A k \in Cel, r \in Slot, p \in Pic : thawing'[k] = Decoding(r, p) => r \in named'
    BY <1>1, <1>18 DEF SInv, PlacesHold
  <2>3. \A k \in Cel : entry'[k] # None => entry'[k] \in named' /\ bytes'[entry'[k]] \in Pic
    BY <1>1, <1>8, <1>12
  <2> QED
    BY <1>12, <2>1, <2>2, <2>3 DEF PlacesHold
<1>20. SaveShape'
  <2>1. named' \subseteq Slot
    BY <1>1, <1>8 DEF SInv, SaveShape
  <2>2. entry' \in [Cel -> Slot \cup {None}]
    BY <1>1, <1>8 DEF e
  <2> QED
    BY <1>18, <2>1, <2>2 DEF SInv, SaveShape, NoSave, Nothing, Savings
<1>21. PhaseHolds'
  BY <1>18 DEF NoSave, PhaseHolds, WritesWhole
<1> QED
  BY <1>13, <1>17, <1>19, <1>20, <1>21 DEF SInv

-----------------------------------------------------------------------------
(* The theorems.                                                            *)

LEMMA SaveStepHolds ==
    ASSUME ~RoomFills, SInv, SaveStep
    PROVE  SInv' /\ Reads' = Reads
BY BeginSaveHolds, AppendDirtyHolds, AppendUnsoundHolds, RehomeRefsHolds, PackRoundHolds,
   MoveRefsHolds, CutHolds, AdoptAppendedHolds, WriteWholeHolds, SwapWholeHolds, SaveFailsHolds
   DEF SaveStep

LEMMA SaveInitHolds ==
    ASSUME SaveInit
    PROVE  SInv
<1>1. Init /\ entry = fileRef /\ named = Entries /\ saving = NoSave /\ saves = 0
  BY DEF SaveInit
<1>2. IInv
  BY <1>1, InitHolds
<1>3. hot = [k \in Cel |-> None] /\ cold = [k \in Cel |-> None] /\ filed = Reads
      /\ thawing = [k \in Cel |-> NoThaw]
  BY <1>1 DEF Init
<1>4. \A k \in Cel : filed[k] = IF entry[k] = None THEN None ELSE bytes[entry[k]]
  BY <1>1, <1>3, ReadsAre DEF ReadOf
<1>5. CleanIsFiled
  BY <1>3 DEF CleanIsFiled, Reads
<1>6. PlacesHold
  <2>1. \A k \in Cel : entry[k] # None => entry[k] \in named /\ bytes[entry[k]] \in Pic
    BY <1>1, <1>2 DEF Entries, IInv, DiskHolds, RefsHold
  <2>2. \A k \in Cel, r \in Slot, p \in Pic : thawing[k] # Decoding(r, p)
    BY <1>3 DEF NoThaw, Decoding
  <2> QED
    BY <1>1, <1>4, <2>1, <2>2 DEF PlacesHold
<1>7. SaveShape
  <2>1. 0 \in 0..MaxSaves
    BY SaveAssumption
  <2>2. entry \in [Cel -> Slot \cup {None}] /\ named \subseteq Slot
    BY <1>1, <1>2 DEF IInv, DiskHolds, Entries
  <2> QED
    BY <1>1, <2>1, <2>2 DEF SaveShape, NoSave, Nothing, Savings
<1>8. PhaseHolds
  BY <1>1, IdleHolds
<1> QED
  BY <1>2, <1>5, <1>6, <1>7, <1>8 DEF SInv

\* A stutter of everything.
LEMMA SaveStutters ==
    ASSUME SInv, UNCHANGED allVars
    PROVE  SInv' /\ Reads' = Reads
<1>1. UNCHANGED <<vars, entry, named, saving, saves>>
  BY DEF allVars, saveVars
<1>2. IInv' /\ CleanIsFiled' /\ PlacesHold' /\ Reads' = Reads
  BY <1>1, StoreStill
<1>3. UNCHANGED <<fileRef, bytes, worn, dirty, filed>>
  BY <1>1 DEF vars, tiers, disk, edits
<1>4. SaveShape'
  BY <1>1 DEF SInv, SaveShape
<1>5. PhaseHolds'
  BY <1>1, <1>2, <1>3 DEF SInv, PhaseHolds, SnapshotHolds, WorkHolds, RefsOfSnapshot, CleanWereFiled,
     SnapshotIsFiled, RoundHolds, Backed, Entries, DirtyThen, Edited, Resolve, WritesWhole
<1> QED
  BY <1>2, <1>4, <1>5 DEF SInv

\* The invariant of every behaviour; a save moves no picture.
LEMMA AlwaysSInv ==
    ASSUME ~RoomFills, ~RemovesMidSave, ~CarriesMidWrite
    PROVE  SaveSpec => []SInv
<1>1. SaveInit => SInv
  BY SaveInitHolds
<1>2. SInv /\ [SaveNext]_allVars => SInv'
  BY BesideHolds, SaveStepHolds, SaveStutters DEF SaveNext
<1> QED
  BY <1>1, <1>2, PTL DEF SaveSpec

\* Through a save - its appends, its whole writes, the rounds of its push-down
\* and what it adopts, between edits, thaws and cooling - the store keeps its
\* word: unfiled pictures readable, copies agreeing, no park orphaned, what is
\* unmarked filed, and what is filed where the directory says.
THEOREM SaveSound ==
    ASSUME ~RoomFills, ~RemovesMidSave, ~CarriesMidWrite
    PROVE  SaveSpec => []SaveIsSound
<1>1. SInv => SaveIsSound
  BY SInvImplies
<1> QED
  BY <1>1, AlwaysSInv, PTL

\* The end of a save that ends well: the file holds every cel as the snapshot
\* saw it, whatever was drawn, parked or moved while the isolate wrote.
THEOREM SaveFilesSnapshot ==
    ASSUME ~RoomFills, ~RemovesMidSave, ~CarriesMidWrite
    PROVE  SaveSpec => SnapshotFiled
<1>1. SInv /\ [SaveNext]_allVars => [AdoptAppended \/ SwapWhole => filed' = saving.seen]_allVars
  BY AdoptAppendedHolds, SwapWholeHolds
<1> QED
  BY <1>1, AlwaysSInv, PTL DEF SaveSpec, SnapshotFiled

\* A store that is saved still implements the map: no picture moves by a save,
\* only by an edit (BrushFrameStore.adoptSavedFile, relocateFileRefs).
THEOREM SaveImplementsMap ==
    ASSUME ~RoomFills, ~RemovesMidSave, ~CarriesMidWrite
    PROVE  SaveSpec => ImplementsCelMap
<1>1. SaveInit => Map!Init
  <2> SUFFICES ASSUME SaveInit PROVE Reads \in [Cel -> Pic \cup {None}]
    BY DEF Map!Init
  <2>1. filed = Reads /\ Init
    BY DEF SaveInit, Init
  <2> QED
    BY <2>1, InitHolds DEF IInv, MarksHold
<1>2. SInv /\ [SaveNext]_allVars => [Map!Next]_Reads
  <2>1. ASSUME Quiet PROVE Reads' = Reads
    BY <2>1, WholeMap, ReadsIs DEF Quiet
  <2>2. ASSUME SInv, Beside PROVE [Map!Next]_Reads
    BY <2>1, <2>2, NextHolds, EditHolds DEF Beside, SInv
  <2> QED
    BY <2>2, SaveStepHolds, SaveStutters DEF SaveNext
<1> QED
  BY <1>1, <1>2, AlwaysSInv, PTL DEF SaveSpec, ImplementsCelMap, Map!Spec

=============================================================================
