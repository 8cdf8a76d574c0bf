------------------------------ MODULE CelStore ------------------------------
(***************************************************************************)
(* The cel store of one open project (BrushFrameStore): where each drawing *)
(* is kept.  A cel's picture is in RAM (hot), parked in a file of the      *)
(* run's scratch room (cold), in the saved project file (file-backed), or  *)
(* hot and file-backed at once while the two agree.  A cooling pass parks  *)
(* the least recently used hot cels when there are more of them than the   *)
(* budget allows; a read thaws a kept cel back, at once or on a worker.    *)
(*                                                                         *)
(* Every store operation runs to its end before another starts (one        *)
(* isolate), so each is one action, the free drops a scheduled cooling     *)
(* pass makes before its first await included.  The steps that wait - the  *)
(* compression of a cel being parked, the decode of a thaw, the removal of *)
(* a file let go - are actions of their own.                               *)
(*                                                                         *)
(* Abstractions: every picture weighs one unit of the budget; a file ref   *)
(* is the place it reads (a park's file or a slot of the saved archive)    *)
(* and the bytes there are the picture they decode to.  Two surfaces of    *)
(* the same picture are one: the code's identity tests compare pictures.   *)
(***************************************************************************)
EXTENDS Integers, Sequences, FiniteSets

CONSTANTS
    Cel,         \* canonical cel keys
    Pic,         \* pictures (immutable surfaces)
    Blank,       \* the pictures that show nothing: cleared, or cropped to nothing
    Resized,     \* what a resize of the canvas makes of each picture
    Park,        \* file names of the scratch room, each worn at most once
    Slot,        \* places in saved archives a file ref can read
    None,        \* no picture, no ref
    NormalBudget, FloorBudget,  \* how many hot cels the budget allows
    Turns,       \* thaws a worker pool runs at once
    RoomFills,   \* may the room take one write of a pass and refuse the next?
    MaxEdits     \* bound: edits in one behaviour

Ref == Park \cup Slot

ASSUME TokenAssumption ==
    /\ None \notin Pic \cup Park \cup Slot \cup Cel
    /\ Park \cap Slot = {}
ASSUME PicAssumption ==
    /\ Blank \subseteq Pic /\ Resized \in [Pic -> Pic]
    /\ \A p \in Blank : Resized[p] \in Blank  \* a crop draws nothing
ASSUME BudgetAssumption ==
    /\ NormalBudget \in Nat /\ FloorBudget \in Nat /\ FloorBudget <= NormalBudget
    /\ Turns \in Nat \ {0} /\ MaxEdits \in Nat /\ RoomFills \in BOOLEAN

VARIABLES
    hot,        \* _bakedSurfaces: the picture in RAM
    order,      \* the insertion order of _bakedSurfaces, oldest use first
    cold,       \* _coldCels: the park that holds the cel's only copy
    fileRef,    \* _fileCels: the slot of the saved archive that holds it
    bytes,      \* what is on disk under each park name and in each slot
    worn,       \* the park names given out so far
    leaving,    \* parks handed to letGo whose file is still there
    dirty,      \* _dirtySinceSave: the tick of the last unsaved edit, 0 when clean
    tick,       \* _editTick
    content,    \* _celsWithContent
    budget,     \* hotCelByteBudget
    stoodDown,  \* _coolingStoodDown
    cooling,    \* _activeCooling, and the cel whose compression it awaits
    thawing,    \* _thawing: each cel's run, and what its worker decodes
    line,       \* celThawTurns: the thaws waiting for a worker, first come first
    filed       \* what the project file holds under each cel's name

tiers   == <<hot, order, cold, fileRef>>
disk    == <<bytes, worn, leaving>>
edits   == <<dirty, tick>>
pass    == <<budget, stoodDown, cooling>>
thaws   == <<thawing, line>>
vars    == <<tiers, disk, edits, content, pass, thaws, filed>>

-----------------------------------------------------------------------------
(* What the store answers.                                                  *)

\* _kept: the ref a cel that is not hot is read through, the park first.
Kept(k) == IF cold[k] # None THEN cold[k] ELSE fileRef[k]

\* The picture a reader of k is given (bakedSurfaceOrNull).
Current(k) ==
    IF hot[k] # None THEN hot[k]
    ELSE IF Kept(k) # None THEN bytes[Kept(k)] ELSE None

Reads == [k \in Cel |-> Current(k)]

\* celHasRenderableContent: a cleared surface is still a surface.
Shows(k) == Current(k) \in Pic \ Blank

\* _activeCooling is null; a pass awaits a compression; a pass has returned
\* and its completion callback has not run yet.
CoolIdle       == [phase |-> "idle", cel |-> None, pic |-> None]
Compress(k, p) == [phase |-> "compress", cel |-> k, pic |-> p]
CoolEnded      == [phase |-> "ended", cel |-> None, pic |-> None]

\* No thaw in flight; one waiting for its turn; one on a worker.
NoThaw         == [phase |-> "none", from |-> None, pic |-> None]
Queued         == [phase |-> "queued", from |-> None, pic |-> None]
Decoding(r, p) == [phase |-> "decoding", from |-> r, pic |-> p]

-----------------------------------------------------------------------------
(* The hot tier's order and the cooling pass.                               *)

IndexIn(s, k) == CHOOSE i \in 1..Len(s) : s[i] = k
Without(s, k) ==
    IF \E i \in 1..Len(s) : s[i] = k
    THEN LET i == IndexIn(s, k)
         IN [j \in 1..(Len(s) - 1) |-> IF j < i THEN s[j] ELSE s[j + 1]]
    ELSE s
Newest(s, k) == Append(Without(s, k), k)

\* The loop's condition with n cels hot: over budget, and never the last one.
Over(n) == n > budget' /\ n > 1

\* The places in s the loop drops for free before it stops or awaits: a
\* file-backed cel's exact bytes are already in the saved archive.
FreeDrops(s) ==
    {i \in 1..Len(s) :
       \A j \in 1..i : Over(Len(s) - j + 1) /\ fileRef'[s[j]] # None}

\* _coolLoop from hot h in order s, up to its next await or its end.
CoolLoop(h, s) ==
    LET n    == Cardinality(FreeDrops(s))
        rest == SubSeq(s, n + 1, Len(s))
    IN /\ hot' = [k \in Cel |-> IF \E i \in FreeDrops(s) : s[i] = k THEN None ELSE h[k]]
       /\ order' = rest
       /\ cooling' = IF Over(Len(rest)) THEN Compress(rest[1], h[rest[1]]) ELSE CoolEnded

\* _scheduleCooling with the hot tier at h in order s, active being the pass.
ScheduleCooling(active, h, s) ==
    IF active = CoolIdle /\ ~stoodDown' /\ Over(Len(s))
    THEN CoolLoop(h, s)
    ELSE hot' = h /\ order' = s /\ cooling' = active

\* Mutant: a cel made hot schedules no cooling.
StoreHotUntended(k, p) ==
    /\ stoodDown' = FALSE
    /\ hot' = [hot EXCEPT ![k] = p]
    /\ order' = Newest(order, k)
    /\ UNCHANGED <<budget, cooling>>

\* _storeHot then _scheduleCooling: k arrives as the newest, and the pass may
\* try the room again.
StoreHot(k, p) ==
    /\ stoodDown' = FALSE
    /\ UNCHANGED budget
    /\ ScheduleCooling(cooling, [hot EXCEPT ![k] = p], Newest(order, k))

-----------------------------------------------------------------------------
(* The scratch room and the marks.                                          *)

\* ScratchFile.letGo of every file in F: gone from the maps at once, removed
\* from the disk whenever the machine gets to it (FileRemoved).
LetGo(F) == leaving' = leaving \cup (F \ {None})

\* Mutant: the ref dropped, its file forgotten in the room.
DropColdForgets(k) ==
    /\ cold' = [cold EXCEPT ![k] = None]
    /\ UNCHANGED leaving

\* _dropCold
DropCold(k) ==
    /\ cold' = [cold EXCEPT ![k] = None]
    /\ LetGo({cold[k]})

\* Mutant: the ref is written over before the file it named is let go.
KeepColdLetsGoNew(k, f, p) ==
    /\ worn' = worn \cup {f}
    /\ bytes' = [bytes EXCEPT ![f] = p]
    /\ cold' = [cold EXCEPT ![k] = f]
    /\ LetGo({f})

\* ScratchCelFiles.write of p under the new name f, kept as k's cold bytes
\* and whatever k was parked under let go (_keepCold).
KeepCold(k, f, p) ==
    /\ worn' = worn \cup {f}
    /\ bytes' = [bytes EXCEPT ![f] = p]
    /\ cold' = [cold EXCEPT ![k] = f]
    /\ LetGo({cold[k]})

ForgetFileRef(k) == fileRef' = [fileRef EXCEPT ![k] = None]

MarkDirty(k) ==
    /\ tick < MaxEdits
    /\ tick' = tick + 1
    /\ dirty' = [dirty EXCEPT ![k] = tick + 1]

\* _noteCelContent of the cels in K, asked once the tiers have moved.
NoteCelContent(K) == content' = (content \ K) \cup {k \in K : Shows(k)'}

-----------------------------------------------------------------------------
(* Edits.                                                                    *)

\* Mutant: the ref into the saved file outlives the edit.
DonateKeepsRef(k, p) ==
    /\ DropCold(k)
    /\ UNCHANGED fileRef
    /\ StoreHot(k, p)
    /\ MarkDirty(k)
    /\ UNCHANGED <<bytes, worn, thaws, filed>>
    /\ NoteCelContent({k})

\* storeBakedSurface of a surface the store does not already hold.
Donate(k, p) ==
    /\ DropCold(k)
    /\ ForgetFileRef(k)
    /\ StoreHot(k, p)
    /\ MarkDirty(k)
    /\ UNCHANGED <<bytes, worn, thaws, filed>>
    /\ NoteCelContent({k})

\* storeBakedSurface of the identical surface: clean as it was, its file ref
\* alive, only its place in the order refreshed.  No pass is scheduled here.
Redonate(k) ==
    /\ hot[k] # None
    /\ order' = Newest(order, k)
    /\ stoodDown' = FALSE
    /\ UNCHANGED <<hot, cold, fileRef, disk, edits, content, budget, cooling, thaws, filed>>

StoreBakedSurface(k, p) == IF hot[k] = p THEN Redonate(k) ELSE Donate(k, p)

\* Mutant: emptying a cel marks nothing for the next save.
RemoveBakedUnmarked(k) ==
    /\ Current(k) # None
    /\ hot' = [hot EXCEPT ![k] = None]
    /\ order' = Without(order, k)
    /\ DropCold(k)
    /\ ForgetFileRef(k)
    /\ UNCHANGED <<bytes, worn, edits, pass, thaws, filed>>
    /\ NoteCelContent({k})

\* storeBakedSurface of a surface that holds nothing (_removeBaked).
RemoveBaked(k) ==
    /\ Current(k) # None
    /\ hot' = [hot EXCEPT ![k] = None]
    /\ order' = Without(order, k)
    /\ DropCold(k)
    /\ ForgetFileRef(k)
    /\ MarkDirty(k)
    /\ UNCHANGED <<bytes, worn, pass, thaws, filed>>
    /\ NoteCelContent({k})

\* Mutant: a copy kept as bytes crosses no content line.
KeepCopyUnnoted(to) ==
    /\ hot' = [hot EXCEPT ![to] = None]
    /\ order' = Without(order, to)
    /\ MarkDirty(to)
    /\ UNCHANGED <<content, pass, thaws, filed>>

\* Mutant: a copy kept as bytes leaves its key a place in the hot order.
KeepCopyKeepsPlace(to) ==
    /\ hot' = [hot EXCEPT ![to] = None]
    /\ UNCHANGED order
    /\ MarkDirty(to)
    /\ NoteCelContent({to})
    /\ UNCHANGED <<pass, thaws, filed>>

\* _keepCopy: copy as kept bytes, whatever to held let go of.
KeepCopy(to) ==
    /\ hot' = [hot EXCEPT ![to] = None]
    /\ order' = Without(order, to)
    /\ MarkDirty(to)
    /\ NoteCelContent({to})
    /\ UNCHANGED <<pass, thaws, filed>>

\* copyCel at the source's own canvas size.
CopyCel(from, to) ==
    /\ from # to
    /\ \/ hot[from] # None /\ StoreBakedSurface(to, hot[from])
       \/ /\ hot[from] = None /\ cold[from] = None /\ fileRef[from] # None
          /\ fileRef' = [fileRef EXCEPT ![to] = fileRef[from]]
          /\ DropCold(to)
          /\ UNCHANGED <<bytes, worn>>
          /\ KeepCopy(to)
       \/ /\ hot[from] = None /\ cold[from] # None
          /\ \/ \E f \in Park \ worn : KeepCold(to, f, bytes[cold[from]])
                /\ ForgetFileRef(to)
                /\ KeepCopy(to)
             \* The room refused the copy: it is kept hot.
             \/ Donate(to, bytes[cold[from]])

\* _rehome of one pair: every tier of from goes to the key given, over what
\* that tier held there, and both are what the next save must write.
Rehome(from, to) ==
    LET carried(t) == [t EXCEPT ![from] = None,
                                ![to] = IF t[from] # None THEN t[from] ELSE t[to]]
        left       == Without(order, from) IN
    /\ Current(from) # None
    /\ hot' = carried(hot)
    /\ order' = IF hot[from] = None THEN order
                ELSE IF to # from /\ hot[to] # None THEN left ELSE Newest(left, to)
    /\ cold' = carried(cold)
    /\ fileRef' = carried(fileRef)
    /\ tick + 1 < MaxEdits
    /\ tick' = tick + 2
    /\ dirty' = [dirty EXCEPT ![from] = tick + 1, ![to] = tick + 2]
    /\ UNCHANGED <<disk, pass, thaws, filed>>
    /\ NoteCelContent({from, to})

\* Mutant: a carry onto a key that holds a cel.
CarryOver(from, to) == from # to /\ Rehome(from, to)

\* A row's block carried to another row, and its undo (rekeyFrames,
\* carryCels): a frame's id names one cel, so its key on the row it lands on
\* holds nothing.  The callers see to that; _rehome does not ask.
Carry(from, to) ==
    /\ from # to
    /\ hot[to] = None /\ cold[to] = None /\ fileRef[to] = None
    /\ Rehome(from, to)

\* resizeBakedSurfaces where the cel is hot.
ResizeHot(k) ==
    /\ hot[k] # None
    /\ Resized[hot[k]] # hot[k]
    /\ hot' = [hot EXCEPT ![k] = Resized[hot[k]]]
    /\ order' = Newest(order, k)
    /\ stoodDown' = FALSE
    /\ ForgetFileRef(k)
    /\ MarkDirty(k)
    /\ UNCHANGED <<cold, disk, budget, cooling, thaws, filed>>
    /\ NoteCelContent({k})

\* _rewriteKeptCels of a resize, where the cel is not hot: first its parked
\* bytes, then its bytes in the file, each rewritten into a park of its own -
\* or left, where the room refuses that one (None).
ResizeKept(k) ==
    LET stale(r) == r # None /\ Resized[bytes[r]] # bytes[r]
        written  == (Park \ worn) \cup {None} IN
    /\ hot[k] = None
    /\ \E c, f \in written :
        /\ c # None => stale(cold[k])
        /\ f # None => stale(fileRef[k])
        /\ c = f => c = None
        /\ {c, f} # {None}
        /\ c # None /\ stale(fileRef[k]) /\ f = None => RoomFills
        /\ LET last == IF f # None THEN f ELSE c IN
           /\ cold' = [cold EXCEPT ![k] = last]
           /\ LetGo({cold[k], c} \ {last})
           /\ bytes' = [r \in Ref |->
                          IF r = c THEN Resized[bytes[cold[k]]]
                          ELSE IF r = f THEN Resized[bytes[fileRef[k]]]
                          ELSE bytes[r]]
           /\ worn' = worn \cup ({c, f} \ {None})
        /\ fileRef' = IF f # None THEN [fileRef EXCEPT ![k] = None] ELSE fileRef
    /\ MarkDirty(k)
    /\ UNCHANGED <<hot, order, content, pass, thaws, filed>>

-----------------------------------------------------------------------------
(* Reads.                                                                    *)

\* bakedSurfaceOrNull of a hot cel, as a use.
Touch(k) ==
    /\ hot[k] # None
    /\ order' = Newest(order, k)
    /\ UNCHANGED <<hot, cold, fileRef, disk, edits, content, pass, thaws, filed>>

\* _keepThawed: the park is dropped only now, after the read and the decode.
KeepThawed(k, p) ==
    /\ DropCold(k)
    /\ UNCHANGED <<fileRef, bytes, worn, edits, content, filed>>
    /\ StoreHot(k, p)

\* bakedSurfaceOrNull of a kept cel, as a use.  A read that fails, and a
\* look, change nothing.
Thaw(k) ==
    /\ hot[k] = None
    /\ Kept(k) # None
    /\ KeepThawed(k, bytes[Kept(k)])
    /\ UNCHANGED thaws

OnWorkers == Cardinality({k \in Cel : thawing[k].phase = "decoding"})

\* A thaw's turn: the bytes are read, and decoded on a worker.
BeginThaw(k) ==
    thawing' = [thawing EXCEPT ![k] =
                  IF hot[k] = None /\ Kept(k) # None
                  THEN Decoding(Kept(k), bytes[Kept(k)]) ELSE NoThaw]

\* thawAhead: joined to the run in flight, or begun when a worker is free.
ThawAhead(k) ==
    /\ hot[k] = None
    /\ Kept(k) # None
    /\ thawing[k] = NoThaw
    /\ IF OnWorkers < Turns /\ line = <<>>
       THEN BeginThaw(k) /\ UNCHANGED line
       ELSE /\ thawing' = [thawing EXCEPT ![k] = Queued]
            /\ line' = Append(line, k)
    /\ UNCHANGED <<tiers, disk, edits, content, pass, filed>>

\* Mutant: a turn given back only by a cel that still has bytes to read.
ThawTurnStalls ==
    /\ line # <<>>
    /\ OnWorkers < Turns
    /\ Kept(Head(line)) # None
    /\ BeginThaw(Head(line))
    /\ line' = Tail(line)
    /\ UNCHANGED <<tiers, disk, edits, content, pass, filed>>

\* A worker is free: the first in the line is asked again, in its turn.
ThawTurn ==
    /\ line # <<>>
    /\ OnWorkers < Turns
    /\ BeginThaw(Head(line))
    /\ line' = Tail(line)
    /\ UNCHANGED <<tiers, disk, edits, content, pass, filed>>

\* Mutant: a thaw kept without asking which bytes it was read from.
ThawLandsUnasked(k) ==
    /\ thawing[k].phase = "decoding"
    /\ thawing' = [thawing EXCEPT ![k] = NoThaw]
    /\ UNCHANGED line
    /\ IF hot[k] = None
       THEN KeepThawed(k, thawing[k].pic)
       ELSE UNCHANGED <<tiers, disk, edits, content, pass, filed>>

\* The worker answers: kept only for the very ref it was read through, and
\* only where nothing made the cel hot meanwhile.
ThawLands(k) ==
    /\ thawing[k].phase = "decoding"
    /\ thawing' = [thawing EXCEPT ![k] = NoThaw]
    /\ UNCHANGED line
    /\ IF hot[k] = None /\ Kept(k) = thawing[k].from
       THEN KeepThawed(k, thawing[k].pic)
       ELSE UNCHANGED <<tiers, disk, edits, content, pass, filed>>

\* The worker failed, or the bytes would not read: the ref stays as it is.
ThawFails(k) ==
    /\ thawing[k].phase = "decoding"
    /\ thawing' = [thawing EXCEPT ![k] = NoThaw]
    /\ UNCHANGED <<line, tiers, disk, edits, content, pass, filed>>

-----------------------------------------------------------------------------
(* The cooling pass.                                                         *)

\* The compression is back and the cel's surface is still the one taken: it
\* is parked before it is let go of, and the loop goes on.
CoolParks ==
    LET k == cooling.cel IN
    /\ cooling.phase = "compress"
    /\ hot[k] = cooling.pic
    /\ \E f \in Park \ worn : KeepCold(k, f, cooling.pic)
    /\ UNCHANGED <<fileRef, edits, content, budget, stoodDown, thaws, filed>>
    /\ CoolLoop([hot EXCEPT ![k] = None], Without(order, k))

\* The room refuses the park: the cel stays hot and the whole pass ends.
CoolRefused ==
    /\ cooling.phase = "compress"
    /\ hot[cooling.cel] = cooling.pic
    /\ stoodDown' = TRUE
    /\ cooling' = CoolEnded
    /\ UNCHANGED <<tiers, disk, edits, content, budget, thaws, filed>>

\* The cel changed while it was compressed: the stale blob is dropped.
CoolStale ==
    /\ cooling.phase = "compress"
    /\ hot[cooling.cel] # cooling.pic
    /\ UNCHANGED <<cold, fileRef, disk, edits, content, budget, stoodDown, thaws, filed>>
    /\ CoolLoop(hot, order)

\* Mutant: an ended pass schedules no other.
CoolEndsForGood ==
    /\ cooling = CoolEnded
    /\ cooling' = CoolIdle
    /\ UNCHANGED <<tiers, disk, edits, content, budget, stoodDown, thaws, filed>>

\* The pass's completion callback schedules again.
CoolEnds ==
    /\ cooling = CoolEnded
    /\ UNCHANGED <<cold, fileRef, disk, edits, content, budget, stoodDown, thaws, filed>>
    /\ ScheduleCooling(CoolIdle, hot, order)

\* Mutant: halved with no floor.
PressureUnfloored ==
    /\ budget' = budget \div 2
    /\ UNCHANGED <<cold, fileRef, disk, edits, content, stoodDown, thaws, filed>>
    /\ ScheduleCooling(cooling, hot, order)

\* respondToMemoryPressure: half the budget, never under the floor, and a
\* pass even when it did not move.
RespondToMemoryPressure ==
    /\ budget' = IF budget \div 2 < FloorBudget THEN FloorBudget ELSE budget \div 2
    /\ UNCHANGED <<cold, fileRef, disk, edits, content, stoodDown, thaws, filed>>
    /\ ScheduleCooling(cooling, hot, order)

\* MemoryPressureBudget.liftEveryWarning, as the app comes back.
LiftEveryWarning ==
    /\ budget' = NormalBudget
    /\ UNCHANGED <<tiers, disk, edits, content, stoodDown, cooling, thaws, filed>>

\* A removal letGo handed to the system lands.
FileRemoved(f) ==
    /\ f \in leaving
    /\ leaving' = leaving \ {f}
    /\ bytes' = [bytes EXCEPT ![f] = None]
    /\ UNCHANGED <<tiers, worn, edits, content, pass, thaws, filed>>

-----------------------------------------------------------------------------
\* A project just opened (restoreFromFile): every cel a ref into the file.
Init ==
    /\ hot = [k \in Cel |-> None]
    /\ order = <<>>
    /\ cold = [k \in Cel |-> None]
    /\ fileRef \in [Cel -> Slot \cup {None}]
    /\ \A j, k \in Cel : fileRef[j] = fileRef[k] /\ j # k => fileRef[j] = None
    /\ \E saved \in [Slot -> Pic] :
         bytes = [r \in Ref |-> IF r \in Slot THEN saved[r] ELSE None]
    /\ worn = {}
    /\ leaving = {}
    /\ dirty = [k \in Cel |-> 0]
    /\ tick = 0
    /\ content = {k \in Cel : Shows(k)}
    /\ budget = NormalBudget
    /\ stoodDown = FALSE
    /\ cooling = CoolIdle
    /\ thawing = [k \in Cel |-> NoThaw]
    /\ line = <<>>
    /\ filed = Reads

Edit(k) ==
    \/ \E p \in Pic : StoreBakedSurface(k, p)
    \/ RemoveBaked(k)
    \/ \E to \in Cel : CopyCel(k, to) \/ Carry(k, to)
    \/ ResizeHot(k)
    \/ ResizeKept(k)

Read(k) == Touch(k) \/ Thaw(k) \/ ThawAhead(k)

ThawBack(k) == ThawLands(k) \/ ThawFails(k)

CoolStep == CoolParks \/ CoolRefused \/ CoolStale \/ CoolEnds

Pressure == RespondToMemoryPressure \/ LiftEveryWarning

Next ==
    \/ \E k \in Cel : Edit(k) \/ Read(k) \/ ThawBack(k)
    \/ ThawTurn
    \/ CoolStep
    \/ Pressure
    \/ \E f \in Park : FileRemoved(f)

Spec == Init /\ [][Next]_vars

\* The isolate runs what is ready: a compression comes back, an ended pass
\* runs its callback, a turn that came is taken, a worker answers.
Fairness ==
    /\ WF_vars(CoolStep)
    /\ WF_vars(ThawTurn)
    /\ \A k \in Cel : WF_vars(ThawBack(k))

FairSpec == Spec /\ Fairness

-----------------------------------------------------------------------------
(* What the store promises.                                                  *)

\* The shape of every variable.
TypeOK ==
    /\ hot \in [Cel -> Pic \cup {None}]
    /\ order \in Seq(Cel)
    /\ cold \in [Cel -> Park \cup {None}]
    /\ fileRef \in [Cel -> Slot \cup {None}]
    /\ bytes \in [Ref -> Pic \cup {None}]
    /\ worn \subseteq Park /\ leaving \subseteq Park
    /\ dirty \in [Cel -> Nat] /\ tick \in Nat
    /\ content \subseteq Cel
    /\ budget \in FloorBudget..NormalBudget /\ stoodDown \in BOOLEAN
    /\ cooling \in {CoolIdle, CoolEnded} \cup {Compress(k, p) : k \in Cel, p \in Pic}
    /\ thawing \in [Cel -> {NoThaw, Queued} \cup {Decoding(r, p) : r \in Ref, p \in Pic}]
    /\ line \in Seq(Cel)
    /\ filed \in [Cel -> Pic \cup {None}]

\* A kept cel can be read: its bytes are on disk, and a parked cel's file is
\* its own, never one already handed to be removed (_dropCold, letGo).
KeptReadable ==
    \A k \in Cel :
        /\ cold[k] # None => bytes[cold[k]] # None /\ cold[k] \notin leaving
        /\ fileRef[k] # None => bytes[fileRef[k]] # None
        /\ \A j \in Cel : j # k /\ cold[j] = cold[k] => cold[k] = None

\* Wherever a cel is kept twice the copies agree, so a cooling pass that drops
\* a file-backed cel for free and a read that prefers one copy lose nothing.
TiersAgree ==
    \A k \in Cel :
        /\ hot[k] # None => cold[k] = None
        /\ fileRef[k] # None => bytes[fileRef[k]] = Current(k)

\* Only unsaved work is dirty and all of it is: a clean cel's picture is the
\* one the project file holds under its name.
CleanIsFiled == \A k \in Cel : dirty[k] = 0 => Current(k) = filed[k]

\* No park outlives its use: a file of the room is some cel's or on its way out.
NoOrphanPark ==
    \A f \in Park : bytes[f] # None => f \in leaving \/ \E k \in Cel : cold[k] = f

\* Every surface the store replaces runs the crossing detector, so it remembers
\* exactly the cels that show something (the words at celContentRevision).
ContentKnown == content = {k \in Cel : Shows(k)}

\* The detector is right about a cel.
Known(k) == k \in content <=> Shows(k)

\* No block reads empty over a drawing, on any road; and on every road but the
\* rewrite of kept bytes a cel that crosses the line is told, and one the
\* detector was right about stays so (_recordCelContent).
ContentFollows ==
    /\ [](\A k \in Cel : Shows(k) => k \in content)
    /\ [][\A k \in Cel : ResizeKept(k) \/ (Known(k) \/ Shows(k)' # Shows(k) => Known(k)')]_vars

\* The order of use lists exactly the hot cels, once each.
OrderIsHot ==
    /\ {order[i] : i \in 1..Len(order)} = {k \in Cel : hot[k] # None}
    /\ \A i, j \in 1..Len(order) : order[i] = order[j] => i = j

\* A cel becomes hot with a pass under way, stood down at a refusal, or the
\* budget kept: no road to the hot tier forgets to schedule cooling.
Tended == cooling # CoolIdle \/ stoodDown \/ ~(Len(order) > budget /\ Len(order) > 1)
GrowthIsTended == [][Len(order') > Len(order) => Tended']_vars

\* An over-full hot tier is brought under its budget, down to the last hot
\* cel, or the pass stands down at the room's refusal.
CoolingSettles ==
    cooling # CoolIdle ~>
        \/ stoodDown
        \/ Len(order) <= budget \/ Len(order) <= 1

\* Whoever draws sees a map only edits move: cooling, thawing, memory pressure
\* and the removal of scratch files are invisible in what the cels read as.
Map == INSTANCE CelMap WITH pics <- Reads
ImplementsCelMap == Map!Spec

\* A thaw asked for ahead always ends, whatever happens to its cel meanwhile.
ThawEnds == \A k \in Cel : thawing[k] # NoThaw ~> thawing[k] = NoThaw

=============================================================================
