---------------------------- MODULE ProjectSave ----------------------------
(***************************************************************************)
(* A project's cel store while it is saved (AnicelFileService.save).  A    *)
(* save takes a snapshot of the tiers and the dirty marks at once, writes  *)
(* it in an isolate of its own while the store goes on - edits, thaws,     *)
(* cooling - and comes back to adopt refs to what it wrote.  It appends    *)
(* the dirty cels to the project file and may then push the live bytes     *)
(* down over the dead ones, asking the session to move its refs after each *)
(* round; or it writes the file whole beside it and renames it over.       *)
(*                                                                         *)
(* Abstractions: a place of the file (Slot) is never named twice - writing *)
(* over dead bytes ends one place and begins another - so a ref is its own *)
(* identity, as AnicelCelFileRef objects are.  A round of the push-down    *)
(* moves one entry.  The saved file is one file under one path.            *)
(***************************************************************************)
EXTENDS CelStore

CONSTANTS
    MaxSaves,         \* bound: saves in one behaviour
    RemovesMidSave,   \* may a park let go of be removed while a save runs?
    CarriesMidWrite   \* may a cel's ref be carried or copied during a whole write?

ASSUME SaveAssumption ==
    /\ MaxSaves \in Nat /\ RemovesMidSave \in BOOLEAN /\ CarriesMidWrite \in BOOLEAN
    /\ Pic \cap Ref = {}

VARIABLES
    entry,      \* the file's directory: the place under each cel's name
    named,      \* the places of the file named so far
    saving,     \* the save under way
    saves       \* how many there have been

saveVars == <<entry, named, saving, saves>>
allVars  == <<vars, saveVars>>

-----------------------------------------------------------------------------
\* What a save holds.  work: a hot cel's payload, or the ref its bytes are
\* read through, or None for a cel with nothing.  ticks and refs: the marks
\* and refs of the snapshot.  got: what was resolved.  moved: the place a
\* round of the push-down copied, and where to.  seen: what the cels read as.
Nothing == [k \in Cel |-> None]
NoSave  == [phase |-> "none", work |-> Nothing, ticks |-> [k \in Cel |-> 0],
            refs |-> Nothing, got |-> Nothing, moved |-> <<None, None>>, seen |-> Nothing]
At(p)   == saving' = [saving EXCEPT !.phase = p]

\* _workForDirtyKey, and _saveFull's clean file-backed cels.
Work(k) ==
    IF dirty[k] = 0 /\ fileRef[k] # None THEN fileRef[k]
    ELSE IF hot[k] # None THEN hot[k] ELSE Kept(k)

\* resolveBlob: null where the file a ref points into is gone.
Resolve(w) == IF w \in Ref THEN bytes[w] ELSE w

DirtyThen == {k \in Cel : saving.ticks[k] # 0}
Edited(k) == dirty[k] > saving.ticks[k]
Written   == {k \in Cel : saving.got[k] # None}

\* Where the keys in W land: at the end of the file, or in a file of its own.
Layings(W, S) == {p \in [W -> S] : \A j, k \in W : p[j] = p[k] => j = k}
Laid(W, S)    == CHOOSE p \in Layings(W, S) : TRUE
Room(W)       == Layings(W, Slot \ named) # {}
Places(W)     == Laid(W, Slot \ named)

Entries == {entry[k] : k \in Cel} \ {None}

\* The dead bytes of the file: what no name of its directory reaches.
Dead == {s \in named : bytes[s] # None} \ Entries

\* What the file holds once its directory is e over the bytes b.
Filed(e, b) == [k \in Cel |-> IF e[k] = None THEN None ELSE b[e[k]]]

-----------------------------------------------------------------------------
(* The append.                                                               *)

\* save: the snapshot, and which way it writes.  Appending is sound when
\* every cel it would not write has a ref into the file.
BeginSave(rewriteWhole) ==
    LET sound == \A k \in Cel : dirty[k] = 0 /\ Current(k) # None => fileRef[k] # None IN
    /\ saving = NoSave
    /\ saves < MaxSaves
    /\ saves' = saves + 1
    /\ saving' = [NoSave EXCEPT !.phase = IF ~rewriteWhole /\ sound THEN "append" ELSE "whole",
                                !.work = [k \in Cel |-> Work(k)],
                                !.ticks = dirty, !.refs = fileRef, !.seen = Reads]
    /\ UNCHANGED <<vars, entry, named>>

\* Mutant: no name is taken out of the directory.
EmptiedNone == {}

\* removedNames: the dirty cels with nothing left.
Emptied == {k \in DirtyThen : saving.work[k] = None}

\* _layoutSafeToAppendOnto: every clean ref is where the directory says.
Backed == \A k \in Cel \ DirtyThen : saving.refs[k] # None => entry[k] = saving.refs[k]

\* The dirty cels resolved and appended, their old entries shadowed and the
\* names of the emptied ones taken out; with enough dead bytes, packed too.
AppendDirty ==
    LET got == [k \in Cel |-> IF k \in DirtyThen THEN Resolve(saving.work[k]) ELSE None]
        W   == {k \in Cel : got[k] # None} IN
    /\ saving.phase = "append" /\ Backed
    /\ Room(W)
    /\ entry' = [k \in Cel |-> IF k \in W THEN Places(W)[k]
                               ELSE IF k \in Emptied THEN None
                               ELSE entry[k]]
    /\ bytes' = [r \in Ref |-> IF \E k \in W : Places(W)[k] = r
                               THEN got[CHOOSE k \in W : Places(W)[k] = r] ELSE bytes[r]]
    /\ named' = named \cup {Places(W)[k] : k \in W}
    /\ filed' = Filed(entry', bytes')
    /\ \E p \in {"adopt", "rehome"} : saving' = [saving EXCEPT !.phase = p, !.got = got]
    /\ UNCHANGED <<tiers, worn, leaving, edits, content, pass, thaws, saves>>

\* A torn tail, or refs the file does not back: the whole write.
AppendUnsound ==
    /\ saving.phase = "append" /\ ~Backed
    /\ At("whole")
    /\ UNCHANGED <<vars, entry, named, saves>>

\* Mutant: a round's moves never reach the refs.
RelocateNothing(moves) == UNCHANGED fileRef

\* relocateFileRefs
Relocate(moves) ==
    fileRef' = [k \in Cel |-> IF fileRef[k] \in DOMAIN moves THEN moves[fileRef[k]] ELSE fileRef[k]]

\* Before the push-down, the refs dirty cels held into the file go to the
\* entries this save wrote for them (_rehomedRefs); the last of two wins.
RehomeRefs ==
    LET held == {k \in DirtyThen : saving.refs[k] # None} IN
    /\ saving.phase = "rehome"
    /\ \E pick \in [{saving.refs[k] : k \in held} -> held] :
          /\ \A r \in DOMAIN pick : saving.refs[pick[r]] = r
          /\ Relocate([r \in DOMAIN pick |-> entry[pick[r]]])
    /\ At("pack")
    /\ UNCHANGED <<hot, order, cold, disk, edits, content, pass, thaws, filed, entry, named, saves>>

\* A round: the entry at s copied over the dead bytes at d, the directory
\* that names its new place committed.
PackRound(s, d) ==
    /\ saving.phase = "pack"
    /\ Room({s})
    /\ LET t == Places({s})[s] IN
       /\ bytes' = [bytes EXCEPT ![t] = bytes[s], ![d] = None]
       /\ named' = named \cup {t}
       /\ entry' = [k \in Cel |-> IF entry[k] = s THEN t ELSE entry[k]]
       /\ saving' = [saving EXCEPT !.phase = "moved", !.moved = <<s, t>>]
    /\ UNCHANGED <<tiers, worn, leaving, edits, content, pass, thaws, filed, saves>>

\* The session's answer, awaited before the next round.
MoveRefs ==
    /\ saving.phase = "moved"
    /\ Relocate([r \in {saving.moved[1]} |-> saving.moved[2]])
    /\ saving' = [saving EXCEPT !.phase = "pack", !.moved = <<None, None>>]
    /\ UNCHANGED <<hot, order, cold, disk, edits, content, pass, thaws, filed, entry, named, saves>>

\* Mutant: the tail cut where the entries this save wrote end.
CutSurvivors ==
    /\ saving.phase = "pack"
    /\ bytes' = [r \in Ref |-> IF r \in named \ {entry[k] : k \in Written} THEN None ELSE bytes[r]]
    /\ At("adopt")
    /\ UNCHANGED <<tiers, worn, leaving, edits, content, pass, thaws, filed, entry, named, saves>>

\* The dead tail is cut off.
Cut ==
    /\ saving.phase = "pack"
    /\ bytes' = [r \in Ref |-> IF r \in Dead THEN None ELSE bytes[r]]
    /\ At("adopt")
    /\ UNCHANGED <<tiers, worn, leaving, edits, content, pass, thaws, filed, entry, named, saves>>

-----------------------------------------------------------------------------
(* Adopting.                                                                 *)

\* Mutant: a cel edited while the save ran adopts its ref all the same.
AdoptableAll(W) == W

\* The cels of W a save adopts: not the ones edited since its snapshot.
Adoptable(W) == {k \in W : ~Edited(k)}

\* Mutant: every mark cleared, those made while the save ran included.
ClearAllMarks == dirty' = [k \in Cel |-> 0]

\* The snapshot's marks go, except where the cel was edited since.
ClearMarks == dirty' = [k \in Cel |-> IF k \in DirtyThen /\ ~Edited(k) THEN 0 ELSE dirty[k]]

\* Mutant: adopted cels' parks dropped, their files forgotten in the room.
DropParksForgets(K) ==
    /\ cold' = [k \in Cel |-> IF k \in K THEN None ELSE cold[k]]
    /\ UNCHANGED leaving

\* The parked copies of the cels in K are redundant with the file.
DropParks(K) ==
    /\ cold' = [k \in Cel |-> IF k \in K THEN None ELSE cold[k]]
    /\ LetGo({cold[k] : k \in K})

\* adoptSavedFile of the refs at places e to the keys in W, and then
\* forgetCelsLostWithTheirFile of the ones in L.
Adopt(W, e, L) ==
    /\ DropParks(Adoptable(W))
    /\ fileRef' = [k \in Cel |-> IF k \in L /\ saving.refs[k] # None THEN None
                                 ELSE IF k \in Adoptable(W) THEN e[k] ELSE fileRef[k]]
    /\ ClearMarks
    /\ UNCHANGED <<hot, order, worn, tick, pass, thaws, saves>>
    /\ NoteCelContent(Adoptable(W) \cup {k \in L : fileRef'[k] # fileRef[k]})
    /\ saving' = NoSave

\* The append's end: the refs it wrote are adopted.
AdoptAppended ==
    /\ saving.phase = "adopt"
    /\ UNCHANGED <<bytes, filed, entry, named>>
    /\ Adopt(Written, entry, DirtyThen \ (Written \cup Emptied))

-----------------------------------------------------------------------------
(* The whole write.                                                          *)

\* _writeArchiveInIsolate: every cel of the snapshot, into a temp file.
WriteWhole ==
    /\ saving.phase = "whole"
    /\ saving' = [saving EXCEPT !.phase = "swap",
                                !.got = [k \in Cel |-> Resolve(saving.work[k])]]
    /\ UNCHANGED <<vars, entry, named, saves>>

\* The rename and the adoption, with no event between them.
SwapWhole ==
    LET places == Places(Written)
        e      == [k \in Cel |-> IF k \in Written THEN places[k] ELSE None] IN
    /\ saving.phase = "swap"
    /\ Room(Written)
    /\ bytes' = [r \in Ref |->
                   IF r \in Park THEN bytes[r]
                   ELSE IF \E k \in Written : places[k] = r
                        THEN saving.got[CHOOSE k \in Written : places[k] = r] ELSE None]
    /\ entry' = e
    /\ named' = named \cup {places[k] : k \in Written}
    /\ filed' = Filed(entry', bytes')
    /\ Adopt(Written, e, {k \in Cel \ Written : saving.work[k] # None})

\* Mutant: a failed save leaves its snapshot behind.
SaveFailsUnreset ==
    /\ saving.phase \in {"append", "whole", "pack", "swap"}
    /\ At("none")
    /\ UNCHANGED <<vars, entry, named, saves>>

\* A read or a write refused, or the rename: nothing is adopted.
SaveFails ==
    /\ saving.phase \in {"append", "whole", "pack", "swap"}
    /\ saving' = NoSave
    /\ UNCHANGED <<vars, entry, named, saves>>

-----------------------------------------------------------------------------
\* The store opened on a saved file, whose directory its refs are.
SaveInit ==
    /\ Init
    /\ \E K \in SUBSET Cel :
          fileRef = [k \in Cel |-> IF k \in K THEN Laid(K, Slot)[k] ELSE None]
    /\ entry = fileRef
    /\ named = Entries
    /\ \A s \in Slot \ named : bytes[s] = CHOOSE p \in Pic : TRUE
    /\ saving = NoSave
    /\ saves = 0

\* The save writes the whole file, or will once it has looked at its refs.
WritesWhole ==
    \/ saving.phase \in {"whole", "swap"}
    \/ saving.phase = "append" /\ ~Backed

\* A step of the store beside the save.
Beside ==
    /\ Next
    /\ UNCHANGED saveVars
    /\ RemovesMidSave \/ saving = NoSave \/ leaving \subseteq leaving'
    /\ \/ CarriesMidWrite \/ ~WritesWhole
       \/ \A k \in Cel : Edited(k)' => fileRef'[k] = None

SaveStep ==
    \/ \E rewriteWhole \in BOOLEAN : BeginSave(rewriteWhole)
    \/ AppendDirty \/ AppendUnsound
    \/ RehomeRefs
    \/ \E s \in Entries, d \in Dead : PackRound(s, d)
    \/ MoveRefs \/ Cut \/ AdoptAppended
    \/ WriteWhole \/ SwapWhole
    \/ SaveFails

SaveNext == Beside \/ SaveStep

SaveSpec == SaveInit /\ [][SaveNext]_allVars

-----------------------------------------------------------------------------
\* The shape of a save: its snapshot lives as long as it does, and a round of
\* the push-down is pending exactly while the session is asked to move refs.
SaveTypeOK ==
    /\ entry \in [Cel -> Slot \cup {None}] /\ named \subseteq Slot /\ saves \in 0..MaxSaves
    /\ saving.phase \in {"none", "append", "rehome", "pack", "moved", "adopt", "whole", "swap"}
    /\ saving.work \in [Cel -> Pic \cup Ref \cup {None}] /\ saving.ticks \in [Cel -> Nat]
    /\ saving.refs \in [Cel -> Slot \cup {None}]
    /\ saving.got \in [Cel -> Pic \cup {None}] /\ saving.seen \in [Cel -> Pic \cup {None}]
    /\ saving.phase = "none" => saving = NoSave
    /\ saving.phase # "moved" => saving.moved = <<None, None>>
    /\ saving.phase = "moved" => saving.moved[1] \in Slot /\ saving.moved[2] \in Entries

\* What the directory names is what was filed there: no round of the
\* push-down writes over a live entry.
FiledInPlace == filed = Filed(entry, bytes)

(* The store keeps its word while it is saved: its shape, every unfiled      *)
(* picture readable, the copies agreeing, no parked file orphaned, what is  *)
(* unmarked filed, and what is filed where its name says.                   *)
SaveIsSound ==
    SaveTypeOK /\ KeptReadable /\ TiersAgree /\ NoOrphanPark /\ CleanIsFiled /\ FiledInPlace

\* A save that ends well has filed every cel as it was when the save began.
SnapshotFiled ==
    [][AdoptAppended \/ SwapWhole => filed' = saving.seen]_allVars

=============================================================================
