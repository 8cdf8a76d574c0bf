--------------------------- MODULE MCUndoHistory ---------------------------
(***************************************************************************)
(* Small instances of UndoHistory for TLC: a short history under memory    *)
(* warnings, with erasures and walks back, and a long one with neither,    *)
(* whose holds reach past the deep end; or the one the constants give.     *)
(***************************************************************************)
EXTENDS UndoHistory, TLC

CONSTANTS x, y

\* A stroke on one place, one over both, an eraser over both.
OnX   == [p \in Place |-> IF p = x THEN "draw" ELSE "keep"]
OnAll == [p \in Place |-> "draw"]
Wipe  == [p \in Place |-> "erase"]

DrawsAndWipes == {OnX, OnAll, Wipe}
DrawsOnly     == {OnX, OnAll}

\* A bound: nothing is held.
NoHold == ~run.on

-----------------------------------------------------------------------------
VARIABLE long   \* which of the two

Short == INSTANCE UndoHistory WITH
    Strokes <- DrawsAndWipes, MaxEntries <- 2, MaxWalks <- 1, MaxEdits <- 3
Long == INSTANCE UndoHistory WITH
    Strokes <- DrawsOnly, MaxEntries <- 3, MaxWalks <- 0, MaxEdits <- 4

\* A bound: from the third on, a long history's edits cover the cel.
WholeFromTheThird == made' > made /\ made >= 2 => \A p \in Place : cel'[p] = made'

HistoriesInit == long \in BOOLEAN /\ Init
HistoriesNext ==
    /\ UNCHANGED long
    /\ \/ ~long /\ Short!Next
       \/ long /\ Long!Next /\ ~warned' /\ WholeFromTheThird
HistoriesSpec == HistoriesInit /\ [][HistoriesNext]_<<long, vars>>

\* One history, as UndoHistory's own specification has it.
OneInit == long = FALSE /\ Init
OneSpec == OneInit /\ [][Next /\ UNCHANGED long]_<<long, vars>>
=============================================================================
