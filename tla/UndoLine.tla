------------------------------ MODULE UndoLine ------------------------------
(***************************************************************************)
(* What an undo history promises whoever draws: a line of pictures and the *)
(* place on it that is shown.  An edit cuts what lies ahead and adds its   *)
(* picture, a step goes one picture back or ahead, and pictures are        *)
(* forgotten at the two ends only - at the past's end never down to the    *)
(* one the next undo goes to.  Where a picture is kept is invisible here.  *)
(***************************************************************************)
EXTENDS Naturals, Sequences

CONSTANT Pic

VARIABLES line, here

\* The line l shown at h becomes m shown at g, with any number of pictures
\* forgotten at its ends.
Settles(l, h, m, g) ==
    LET d == h - g
    IN /\ d >= 0 /\ g >= 1
       /\ d > 0 => g > 1
       /\ g <= Len(m) /\ Len(m) <= Len(l) - d
       /\ \A i \in 1..Len(m) : m[i] = l[i + d]

\* What the line l shown at h may become.
Edits(l, h, m, g) ==
    g \in 1..Len(m) /\ m[g] \in Pic /\ Settles(Append(SubSeq(l, 1, h), m[g]), h + 1, m, g)
Back(l, h, m, g)  == h > 1 /\ Settles(l, h - 1, m, g)
Ahead(l, h, m, g) == h < Len(l) /\ Settles(l, h + 1, m, g)

\* The newest edit taken back for good, while nothing lies ahead of it.
TakeBack(l, h, m, g) ==
    h > 1 /\ h = Len(l) /\ m = SubSeq(l, 1, h - 1) /\ g = h - 1

\* Several edits made one: the pictures between them are forgotten.
Fold(l, h, m, g) ==
    /\ 1 < g /\ g < h
    /\ m = SubSeq(l, 1, g - 1) \o SubSeq(l, h, Len(l))

Clear(l, h, m, g) == m = <<l[h]>> /\ g = 1

Steps(l, h, m, g) ==
    \/ Settles(l, h, m, g)
    \/ Back(l, h, m, g) \/ Ahead(l, h, m, g)
    \/ Edits(l, h, m, g)
    \/ TakeBack(l, h, m, g) \/ Fold(l, h, m, g) \/ Clear(l, h, m, g)

Init == here = 1 /\ Len(line) = 1 /\ line[1] \in Pic

Next == \E l \in {line}, m \in {line'} : Steps(l, here, m, here')

Spec == Init /\ [][Next]_<<line, here>>

=============================================================================
