------------------------------- MODULE CelMap -------------------------------
(***************************************************************************)
(* What the cel store promises whoever draws: a map from cels to pictures  *)
(* that only an edit moves.  Cooling, thawing, memory pressure and the     *)
(* removal of scratch files are invisible here.                            *)
(***************************************************************************)
CONSTANTS Cel, Pic, Resized, None

VARIABLE pics

\* A drawing replaces a cel's picture, or empties it.
Draw(k) == \E p \in Pic \cup {None} : pics' = [pics EXCEPT ![k] = p]

\* A cel's picture copied onto another.
Copy(from, to) == pics' = [pics EXCEPT ![to] = pics[from]]

\* A cel carried to a key that held nothing.
Carry(from, to) ==
    /\ from # to
    /\ pics[to] = None
    /\ pics' = [pics EXCEPT ![to] = pics[from], ![from] = None]

\* The canvas resized under a cel.
Resize(k) == pics[k] # None /\ pics' = [pics EXCEPT ![k] = Resized[pics[k]]]

Init == pics \in [Cel -> Pic \cup {None}]

Next == \E k \in Cel : Draw(k) \/ Resize(k) \/ \E j \in Cel : Copy(k, j) \/ Carry(k, j)

Spec == Init /\ [][Next]_pics

=============================================================================
