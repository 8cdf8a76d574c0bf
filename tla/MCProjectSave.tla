--------------------------- MODULE MCProjectSave ---------------------------
(* Small instances of ProjectSave for TLC.                                  *)
EXTENDS ProjectSave, TLC

CONSTANTS c1, c2, p1, p2, f1, f2

\* A crop that makes one picture another.
Cropped == [p \in Pic |-> IF p = p1 THEN p2 ELSE p]

\* A bound: every thaw is a read's, none runs on a worker.
NoWorker == \A k \in Cel : thawing[k] = NoThaw

\* A bound: two edits about one save, one about two, and one cel's thaws on a
\* worker about one of each. A save alone has room for five entries.
Few ==
    /\ saves <= 1 \/ tick <= 1
    /\ saves <= 1 => Cardinality(named) <= 5
    /\ NoWorker \/ (saves <= 1 /\ tick <= 1 /\ thawing[c2] = NoThaw)

Symmetric == Permutations(Park)

=============================================================================
