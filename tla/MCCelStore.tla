----------------------------- MODULE MCCelStore -----------------------------
(* Small instances of CelStore for TLC.                                     *)
EXTENDS CelStore, TLC

CONSTANTS c1, c2, p1, p2, q1, f1, f2, s1, s2

\* A crop that leaves one picture another, and takes every line of that one.
Cropped == [p \in Pic |-> IF p = p1 THEN p2 ELSE q1]

Symmetric == Permutations(Cel) \cup Permutations(Park)
SymmetricStore == Symmetric \cup Permutations(Slot)

=============================================================================
