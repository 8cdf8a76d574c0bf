-------------------------- MODULE MCAudioTransport --------------------------
(* Small instances of AudioTransport for TLC.                               *)
EXTENDS AudioTransport

CONSTANT b

\* A run with a lead that ends, a loop, and a run from the top without end.
Ends   == [start |-> 1, stop |-> 2, looping |-> FALSE, lead |-> 1]
Loops  == [start |-> 1, stop |-> 3, looping |-> TRUE, lead |-> 0]
NoEnd  == [start |-> 3, stop |-> 0, looping |-> FALSE, lead |-> 1]

SomeRuns == {Ends, NoEnd, Loops}
OneBuffer == {{b}, {}}
BelowAll == -100

=============================================================================
