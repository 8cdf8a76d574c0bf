------------------------------- MODULE Resample -------------------------------
(***************************************************************************)
(* The sample-rate conversion of a sound (audio_mix/resample.rs): which    *)
(* input frames an output frame is worked out from, how many outputs some  *)
(* input can write, and the conversion fed a piece at a time.              *)
(*                                                                         *)
(* A design d is its ratio in lowest terms, output frames (inter) to input *)
(* frames (deci), and the half length of its filter.  The kernel's values  *)
(* are left out: an output is known by the inputs it reads.                *)
(***************************************************************************)
EXTENDS Integers

Least(a, b) == IF a < b THEN a ELSE b
Most(a, b) == IF a > b THEN a ELSE b

TapsOf(d) == 2 * d.half + 1

\* The rates' ratio: equal rates, or a rate that is none, convert nothing.
Divides(k, n) == n % k = 0
Gcd(a, b) == CHOOSE g \in 1..a : Divides(g, a) /\ Divides(g, b)
                                 /\ \A k \in 1..a : Divides(k, a) /\ Divides(k, b) => k <= g
Ratio(inputRate, outputRate) ==
    LET g == Gcd(inputRate, outputRate) IN [inter |-> outputRate \div g, deci |-> inputRate \div g]
\* What a whole conversion writes.
ResampleFrames(n, inputRate, outputRate) ==
    LET r == Ratio(inputRate, outputRate)
    IN IF n <= 0 \/ inputRate <= 0 \/ outputRate <= 0 THEN 0
       ELSE IF inputRate = outputRate THEN n ELSE (n * r.inter) \div r.deci

\* One past the last output total input frames can write: before the end,
\* only those whose every input has arrived.
Limit(d, total) == (total * d.inter) \div d.deci
\* (Mutant: ready when its base input is the next to arrive.)
ArrivedEarly(d, total) ==
    LET reach == total * d.inter - d.half + d.inter
    IN Least(IF reach <= 0 THEN 0 ELSE (reach + d.deci - 1) \div d.deci, Limit(d, total))
Arrived(d, total) ==
    LET reach == total * d.inter - d.half
    IN Least(IF reach <= 0 THEN 0 ELSE (reach + d.deci - 1) \div d.deci, Limit(d, total))
ReadyEnd(d, total, ended) == IF ended THEN Limit(d, total) ELSE Arrived(d, total)

\* The loop of one output frame: from its base input back while there are
\* taps and held input, skipping what is past the input.
Heard(d, first, total, frame) ==
    LET position == frame * d.deci + d.half
        phase == position % d.inter
        base == position \div d.inter
    IN {source \in first..base : phase + (base - source) * d.inter < TapsOf(d) /\ source < total}

-----------------------------------------------------------------------------
(* The conversion r fed a piece at a time: it holds the input frames        *)
(* first .. first + held - 1, and writes output frame next.                 *)
NewResampler == [first |-> 0, held |-> 0, next |-> 0, ended |-> FALSE]
Total(r) == r.first + r.held
Ready(d, r) == Most(ReadyEnd(d, Total(r), r.ended) - r.next, 0)

\* The held input no output still to come reads is let go of.
Lowest(d, next) ==
    LET reach == next * d.deci + d.half - TapsOf(d) + d.inter IN IF reach <= 0 THEN 0 ELSE reach \div d.inter
\* (Mutant: all of it held.)
KeepsAll(d, r) == r
LetGo(d, r) ==
    LET drop == Least(Lowest(d, r.next) - r.first, r.held)
    IN IF drop <= 0 THEN r ELSE [r EXCEPT !.held = @ - drop, !.first = @ + drop]

\* More input, unless the memory runs out: what was let go of stays gone.
Pushed(d, r, n) == [LetGo(d, r) EXCEPT !.held = @ + n]
Ended(r) == [r EXCEPT !.ended = TRUE]
PullCount(d, r, room) == Least(Ready(d, r), room)
Pulled(d, r, room) == [r EXCEPT !.next = @ + PullCount(d, r, room)]
=============================================================================
