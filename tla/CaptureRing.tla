----------------------------- MODULE CaptureRing -----------------------------
(***************************************************************************)
(* The microphone's ring (audio_device: capture): the device's callback    *)
(* copies whole frames in, the control thread drains floats out, and the   *)
(* two totals, each written on one side, are all that keeps them apart.    *)
(* Every load, every float copied and every store is a step.               *)
(*                                                                         *)
(* Abstractions: a sample is the frame it belongs to and its channel; the  *)
(* time a callback is asked at is the number of frames it was asked after. *)
(***************************************************************************)
EXTENDS Integers, Sequences

CONSTANTS
    Channels,    \* floats of a frame
    RingFrames,  \* frames the ring holds: sample_rate * RING_SECONDS
    MaxDrain,    \* the most floats one drain asks for
    MaxBuffer,   \* the most frames one callback is handed
    MaxCalls     \* bound: callbacks

Capacity == Channels * RingFrames

ASSUME RingAssumption ==
    /\ Channels \in Nat \ {0} /\ RingFrames \in Nat \ {0}
    /\ MaxDrain \in Nat \ {0} /\ MaxBuffer \in Nat \ {0} /\ MaxCalls \in Nat

VARIABLES
    open,     \* whether a capture is open
    ring,     \* the floats
    written,  \* write_total
    read,     \* read_total
    dropped,  \* frames that had no room
    line,     \* the clock's line: its sequence and the point under it
    p,        \* the callback: what it was handed and how far it is
    c,        \* the drain, or the reader of the line
    given,    \* for the properties: frames the device has handed over
    kept      \* for the properties: the samples taken in, in order

totals == <<written, read, dropped>>
vars == <<open, ring, totals, line, p, c, given, kept>>

None    == <<-1, 0>>        \* what a made ring is filled with
NoPoint == [frames |-> 0, time |-> 0]
Asleep  == [at |-> "idle", frames |-> 0, floats |-> 0, done |-> 0, time |-> 0]
Still   == [at |-> "idle", avail |-> 0, seq |-> 0, point |-> NoPoint]

Least(a, b) == IF a < b THEN a ELSE b

Init ==
    /\ open = FALSE
    /\ ring = [i \in 0..Capacity - 1 |-> None]
    /\ written = 0 /\ read = 0 /\ dropped = 0
    /\ line = [seq |-> 0, point |-> NoPoint]
    /\ p = Asleep /\ c = Still
    /\ given = 0 /\ kept = <<>>

\* A capture opens: nothing is in its ring, and the last one's point is gone.
Open ==
    /\ ~open /\ p = Asleep /\ c = Still
    /\ open' = TRUE
    /\ ring' = [i \in 0..Capacity - 1 |-> None]
    /\ written' = 0 /\ read' = 0 /\ dropped' = 0
    /\ line' = [line EXCEPT !.point.time = 0]
    /\ kept' = <<>> /\ given' = 0
    /\ UNCHANGED <<p, c>>

\* It closes once its callback can no longer run.
Close ==
    /\ open /\ p = Asleep /\ c = Still
    /\ open' = FALSE
    /\ UNCHANGED <<ring, totals, line, p, c, given, kept>>

-----------------------------------------------------------------------------
(* The callback: deliver.                                                   *)

\* The room is measured against the drain's total as it stands.
Space == Capacity - (written - read)

\* Mutant: what does not fit is cut at a float and not at a frame.
CutsAnywhere(floats) == Least(floats, Space)
Fits(floats) == IF floats > Space THEN (Space \div Channels) * Channels ELSE floats

Asked(frames) ==
    /\ open /\ p.at = "idle" /\ line.seq < 2 * MaxCalls
    /\ p' = [Asleep EXCEPT !.at = "measure", !.frames = frames, !.time = given + frames]
    /\ given' = given + frames
    /\ UNCHANGED <<open, ring, totals, line, c, kept>>

\* Whole frames only; the ones with no room are counted.
Measures ==
    /\ p.at = "measure"
    /\ LET floats == Fits(p.frames * Channels)
       IN /\ p' = [p EXCEPT !.at = "copy", !.floats = floats]
          /\ dropped' = dropped + p.frames - floats \div Channels
    /\ UNCHANGED <<open, ring, written, read, line, c, given, kept>>

\* The callback's samples: the first of what it was handed.
Sample(i) == <<given - p.frames + i \div Channels, i % Channels>>
CopiesIn ==
    /\ p.at = "copy" /\ p.done < p.floats
    /\ ring' = [ring EXCEPT ![(written + p.done) % Capacity] = Sample(p.done)]
    /\ kept' = Append(kept, Sample(p.done))
    /\ p' = [p EXCEPT !.done = @ + 1]
    /\ UNCHANGED <<open, totals, line, c, given>>

\* Mutant: the total is published before the copy.
PublishesFirst ==
    /\ p.at = "copy" /\ p.done = 0
    /\ written' = written + p.floats
    /\ p' = [p EXCEPT !.at = "odd"]
    /\ UNCHANGED <<open, ring, read, dropped, line, c, given, kept>>

\* Published after the copy.
Publishes ==
    /\ p.at = "copy" /\ p.done = p.floats
    /\ written' = written + p.floats
    /\ p' = [p EXCEPT !.at = "odd"]
    /\ UNCHANGED <<open, ring, read, dropped, line, c, given, kept>>

\* Its last word, between an odd and an even sequence: stamp_clock.
StampsOdd ==
    /\ p.at = "odd"
    /\ line' = [line EXCEPT !.seq = @ + 1]
    /\ p' = [p EXCEPT !.at = "frames"]
    /\ UNCHANGED <<open, ring, totals, c, given, kept>>
StampsFrames ==
    /\ p.at = "frames"
    /\ line' = [line EXCEPT !.point.frames = written \div Channels]
    /\ p' = [p EXCEPT !.at = "time"]
    /\ UNCHANGED <<open, ring, totals, c, given, kept>>
StampsTime ==
    /\ p.at = "time"
    /\ line' = [line EXCEPT !.point.time = p.time]
    /\ p' = [p EXCEPT !.at = "even"]
    /\ UNCHANGED <<open, ring, totals, c, given, kept>>
StampsEven ==
    /\ p.at = "even"
    /\ line' = [line EXCEPT !.seq = @ + 1]
    /\ p' = Asleep
    /\ UNCHANGED <<open, ring, totals, c, given, kept>>

Callback ==
    \/ \E frames \in 1..MaxBuffer : Asked(frames)
    \/ Measures \/ CopiesIn \/ Publishes
    \/ StampsOdd \/ StampsFrames \/ StampsTime \/ StampsEven

-----------------------------------------------------------------------------
(* The control thread: read, and the clock's line.                          *)

Drain(max) ==
    /\ open /\ c.at = "idle" /\ written > read
    /\ c' = [Still EXCEPT !.at = "copy", !.avail = Least(written - read, max)]
    /\ UNCHANGED <<open, ring, totals, line, p, given, kept>>

\* The room is given back once it is copied.
Frees ==
    /\ c.at = "copy"
    /\ read' = read + c.avail
    /\ c' = Still
    /\ UNCHANGED <<open, ring, written, dropped, line, p, given, kept>>

AsksLine ==
    /\ open /\ c.at = "idle" /\ line.seq % 2 = 0
    /\ c' = [Still EXCEPT !.at = "frames", !.seq = line.seq]
    /\ UNCHANGED <<open, ring, totals, line, p, given, kept>>
ReadsFrames ==
    /\ c.at = "frames"
    /\ c' = [c EXCEPT !.at = "time", !.point.frames = line.point.frames]
    /\ UNCHANGED <<open, ring, totals, line, p, given, kept>>
ReadsTime ==
    /\ c.at = "time"
    /\ c' = [c EXCEPT !.at = "again", !.point.time = line.point.time]
    /\ UNCHANGED <<open, ring, totals, line, p, given, kept>>

\* Mutant: the sequence is not looked at again.
AnswersAtOnce ==
    /\ c.at = "again"
    /\ c' = IF c.point.time = 0 THEN Still ELSE [c EXCEPT !.at = "told"]
    /\ UNCHANGED <<open, ring, totals, line, p, given, kept>>

\* A point under another sequence is read again, and one with no time is none.
Answers ==
    /\ c.at = "again"
    /\ c' = IF line.seq # c.seq \/ c.point.time = 0 THEN Still ELSE [c EXCEPT !.at = "told"]
    /\ UNCHANGED <<open, ring, totals, line, p, given, kept>>
Returns ==
    /\ c.at = "told" /\ c' = Still
    /\ UNCHANGED <<open, ring, totals, line, p, given, kept>>

Control ==
    \/ Open \/ Close
    \/ \E max \in 1..MaxDrain : Drain(max)
    \/ Frees
    \/ AsksLine \/ ReadsFrames \/ ReadsTime \/ Answers \/ Returns

Next == Callback \/ Control

Spec == Init /\ [][Next]_vars

-----------------------------------------------------------------------------
(* Properties.                                                              *)

Sampled == Nat \X Nat
Point == [frames : Nat, time : Nat]

\* The types of the ring's state; the totals never run ahead of what is there.
TypeOK ==
    /\ open \in BOOLEAN
    /\ ring \in [0..Capacity - 1 -> Sampled \cup {None}]
    /\ written \in Nat /\ read \in Nat /\ dropped \in Nat /\ given \in Nat
    /\ line \in [seq : Nat, point : Point]
    /\ p \in [at : {"idle", "measure", "copy", "odd", "frames", "time", "even"},
              frames : Nat, floats : Nat, done : Nat, time : Nat]
    /\ c \in [at : {"idle", "copy", "frames", "time", "again", "told"},
              avail : Nat, seq : Nat, point : Point]
    /\ kept \in Seq(Sampled)

\* What the drain may copy is what was taken in, in its order, however often
\* the ring went round: the callback never writes over what the drain has not
\* freed, nor publishes what it has not copied (deliver and read, at once).
InOrder ==
    \A k \in read..written - 1 :
        k + 1 \in 1..Len(kept) /\ ring[k % Capacity] = kept[k + 1]

\* The take is whole frames, a channel of each after another, and every frame
\* the device handed over is in it or counted as dropped: a damaged take says so.
FramesWhole ==
    /\ \A k \in 1..Len(kept) : kept[k][2] = (k - 1) % Channels
    /\ p.at \in {"idle", "odd", "frames", "time", "even"} =>
           given = dropped + Len(kept) \div Channels /\ Len(kept) % Channels = 0

\* A point the reader is told was spoken by one callback: what it says was
\* taken in was, of the frames handed over when it was asked (stamp_clock).
PointIsWhole ==
    c.at = "told" =>
        /\ c.point.frames <= c.point.time
        /\ c.point.frames * Channels <= written
        /\ c.point.time - c.point.frames <= dropped

=============================================================================
