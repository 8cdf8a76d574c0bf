--------------------------- MODULE AudioTransport ---------------------------
(***************************************************************************)
(* The transport of the sound device (audio_device: transport, buffer):    *)
(* the device's realtime thread pulls blocks through a callback that may   *)
(* neither wait nor lock, while the control thread plays, stops, seeks,    *)
(* replaces the schedule and draws the clock's line.  They share atomics   *)
(* only, so every load and every store is a step, in the order of the      *)
(* code; all of them are sequentially consistent there.                    *)
(*                                                                         *)
(* Abstractions: a schedule is the set of buffers its sources play; one    *)
(* mixed frame is a frame; the time a callback is asked at is its number.  *)
(***************************************************************************)
EXTENDS Integers, FiniteSets, Sequences

CONSTANTS
    Buffer,      \* buffers of samples
    Schedules,   \* the schedules handed over: each the buffers it plays
    Runs,        \* what play is asked for: [start, stop, looping, lead]
    Seeks,       \* where seeks go
    Frames,      \* the frames one callback is asked for
    MaxBlock,    \* MAX_BLOCK: the frames mixed at once
    Tries,       \* how often set_schedule looks before it gives up the wait
    Never,       \* i64::MIN: below every position
    MaxOps,      \* bound: calls of the control thread
    MaxCalls     \* bound: callbacks

ASSUME TransportAssumption ==
    /\ Schedules \subseteq SUBSET Buffer
    /\ Runs \subseteq [start : Nat, stop : Nat, looping : BOOLEAN, lead : Nat]
    /\ Seeks \subseteq Nat
    /\ Never \in Int /\ Never < 0 /\ \A r \in Runs : Never < r.start - r.lead
    /\ Frames \in Nat \ {0} /\ MaxBlock \in Nat \ {0} /\ Tries \in Nat \ {0}
    /\ MaxOps \in Nat /\ MaxCalls \in Nat

VARIABLES
    f,      \* the atomics both threads name
    clock,  \* the clock's line: its sequence and the point written under it
    slots,  \* the two schedules
    holds,  \* the book: how many hold each buffer, 0 when there is no such buffer
    makers, \* buffers whose maker has not let go
    cb,     \* the callback: where it is and what it has read
    ct,     \* the control thread: what it still has to store, or look at
    ops,    \* calls of the control thread so far
    calls,  \* callbacks so far
    moved,  \* for the properties: where the control thread last put the position,
            \* and whether the callback took it back to a start since
    spoken  \* for the properties: the points callbacks set out to stamp

book == <<slots, holds, makers>>
seen == <<moved, spoken>>
vars == <<f, clock, book, cb, ct, ops, calls, seen>>

\* The slots' content before a schedule and after one is freed.
Empty == {}

Fields ==
    [playing |-> 0, position |-> 0, start |-> 0, stop |-> 0, looping |-> FALSE,
     audible |-> 0, arm |-> 0, active |-> 0, said |-> 0, inFlight |-> FALSE]

NoPoint == [serial |-> 0, position |-> 0, time |-> 0]

Idle  == [at |-> "idle", arm |-> 0, time |-> 0, run |-> 0, done |-> 0,
          position |-> 0, start |-> 0, stop |-> 0, slot |-> 0, block |-> 0, sounds |-> FALSE]
Quiet == [op |-> "none", stores |-> <<>>, slot |-> 0, plays |-> {}, tries |-> 0,
          seq |-> 0, point |-> NoPoint]

Init ==
    /\ f = Fields
    /\ clock = [seq |-> 0, point |-> NoPoint]
    /\ slots = [s \in {0, 1} |-> Empty]
    /\ holds = [b \in Buffer |-> 0] /\ makers = {}
    /\ cb = Idle /\ ct = Quiet
    /\ ops = 0 /\ calls = 0
    /\ moved = [to |-> 0, by |-> "open", wrapped |-> FALSE] /\ spoken = {}

-----------------------------------------------------------------------------
(* The callback: render.                                                    *)

Bounded == cb.stop > cb.start
Least(a, b) == IF a < b THEN a ELSE b

\* What no step of the callback changes.
UnchangedByCallback == UNCHANGED <<book, ct, ops, moved>>

\* The arm is read before the look at playing, and a run of none is silence.
Asked ==
    /\ cb.at = "idle" /\ calls < MaxCalls
    /\ calls' = calls + 1
    /\ cb' = [Idle EXCEPT !.at = "asked", !.arm = f.arm, !.time = calls + 1]
    /\ UnchangedByCallback /\ UNCHANGED <<f, clock, spoken>>

SeesRun ==
    /\ cb.at = "asked"
    /\ cb' = IF f.playing = 0 THEN Idle ELSE [cb EXCEPT !.at = "flight", !.run = f.playing]
    /\ UnchangedByCallback /\ UNCHANGED <<f, clock, calls, spoken>>

TakesFlight ==
    /\ cb.at = "flight"
    /\ f' = [f EXCEPT !.inFlight = TRUE]
    /\ cb' = [cb EXCEPT !.at = "position"]
    /\ UnchangedByCallback /\ UNCHANGED <<clock, calls, spoken>>

\* A block begins: the position first, then the fields that go with it.
ReadsPosition ==
    /\ cb.at = "position"
    /\ cb' = [cb EXCEPT !.at = "start", !.position = f.position]
    /\ UnchangedByCallback /\ UNCHANGED <<f, clock, calls, spoken>>
ReadsStart ==
    /\ cb.at = "start"
    /\ cb' = [cb EXCEPT !.at = "stop", !.start = f.start]
    /\ UnchangedByCallback /\ UNCHANGED <<f, clock, calls, spoken>>
ReadsStop ==
    /\ cb.at = "stop"
    /\ cb' = [cb EXCEPT !.stop = f.stop,
                        !.at = IF f.stop > cb.start /\ cb.position >= f.stop THEN "ran" ELSE "slot"]
    /\ UnchangedByCallback /\ UNCHANGED <<f, clock, calls, spoken>>

\* The run ran out: a looping one wraps, if nobody moved the position, and
\* another is ended, if it is still the run that plays.
RanOut ==
    /\ cb.at = "ran"
    /\ cb' = [cb EXCEPT !.at = IF f.looping THEN "wrap" ELSE "end"]
    /\ UnchangedByCallback /\ UNCHANGED <<f, clock, calls, spoken>>

\* Mutant: a run that ran out is ended outright.
EndsWhateverPlays ==
    /\ cb.at = "end"
    /\ f' = [f EXCEPT !.playing = 0]
    /\ cb' = [cb EXCEPT !.at = "lands"]
    /\ UnchangedByCallback /\ UNCHANGED <<clock, calls, spoken>>

EndsRun ==
    /\ cb.at = "end"
    /\ f' = IF f.playing = cb.run THEN [f EXCEPT !.playing = 0] ELSE f
    /\ cb' = [cb EXCEPT !.at = "lands"]
    /\ UnchangedByCallback /\ UNCHANGED <<clock, calls, spoken>>
Wraps ==
    /\ cb.at = "wrap"
    /\ IF f.position = cb.position
       THEN /\ f' = [f EXCEPT !.position = cb.start]
            /\ cb' = [cb EXCEPT !.at = "slot", !.position = cb.start]
            /\ moved' = [moved EXCEPT !.wrapped = TRUE]
       ELSE UNCHANGED <<f, moved>> /\ cb' = [cb EXCEPT !.at = "lands"]
    /\ UNCHANGED <<clock, book, ct, ops, calls, spoken>>

\* The slot this block reads, and the word for it.
BlockLeft ==
    LET left == Least(Frames - cb.done, MaxBlock)
    IN IF Bounded THEN Least(left, cb.stop - cb.position) ELSE left
ReadsActive ==
    /\ cb.at = "slot"
    /\ cb' = [cb EXCEPT !.at = "says", !.slot = f.active, !.block = BlockLeft]
    /\ UnchangedByCallback /\ UNCHANGED <<f, clock, calls, spoken>>
SaysSlot ==
    /\ cb.at = "says"
    /\ f' = [f EXCEPT !.said = cb.slot]
    /\ cb' = [cb EXCEPT !.at = "lead"]
    /\ UnchangedByCallback /\ UNCHANGED <<clock, calls, spoken>>

\* The lead is handed silent, never past the first audible sample.
ReadsLead ==
    /\ cb.at = "lead"
    /\ cb' = IF cb.position < f.audible
             THEN [cb EXCEPT !.at = "claim", !.sounds = FALSE,
                             !.block = Least(@, f.audible - cb.position)]
             ELSE [cb EXCEPT !.at = "mix", !.sounds = TRUE]
    /\ UnchangedByCallback /\ UNCHANGED <<f, clock, calls, spoken>>
Mixes ==
    /\ cb.at = "mix"
    /\ cb' = [cb EXCEPT !.at = "claim"]
    /\ UnchangedByCallback /\ UNCHANGED <<f, clock, calls, spoken>>

\* Mutant: the advance is stored outright.
ClaimsBlindly ==
    /\ cb.at = "claim"
    /\ f' = [f EXCEPT !.position = cb.position + cb.block]
    /\ cb' = [cb EXCEPT !.position = cb.position + cb.block, !.done = @ + cb.block,
                        !.at = IF cb.done + cb.block < Frames THEN "position" ELSE "odd"]
    /\ UnchangedByCallback /\ UNCHANGED <<clock, calls, spoken>>

\* The position advances by what was handed, only from what the block read.
Claims ==
    /\ cb.at = "claim"
    /\ IF f.position = cb.position
       THEN /\ f' = [f EXCEPT !.position = cb.position + cb.block]
            /\ cb' = [cb EXCEPT !.position = cb.position + cb.block, !.done = @ + cb.block,
                                !.at = IF cb.done + cb.block < Frames THEN "position" ELSE "odd"]
       ELSE UNCHANGED f /\ cb' = [cb EXCEPT !.at = "lands"]
    /\ UnchangedByCallback /\ UNCHANGED <<clock, calls, spoken>>

\* stamp_clock: the point between an odd and an even sequence.
StampsOdd ==
    /\ cb.at = "odd"
    /\ clock' = [clock EXCEPT !.seq = @ + 1]
    /\ cb' = [cb EXCEPT !.at = "serial"]
    /\ spoken' = spoken \cup {[serial |-> cb.arm, position |-> cb.position, time |-> cb.time]}
    /\ UnchangedByCallback /\ UNCHANGED <<f, calls>>
StampsSerial ==
    /\ cb.at = "serial"
    /\ clock' = [clock EXCEPT !.point.serial = cb.arm]
    /\ cb' = [cb EXCEPT !.at = "handed"]
    /\ UnchangedByCallback /\ UNCHANGED <<f, calls, spoken>>
StampsHanded ==
    /\ cb.at = "handed"
    /\ clock' = [clock EXCEPT !.point.position = cb.position]
    /\ cb' = [cb EXCEPT !.at = "time"]
    /\ UnchangedByCallback /\ UNCHANGED <<f, calls, spoken>>
StampsTime ==
    /\ cb.at = "time"
    /\ clock' = [clock EXCEPT !.point.time = cb.time]
    /\ cb' = [cb EXCEPT !.at = "even"]
    /\ UnchangedByCallback /\ UNCHANGED <<f, calls, spoken>>
StampsEven ==
    /\ cb.at = "even"
    /\ clock' = [clock EXCEPT !.seq = @ + 1]
    /\ cb' = [cb EXCEPT !.at = "lands"]
    /\ UnchangedByCallback /\ UNCHANGED <<f, calls, spoken>>

Lands ==
    /\ cb.at = "lands"
    /\ f' = [f EXCEPT !.inFlight = FALSE]
    /\ cb' = Idle
    /\ UnchangedByCallback /\ UNCHANGED <<clock, calls, spoken>>

Stamps == StampsOdd \/ StampsSerial \/ StampsHanded \/ StampsTime \/ StampsEven
Callback ==
    \/ SeesRun \/ TakesFlight
    \/ ReadsPosition \/ ReadsStart \/ ReadsStop \/ RanOut \/ EndsRun \/ Wraps
    \/ ReadsActive \/ SaysSlot \/ ReadsLead \/ Mixes \/ Claims
    \/ Stamps \/ Lands

-----------------------------------------------------------------------------
(* The control thread: one call at a time, a store at a time.               *)

Calls(op) == ct.op = "none" /\ ops < MaxOps /\ ops' = ops + 1
\* What no step of the control thread changes.
UnchangedByControl == UNCHANGED <<clock, cb, calls, spoken>>

Storing(op, stores) == [Quiet EXCEPT !.op = op, !.stores = stores]
NextArm == f.arm + 1

\* Mutant: where the sound begins is stored after the run.
PlayAudibleLast(r) ==
    /\ Calls("play")
    /\ ct' = Storing("play", << <<"playing", 0>>, <<"start", r.start>>,
                 <<"stop", r.stop>>, <<"looping", r.looping>>, <<"position", r.start - r.lead>>,
                 <<"arm", NextArm>>, <<"playing", ops + 1>>, <<"audible", r.start>> >>)
    /\ UnchangedByControl /\ UNCHANGED <<f, book, moved>>

\* Silenced first; the position after the fields that go with it, the arm
\* after the position, and the run last: its number is new.
Play(r) ==
    /\ Calls("play")
    /\ ct' = Storing("play", << <<"playing", 0>>, <<"audible", r.start>>, <<"start", r.start>>,
                 <<"stop", r.stop>>, <<"looping", r.looping>>,
                 <<"position", r.start - r.lead>>, <<"arm", NextArm>>, <<"playing", ops + 1>> >>)
    /\ UnchangedByControl /\ UNCHANGED <<f, book, moved>>

Stop ==
    /\ Calls("stop")
    /\ ct' = Storing("stop", << <<"playing", 0>>, <<"arm", NextArm>> >>)
    /\ UnchangedByControl /\ UNCHANGED <<f, book, moved>>

\* A player's own end: another run that plays is left playing.
StopRun(run) ==
    /\ Calls("stop_run")
    /\ ct' = IF f.playing \in {0, run}
             THEN Storing("stop", << <<"playing", 0>>, <<"arm", NextArm>> >>) ELSE Quiet
    /\ UnchangedByControl /\ UNCHANGED <<f, book, moved>>

Seek(to) ==
    /\ Calls("seek")
    /\ ct' = Storing("seek", << <<"audible", Never>>, <<"position", to>>, <<"arm", NextArm>> >>)
    /\ UnchangedByControl /\ UNCHANGED <<f, book, moved>>

Stores ==
    /\ ct.stores # <<>>
    /\ LET field == Head(ct.stores)[1]
           value == Head(ct.stores)[2]
       IN /\ f' = [f EXCEPT ![field] = value]
          /\ moved' = CASE field = "position" -> [to |-> value, by |-> ct.op, wrapped |-> FALSE]
                         [] field = "audible"  -> [moved EXCEPT !.by = ct.op]
                         [] OTHER -> moved
    /\ ct' = IF Len(ct.stores) = 1 THEN Quiet ELSE [ct EXCEPT !.stores = Tail(@)]
    /\ UnchangedByControl /\ UNCHANGED <<book, ops>>

-----------------------------------------------------------------------------
(* Buffers and the schedule.                                                *)

\* A maker makes its buffer, and may let go at any time.
NewBuffer(b) ==
    /\ Calls("new") /\ holds[b] = 0 /\ b \notin makers
    /\ holds' = [holds EXCEPT ![b] = 1] /\ makers' = makers \cup {b}
    /\ UnchangedByControl /\ UNCHANGED <<f, slots, ct, moved>>
ReleaseBuffer(b) ==
    /\ Calls("release") /\ b \in makers
    /\ holds' = [holds EXCEPT ![b] = @ - 1] /\ makers' = makers \ {b}
    /\ UnchangedByControl /\ UNCHANGED <<f, slots, ct, moved>>

Held(counts, plays)  == [b \in Buffer |-> IF b \in plays THEN counts[b] + 1 ELSE counts[b]]
LetGo(counts, plays) == [b \in Buffer |-> IF b \in plays THEN counts[b] - 1 ELSE counts[b]]

\* Mutant: a slot is emptied and its buffers stay held.
FreesOnlySlot(s, counts) == slots' = [slots EXCEPT ![s] = Empty] /\ holds' = counts

FreesSlot(s, counts) ==
    /\ slots' = [slots EXCEPT ![s] = Empty]
    /\ holds' = LetGo(counts, slots[s])

\* set_schedule holds what the sources play, or refuses; then it empties the
\* standby slot, which a wait that gave up may have left full.
SetSchedule(plays) ==
    /\ Calls("schedule")
    /\ \A b \in plays : holds[b] > 0
    /\ FreesSlot(1 - f.active, Held(holds, plays))
    /\ ct' = [Quiet EXCEPT !.op = "fill", !.slot = 1 - f.active, !.plays = plays]
    /\ UnchangedByControl /\ UNCHANGED <<f, makers, moved>>

\* No memory for the copies: the holds are let go and the schedule refused.
FailsToFill ==
    /\ ct.op = "fill"
    /\ holds' = LetGo(holds, ct.plays)
    /\ ct' = Quiet
    /\ UnchangedByControl /\ UNCHANGED <<f, slots, makers, ops, moved>>
Fills ==
    /\ ct.op = "fill"
    /\ slots' = [slots EXCEPT ![ct.slot] = ct.plays]
    /\ ct' = [ct EXCEPT !.op = "flip"]
    /\ UnchangedByControl /\ UNCHANGED <<f, holds, makers, ops, moved>>
Flips ==
    /\ ct.op = "flip"
    /\ f' = [f EXCEPT !.active = ct.slot]
    /\ ct' = [ct EXCEPT !.op = "flight?"]
    /\ UnchangedByControl /\ UNCHANGED <<book, ops, moved>>

\* The wait for the callback's word: none in flight, or one that has said the
\* new slot, and the old one is freed; after so many looks it is left.
LooksInFlight ==
    /\ ct.op = "flight?"
    /\ ct' = [ct EXCEPT !.op = IF f.inFlight THEN "said?" ELSE "free"]
    /\ UnchangedByControl /\ UNCHANGED <<f, book, ops, moved>>
LooksAtWord ==
    /\ ct.op = "said?"
    /\ ct' = CASE f.said = ct.slot -> [ct EXCEPT !.op = "free"]
               [] f.said # ct.slot /\ ct.tries + 1 < Tries ->
                    [ct EXCEPT !.op = "flight?", !.tries = @ + 1]
               [] OTHER -> Quiet
    /\ UnchangedByControl /\ UNCHANGED <<f, book, ops, moved>>
FreesOld ==
    /\ ct.op = "free"
    /\ FreesSlot(1 - ct.slot, holds)
    /\ ct' = Quiet
    /\ UnchangedByControl /\ UNCHANGED <<f, makers, ops, moved>>

-----------------------------------------------------------------------------
(* A reader draws the clock's line: the point between two equal sequences.  *)

AsksClock ==
    /\ Calls("clock")
    /\ ct' = [Quiet EXCEPT !.op = "seq"]
    /\ UnchangedByControl /\ UNCHANGED <<f, book, moved>>

LooksAgain == IF ct.tries + 1 < Tries THEN [Quiet EXCEPT !.op = "seq", !.tries = ct.tries + 1] ELSE Quiet

\* Mutant: a sequence being written is read like another.
ReadsAnySequence ==
    /\ ct.op = "seq"
    /\ ct' = [ct EXCEPT !.op = "serial", !.seq = clock.seq]
    /\ UnchangedByControl /\ UNCHANGED <<f, book, ops, moved>>
ReadsSequence ==
    /\ ct.op = "seq"
    /\ ct' = IF clock.seq % 2 = 1 THEN LooksAgain ELSE [ct EXCEPT !.op = "serial", !.seq = clock.seq]
    /\ UnchangedByControl /\ UNCHANGED <<f, book, ops, moved>>
ReadsSerial ==
    /\ ct.op = "serial"
    /\ ct' = [ct EXCEPT !.op = "handed", !.point.serial = clock.point.serial]
    /\ UnchangedByControl /\ UNCHANGED <<f, book, ops, moved>>
ReadsHanded ==
    /\ ct.op = "handed"
    /\ ct' = [ct EXCEPT !.op = "time", !.point.position = clock.point.position]
    /\ UnchangedByControl /\ UNCHANGED <<f, book, ops, moved>>
ReadsTime ==
    /\ ct.op = "time"
    /\ ct' = [ct EXCEPT !.op = "again", !.point.time = clock.point.time]
    /\ UnchangedByControl /\ UNCHANGED <<f, book, ops, moved>>
\* No time is no point, and a point of another arm is dropped.
Answers ==
    /\ ct.op = "again"
    /\ ct' = CASE clock.seq # ct.seq -> LooksAgain
               [] clock.seq = ct.seq /\ (ct.point.time = 0 \/ ct.point.serial # f.arm) -> Quiet
               [] OTHER -> [ct EXCEPT !.op = "told"]
    /\ UnchangedByControl /\ UNCHANGED <<f, book, ops, moved>>
Returns ==
    /\ ct.op = "told" /\ ct' = Quiet
    /\ UnchangedByControl /\ UNCHANGED <<f, book, ops, moved>>

Control ==
    \/ \E r \in Runs : Play(r)
    \/ Stop \/ \E run \in 1..MaxOps : StopRun(run)
    \/ \E to \in Seeks : Seek(to)
    \/ Stores
    \/ \E b \in Buffer : NewBuffer(b) \/ ReleaseBuffer(b)
    \/ \E plays \in Schedules : SetSchedule(plays)
    \/ FailsToFill \/ Fills \/ Flips \/ LooksInFlight \/ LooksAtWord \/ FreesOld
    \/ AsksClock \/ ReadsSequence \/ ReadsSerial \/ ReadsHanded \/ ReadsTime
    \/ Answers \/ Returns

Next == Asked \/ Callback \/ Control

Spec == Init /\ [][Next]_vars

-----------------------------------------------------------------------------
(* Properties.                                                              *)

\* The transport's fields, and each thread where its code can be.
TypeOK ==
    /\ f.playing \in 0..MaxOps /\ f.arm \in 0..MaxOps /\ f.looping \in BOOLEAN
    /\ f.active \in {0, 1} /\ f.said \in {0, 1} /\ f.inFlight \in BOOLEAN
    /\ slots \in [{0, 1} -> SUBSET Buffer] /\ holds \in [Buffer -> Nat]
    /\ makers \subseteq Buffer
    /\ cb.block \in 0..MaxBlock /\ cb.done \in 0..Frames
    /\ cb.at \in {"idle", "asked", "flight"} \/ f.inFlight
    /\ ct.stores # <<>> => ct.op \in {"play", "stop", "seek"}

One(condition) == IF condition THEN 1 ELSE 0

\* A buffer is held once by its maker, by each slot that plays it and by the
\* schedule being filled in, however a schedule ends, and by nobody else: it
\* is gone when they have all let go and never before (hold_all, Slot::free).
HoldsAddUp ==
    /\ TypeOK
    /\ \A b \in Buffer :
         holds[b] = One(b \in makers) + One(b \in slots[0]) + One(b \in slots[1])
                    + One(ct.op = "fill" /\ b \in ct.plays)

\* A point the reader is told was written by one callback, whole, and lies
\* between where the control thread put the position and the stair, until a
\* run is taken back to its start: a picture drawn by it is neither of another
\* arm nor ahead of what was handed (clock, stamp_clock, begin_arm after the
\* position).
ClockIsOnTheLine ==
    ct.op = "told" =>
        /\ ct.point \in spoken
        /\ ~moved.wrapped => moved.to < ct.point.position /\ ct.point.position <= f.position

\* The callback moves the position ahead by the block it mixed from there, or
\* from the stop to the start: never over what a play or a seek wrote (claim).
SeekStands ==
    [][ cb' # cb /\ f'.position # f.position =>
          \/ f.position = cb.position /\ f'.position - f.position \in 1..MaxBlock
          \/ Bounded /\ f.position >= cb.stop /\ f'.position = cb.start ]_vars

\* A run that ran out ends itself and not the one armed meanwhile (EndsRun).
EndsOnlyItself ==
    [][ cb' # cb /\ f'.playing # f.playing => f.playing = cb.run ]_vars

\* Nothing from before a run's start is mixed into its lead, unless a seek
\* has been asked for since (ReadsLead, the order of play's stores).
LeadIsSilent ==
    cb.at = "claim" /\ cb.sounds /\ cb.run = f.playing /\ moved.by = "play" =>
        cb.position >= f.start

\* The slot a block is mixed from is not touched while it is (Sync, "frees the
\* one it flipped from only once the callback has said it left it").
SlotStandsWhileMixed ==
    [][ cb.at = "mix" => slots'[cb.slot] = slots[cb.slot] ]_vars

=============================================================================
