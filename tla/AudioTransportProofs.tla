------------------------ MODULE AudioTransportProofs ------------------------
(***************************************************************************)
(* Proofs about AudioTransport, for any buffers, schedules, runs, seeks,   *)
(* block sizes and numbers of calls.                                       *)
(***************************************************************************)
EXTENDS AudioTransport, TLAPS

-----------------------------------------------------------------------------
(* The invariant.                                                           *)

CallbackAt ==
    {"idle", "asked", "flight", "position", "start", "stop", "ran", "end", "wrap", "slot", "says",
     "lead", "mix", "claim", "odd", "serial", "handed", "time", "even", "lands"}
ControlOps ==
    {"none", "play", "stop", "seek", "fill", "flip", "flight?", "said?", "free", "seq", "serial",
     "handed", "time", "again", "told"}
Points == [serial : Nat, position : Int, time : Nat]

FieldTypes ==
    [playing : Nat, position : Int, start : Nat, stop : Nat, looping : BOOLEAN, audible : Int,
     arm : Nat, active : {0, 1}, said : {0, 1}, inFlight : BOOLEAN]
CallbackTypes ==
    [at : CallbackAt, arm : Nat, time : Nat, run : Nat, done : 0..Frames, position : Int,
     start : Nat, stop : Nat, slot : {0, 1}, block : 0..MaxBlock, sounds : BOOLEAN]
ControlTypes(stores) ==
    [op : ControlOps, stores : {stores}, slot : {0, 1}, plays : SUBSET Buffer, tries : Nat,
     seq : Nat, point : Points]
MoveTypes == [to : Int, by : {"open", "play", "stop", "seek"}, wrapped : BOOLEAN]

\* The variables' types.
Typed ==
    /\ f \in FieldTypes
    /\ clock \in [seq : Nat, point : Points]
    /\ slots \in [{0, 1} -> SUBSET Buffer] /\ holds \in [Buffer -> Int] /\ makers \subseteq Buffer
    /\ cb \in CallbackTypes
    /\ ct \in ControlTypes(ct.stores)
    /\ ops \in 0..MaxOps /\ calls \in Nat
    /\ moved \in MoveTypes /\ spoken \subseteq Points

\* What the callback has worked out of its block so far.
BlockFits ==
    /\ cb.at \notin {"odd", "serial", "handed", "time", "even", "lands"} => cb.done < Frames
    /\ cb.at \in {"says", "lead", "mix", "claim"} => cb.block > 0 /\ cb.done + cb.block <= Frames
    /\ cb.at \in {"ran", "end", "wrap"} => Bounded /\ cb.position >= cb.stop
    /\ cb.at = "slot" => (Bounded => cb.position < cb.stop)
    /\ cb.at \in {"idle", "asked", "flight"} \/ f.inFlight

\* Runs and arms are numbered upwards: a play under way has a new number.
Numbered ==
    /\ f.playing <= ops /\ cb.run <= ops /\ f.arm <= ops
    /\ cb.arm <= f.arm /\ clock.point.serial <= f.arm
    /\ cb.at \notin {"idle", "asked"} => cb.run # 0
    /\ ct.op = "play" => f.playing < ops /\ cb.run < ops

Say(field, value) == <<field, value>>

\* What a call still has to store, and what it has stored.
PlayLeft(r) ==
    \/ ct.stores = <<Say("playing", 0), Say("audible", r.start), Say("start", r.start),
                     Say("stop", r.stop), Say("looping", r.looping), Say("position", r.start - r.lead),
                     Say("arm", f.arm + 1), Say("playing", ops)>>
    \/ /\ f.playing = 0
       /\ ct.stores = <<Say("audible", r.start), Say("start", r.start),
                        Say("stop", r.stop), Say("looping", r.looping), Say("position", r.start - r.lead),
                        Say("arm", f.arm + 1), Say("playing", ops)>>
    \/ /\ f.playing = 0 /\ f.audible = r.start
       /\ ct.stores = <<Say("start", r.start), Say("stop", r.stop), Say("looping", r.looping),
                        Say("position", r.start - r.lead), Say("arm", f.arm + 1), Say("playing", ops)>>
    \/ /\ f.playing = 0 /\ f.audible = r.start /\ f.start = r.start
       /\ \/ ct.stores = <<Say("stop", r.stop), Say("looping", r.looping),
                           Say("position", r.start - r.lead), Say("arm", f.arm + 1), Say("playing", ops)>>
          \/ ct.stores = <<Say("looping", r.looping),
                           Say("position", r.start - r.lead), Say("arm", f.arm + 1), Say("playing", ops)>>
          \/ ct.stores = <<Say("position", r.start - r.lead), Say("arm", f.arm + 1), Say("playing", ops)>>
          \/ ct.stores = <<Say("arm", f.arm + 1), Say("playing", ops)>>
          \/ ct.stores = <<Say("playing", ops)>>
StopLeft ==
    \/ ct.stores = <<Say("playing", 0), Say("arm", f.arm + 1)>>
    \/ ct.stores = <<Say("arm", f.arm + 1)>>
SeekLeft(to) ==
    \/ ct.stores = <<Say("audible", Never), Say("position", to), Say("arm", f.arm + 1)>>
    \/ ct.stores = <<Say("position", to), Say("arm", f.arm + 1)>>
    \/ ct.stores = <<Say("arm", f.arm + 1)>>

ArmLeft ==
    \/ ct.op = "play" /\ Len(ct.stores) # 1
    \/ ct.op = "stop"
    \/ ct.op = "seek"

StoresLeft ==
    /\ ct.op \notin {"play", "stop", "seek"} => ct.stores = <<>>
    /\ ct.op = "play" => \E r \in Runs : PlayLeft(r)
    /\ ct.op = "stop" => StopLeft
    /\ ct.op = "seek" => \E to \in Seeks : SeekLeft(to)
    /\ ArmLeft => f.arm < ops

\* A run that plays since its own play, unsought, begins to sound at its start.
LeadHolds ==
    /\ f.playing # 0 /\ moved.by = "play" => f.audible = f.start
    /\ cb.at \in {"mix", "claim"} /\ cb.sounds /\ cb.run = f.playing /\ moved.by = "play"
         => cb.position >= f.start

\* The book, and the slot emptied before it is filled.
BookHolds ==
    /\ \A b \in Buffer :
         holds[b] = One(b \in makers) + One(b \in slots[0]) + One(b \in slots[1])
                    + One(ct.op = "fill" /\ b \in ct.plays)
    /\ ct.op = "fill" => slots[ct.slot] = {}

\* A point being written: what of it is there, under an odd sequence.
Writing == cb.at \in {"serial", "handed", "time", "even"}
Stamp == [serial |-> cb.arm, position |-> cb.position, time |-> cb.time]
PointHolds ==
    /\ clock.seq % 2 = (IF Writing THEN 1 ELSE 0)
    /\ Writing => Stamp \in spoken
    /\ cb.at \in {"handed", "time", "even"} => clock.point.serial = cb.arm
    /\ cb.at \in {"time", "even"} => clock.point.position = cb.position
    /\ cb.at = "even" => clock.point.time = cb.time
    /\ ~Writing /\ clock.point.time # 0 => clock.point \in spoken

\* A position put and not yet armed.
Unarmed == (ct.op = "play" /\ Len(ct.stores) = 2) \/ (ct.op = "seek" /\ Len(ct.stores) = 1)
OnLine(position) == ~moved.wrapped => moved.to < position /\ position <= f.position

\* Of the arm there is, what the callback has handed and what the clock says
\* lie on the line.
LineHolds ==
    /\ ~moved.wrapped => moved.to <= f.position
    /\ ~Unarmed /\ cb.arm = f.arm /\ (cb.at = "odd" \/ Writing) => OnLine(cb.position)
    /\ ~Unarmed /\ clock.point.serial = f.arm /\ ~Writing /\ clock.point.time # 0
         => OnLine(clock.point.position)

\* What the reader has read under the sequence it saw.
ReaderHolds ==
    /\ ct.op \in {"serial", "handed", "time", "again"} => ct.seq % 2 = 0 /\ ct.seq <= clock.seq
    /\ ct.op \in {"handed", "time", "again"} /\ ct.seq = clock.seq => ct.point.serial = clock.point.serial
    /\ ct.op \in {"time", "again"} /\ ct.seq = clock.seq => ct.point.position = clock.point.position
    /\ ct.op = "again" /\ ct.seq = clock.seq => ct.point.time = clock.point.time
    /\ ct.op = "told" => ct.point \in spoken /\ OnLine(ct.point.position)

IInv ==
    /\ Typed /\ BlockFits /\ Numbered /\ StoresLeft /\ LeadHolds
    /\ BookHolds /\ PointHolds /\ LineHolds /\ ReaderHolds

-----------------------------------------------------------------------------
(* The callback's steps.                                                    *)

\* What a call has left to store stays so when no other call stores.
LEMMA StoresStay ==
    ASSUME StoresLeft, ct' = ct, ops' = ops, f'.audible = f.audible, f'.start = f.start,
           f'.arm = f.arm, f'.playing \in {f.playing, 0}
    PROVE  StoresLeft'
<1>1. ASSUME NEW r \in Runs, PlayLeft(r) PROVE PlayLeft(r)' BY <1>1 DEF PlayLeft
<1> QED BY <1>1 DEF StoresLeft, StopLeft, SeekLeft, ArmLeft

\* A step of the callback while it stamps nothing: the fields a control call
\* stores stand, but for a run that ended, and so does what is said of the book
\* and of the clock; the position goes on, or is taken back to a start.
Stamping == {"odd", "serial", "handed", "time", "even"}
GoesOn ==
    \/ moved' = moved /\ f.position <= f'.position
    \/ moved' = [moved EXCEPT !.wrapped = TRUE]
SoundsOn ==
    cb'.at \in {"mix", "claim"} /\ cb'.sounds =>
      \/ cb'.position >= f.audible
      \/ cb.at = "mix" /\ cb.sounds /\ cb'.position = cb.position /\ cb'.run = cb.run

LEMMA BlockKeeps ==
    ASSUME IInv, UNCHANGED <<clock, book, ct, ops, spoken>>, calls' \in Nat,
           cb.at \notin Stamping, cb'.at \notin Stamping \ {"odd"},
           f' \in FieldTypes, f'.audible = f.audible, f'.start = f.start, f'.arm = f.arm,
           f'.playing \in {f.playing, 0},
           cb' \in CallbackTypes, BlockFits', cb'.arm \in {cb.arm, f.arm, 0},
           cb'.run \in {cb.run, f.playing, 0}, cb'.at \notin {"idle", "asked"} => cb'.run # 0,
           GoesOn, SoundsOn, cb'.at = "odd" => OnLine(cb.position)'
    PROVE  IInv'
<1>0. /\ f \in FieldTypes /\ f.position \in Int /\ f'.position \in Int /\ f.playing \in Nat
      /\ f.arm \in Nat /\ cb.run \in Nat /\ cb.arm \in Nat /\ ops \in Nat /\ moved \in MoveTypes
      /\ moved.to \in Int /\ f.start \in Int /\ f.audible \in Int /\ cb'.position \in Int
      /\ clock \in [seq : Nat, point : Points] /\ spoken \subseteq Points /\ ct \in ControlTypes(ct.stores)
  BY DEF IInv, Typed, FieldTypes, CallbackTypes, MoveTypes
<1>1. moved' \in MoveTypes /\ moved'.by = moved.by /\ moved'.to = moved.to
      /\ ((moved' = moved /\ f.position <= f'.position) \/ moved'.wrapped)
  BY <1>0 DEF GoesOn, MoveTypes
<1>2. Typed' BY <1>1 DEF IInv, Typed, book
<1>3. Numbered' BY <1>0 DEF IInv, Numbered
<1>4. StoresLeft' BY StoresStay DEF IInv
<1>5. LeadHolds' BY <1>0, <1>1, <1>3 DEF IInv, LeadHolds, SoundsOn, Numbered
<1>6. BookHolds' BY DEF IInv, BookHolds, One, book
<1>7. PointHolds' BY DEF IInv, PointHolds, Writing, Stamping
<1>8. \A p \in Int : OnLine(p) => OnLine(p)' BY <1>0, <1>1 DEF OnLine
<1>9. LineHolds'
  <2>1. ~moved'.wrapped => moved'.to <= f'.position BY <1>0, <1>1 DEF IInv, LineHolds
  <2>2. cb'.at \notin {"serial", "handed", "time", "even"} BY DEF Stamping
  <2>3. clock.point.position \in Int BY <1>0 DEF Points
  <2>4. ~Unarmed' /\ clock'.point.serial = f'.arm /\ ~Writing' /\ clock'.point.time # 0
          => OnLine(clock.point.position)'
    BY <1>8, <2>3 DEF IInv, LineHolds, Unarmed, Writing, Stamping, OnLine
  <2> QED BY <2>1, <2>2, <2>4 DEF LineHolds, Writing, OnLine
<1>10. ReaderHolds'
  <2>1. ct.point.position \in Int BY <1>0 DEF ControlTypes, Points
  <2> QED BY <1>8, <2>1 DEF IInv, ReaderHolds, OnLine
<1> QED BY <1>2, <1>3, <1>4, <1>5, <1>6, <1>7, <1>9, <1>10 DEF IInv


\* What a step knows of the fields and of what the callback has read.
LEMMA CallbackKnows ==
    ASSUME IInv
    PROVE  /\ f \in FieldTypes /\ cb \in CallbackTypes /\ calls \in Nat /\ calls + 1 \in Nat
           /\ f.playing \in Nat /\ f.position \in Int /\ f.start \in Nat /\ f.stop \in Nat
           /\ f.audible \in Int /\ f.arm \in Nat /\ f.active \in {0, 1}
           /\ cb.arm \in Nat /\ cb.time \in Nat /\ cb.run \in Nat /\ cb.done \in 0..Frames
           /\ cb.position \in Int /\ cb.start \in Nat /\ cb.stop \in Nat /\ cb.slot \in {0, 1}
           /\ cb.block \in 0..MaxBlock /\ cb.sounds \in BOOLEAN
           /\ Frames \in Nat \ {0} /\ MaxBlock \in Nat \ {0}
  BY TransportAssumption DEF IInv, Typed, FieldTypes, CallbackTypes

LEMMA IdleTyped == Idle \in CallbackTypes
  BY TransportAssumption DEF Idle, CallbackTypes, CallbackAt

LEMMA AskedKeeps == ASSUME IInv, Asked PROVE IInv'
<1>0. UNCHANGED <<f, clock, book, ct, ops, moved, spoken>> /\ calls' \in Nat
  BY CallbackKnows DEF Asked, UnchangedByCallback
<1>1. cb' \in CallbackTypes
  BY IdleTyped, CallbackKnows DEF Asked, CallbackTypes, CallbackAt
<1>2. BlockFits' BY <1>0, CallbackKnows DEF Asked, IInv, BlockFits, Bounded, CallbackTypes, Idle
<1>3. /\ cb.at \notin Stamping /\ cb'.at \notin Stamping
      /\ cb'.arm \in {cb.arm, f.arm, 0} /\ cb'.run \in {cb.run, f.playing, 0}
      /\ cb'.at \notin {"idle", "asked"} => cb'.run # 0
  BY CallbackKnows DEF Asked, IInv, Numbered, Stamping, CallbackTypes, Idle
<1>4. SoundsOn BY CallbackKnows DEF Asked, SoundsOn, CallbackTypes, Idle
<1> QED BY <1>0, <1>1, <1>2, <1>3, <1>4, CallbackKnows, BlockKeeps DEF GoesOn, Stamping

LEMMA SeesRunKeeps == ASSUME IInv, SeesRun PROVE IInv'
<1>0. UNCHANGED <<f, clock, book, ct, ops, moved, spoken>> /\ calls' \in Nat
  BY CallbackKnows DEF SeesRun, UnchangedByCallback
<1>1. cb' \in CallbackTypes
  BY IdleTyped, CallbackKnows DEF SeesRun, CallbackTypes, CallbackAt
<1>2. BlockFits' BY <1>0, CallbackKnows DEF SeesRun, IInv, BlockFits, Bounded, CallbackTypes, Idle
<1>3. /\ cb.at \notin Stamping /\ cb'.at \notin Stamping
      /\ cb'.arm \in {cb.arm, f.arm, 0} /\ cb'.run \in {cb.run, f.playing, 0}
      /\ cb'.at \notin {"idle", "asked"} => cb'.run # 0
  BY CallbackKnows DEF SeesRun, IInv, Numbered, Stamping, CallbackTypes, Idle
<1>4. SoundsOn BY CallbackKnows DEF SeesRun, SoundsOn, CallbackTypes, Idle
<1> QED BY <1>0, <1>1, <1>2, <1>3, <1>4, CallbackKnows, BlockKeeps DEF GoesOn, Stamping

LEMMA ReadsPositionKeeps == ASSUME IInv, ReadsPosition PROVE IInv'
<1>0. UNCHANGED <<f, clock, book, ct, ops, moved, spoken>> /\ calls' \in Nat
  BY CallbackKnows DEF ReadsPosition, UnchangedByCallback
<1>1. cb' \in CallbackTypes
  BY CallbackKnows DEF ReadsPosition, CallbackTypes, CallbackAt
<1>2. BlockFits' BY <1>0, CallbackKnows DEF ReadsPosition, IInv, BlockFits, Bounded, CallbackTypes
<1>3. /\ cb.at \notin Stamping /\ cb'.at \notin Stamping
      /\ cb'.arm \in {cb.arm, f.arm, 0} /\ cb'.run \in {cb.run, f.playing, 0}
      /\ cb'.at \notin {"idle", "asked"} => cb'.run # 0
  BY CallbackKnows DEF ReadsPosition, IInv, Numbered, Stamping, CallbackTypes
<1>4. SoundsOn BY CallbackKnows DEF ReadsPosition, SoundsOn, CallbackTypes
<1> QED BY <1>0, <1>1, <1>2, <1>3, <1>4, CallbackKnows, BlockKeeps DEF GoesOn, Stamping

LEMMA ReadsStartKeeps == ASSUME IInv, ReadsStart PROVE IInv'
<1>0. UNCHANGED <<f, clock, book, ct, ops, moved, spoken>> /\ calls' \in Nat
  BY CallbackKnows DEF ReadsStart, UnchangedByCallback
<1>1. cb' \in CallbackTypes
  BY CallbackKnows DEF ReadsStart, CallbackTypes, CallbackAt
<1>2. BlockFits' BY <1>0, CallbackKnows DEF ReadsStart, IInv, BlockFits, Bounded, CallbackTypes
<1>3. /\ cb.at \notin Stamping /\ cb'.at \notin Stamping
      /\ cb'.arm \in {cb.arm, f.arm, 0} /\ cb'.run \in {cb.run, f.playing, 0}
      /\ cb'.at \notin {"idle", "asked"} => cb'.run # 0
  BY CallbackKnows DEF ReadsStart, IInv, Numbered, Stamping, CallbackTypes
<1>4. SoundsOn BY CallbackKnows DEF ReadsStart, SoundsOn, CallbackTypes
<1> QED BY <1>0, <1>1, <1>2, <1>3, <1>4, CallbackKnows, BlockKeeps DEF GoesOn, Stamping

LEMMA ReadsStopKeeps == ASSUME IInv, ReadsStop PROVE IInv'
<1>0. UNCHANGED <<f, clock, book, ct, ops, moved, spoken>> /\ calls' \in Nat
  BY CallbackKnows DEF ReadsStop, UnchangedByCallback
<1>1. cb' \in CallbackTypes
  BY CallbackKnows DEF ReadsStop, CallbackTypes, CallbackAt
<1>2. BlockFits' BY <1>0, CallbackKnows DEF ReadsStop, IInv, BlockFits, Bounded, CallbackTypes
<1>3. /\ cb.at \notin Stamping /\ cb'.at \notin Stamping
      /\ cb'.arm \in {cb.arm, f.arm, 0} /\ cb'.run \in {cb.run, f.playing, 0}
      /\ cb'.at \notin {"idle", "asked"} => cb'.run # 0
  BY CallbackKnows DEF ReadsStop, IInv, Numbered, Stamping, CallbackTypes
<1>4. SoundsOn BY CallbackKnows DEF ReadsStop, SoundsOn, CallbackTypes
<1> QED BY <1>0, <1>1, <1>2, <1>3, <1>4, CallbackKnows, BlockKeeps DEF GoesOn, Stamping

LEMMA RanOutKeeps == ASSUME IInv, RanOut PROVE IInv'
<1>0. UNCHANGED <<f, clock, book, ct, ops, moved, spoken>> /\ calls' \in Nat
  BY CallbackKnows DEF RanOut, UnchangedByCallback
<1>1. cb' \in CallbackTypes
  BY CallbackKnows DEF RanOut, CallbackTypes, CallbackAt
<1>2. BlockFits' BY <1>0, CallbackKnows DEF RanOut, IInv, BlockFits, Bounded, CallbackTypes
<1>3. /\ cb.at \notin Stamping /\ cb'.at \notin Stamping
      /\ cb'.arm \in {cb.arm, f.arm, 0} /\ cb'.run \in {cb.run, f.playing, 0}
      /\ cb'.at \notin {"idle", "asked"} => cb'.run # 0
  BY CallbackKnows DEF RanOut, IInv, Numbered, Stamping, CallbackTypes
<1>4. SoundsOn BY CallbackKnows DEF RanOut, SoundsOn, CallbackTypes
<1> QED BY <1>0, <1>1, <1>2, <1>3, <1>4, CallbackKnows, BlockKeeps DEF GoesOn, Stamping

LEMMA ReadsActiveKeeps == ASSUME IInv, ReadsActive PROVE IInv'
<1>0. UNCHANGED <<f, clock, book, ct, ops, moved, spoken>> /\ calls' \in Nat
  BY CallbackKnows DEF ReadsActive, UnchangedByCallback
<1>1. cb' \in CallbackTypes
  <2>1. BlockLeft \in 0..MaxBlock
    BY CallbackKnows DEF ReadsActive, IInv, BlockFits, BlockLeft, Least, Bounded
  <2> QED BY <2>1, CallbackKnows DEF ReadsActive, CallbackTypes, CallbackAt
<1>2. BlockFits' BY <1>0, CallbackKnows DEF ReadsActive, IInv, BlockFits, Bounded, CallbackTypes, BlockLeft, Least
<1>3. /\ cb.at \notin Stamping /\ cb'.at \notin Stamping
      /\ cb'.arm \in {cb.arm, f.arm, 0} /\ cb'.run \in {cb.run, f.playing, 0}
      /\ cb'.at \notin {"idle", "asked"} => cb'.run # 0
  BY CallbackKnows DEF ReadsActive, IInv, Numbered, Stamping, CallbackTypes, BlockLeft, Least
<1>4. SoundsOn BY CallbackKnows DEF ReadsActive, SoundsOn, CallbackTypes, BlockLeft, Least
<1> QED BY <1>0, <1>1, <1>2, <1>3, <1>4, CallbackKnows, BlockKeeps DEF GoesOn, Stamping

LEMMA ReadsLeadKeeps == ASSUME IInv, ReadsLead PROVE IInv'
<1>0. UNCHANGED <<f, clock, book, ct, ops, moved, spoken>> /\ calls' \in Nat
  BY CallbackKnows DEF ReadsLead, UnchangedByCallback
<1>1. cb' \in CallbackTypes
  <2>1. cb.position < f.audible => Least(cb.block, f.audible - cb.position) \in 0..MaxBlock
    BY CallbackKnows DEF Least
  <2> QED BY <2>1, CallbackKnows DEF ReadsLead, CallbackTypes, CallbackAt
<1>2. BlockFits' BY <1>0, CallbackKnows DEF ReadsLead, IInv, BlockFits, Bounded, CallbackTypes, Least
<1>3. /\ cb.at \notin Stamping /\ cb'.at \notin Stamping
      /\ cb'.arm \in {cb.arm, f.arm, 0} /\ cb'.run \in {cb.run, f.playing, 0}
      /\ cb'.at \notin {"idle", "asked"} => cb'.run # 0
  BY CallbackKnows DEF ReadsLead, IInv, Numbered, Stamping, CallbackTypes, Least
<1>4. SoundsOn BY CallbackKnows DEF ReadsLead, SoundsOn, CallbackTypes, Least
<1> QED BY <1>0, <1>1, <1>2, <1>3, <1>4, CallbackKnows, BlockKeeps DEF GoesOn, Stamping

LEMMA MixesKeeps == ASSUME IInv, Mixes PROVE IInv'
<1>0. UNCHANGED <<f, clock, book, ct, ops, moved, spoken>> /\ calls' \in Nat
  BY CallbackKnows DEF Mixes, UnchangedByCallback
<1>1. cb' \in CallbackTypes
  BY CallbackKnows DEF Mixes, CallbackTypes, CallbackAt
<1>2. BlockFits' BY <1>0, CallbackKnows DEF Mixes, IInv, BlockFits, Bounded, CallbackTypes
<1>3. /\ cb.at \notin Stamping /\ cb'.at \notin Stamping
      /\ cb'.arm \in {cb.arm, f.arm, 0} /\ cb'.run \in {cb.run, f.playing, 0}
      /\ cb'.at \notin {"idle", "asked"} => cb'.run # 0
  BY CallbackKnows DEF Mixes, IInv, Numbered, Stamping, CallbackTypes
<1>4. SoundsOn BY CallbackKnows DEF Mixes, SoundsOn, CallbackTypes
<1> QED BY <1>0, <1>1, <1>2, <1>3, <1>4, CallbackKnows, BlockKeeps DEF GoesOn, Stamping

LEMMA TakesFlightKeeps == ASSUME IInv, TakesFlight PROVE IInv'
<1>0. UNCHANGED <<clock, book, ct, ops, calls, spoken>>
  BY DEF TakesFlight, UnchangedByCallback
<1>1. f' \in FieldTypes /\ cb' \in CallbackTypes /\ f'.audible = f.audible /\ f'.start = f.start
      /\ f'.arm = f.arm /\ f'.playing \in {f.playing, 0}
  BY IdleTyped, CallbackKnows DEF TakesFlight, FieldTypes, CallbackTypes, CallbackAt
<1>2. BlockFits' BY <1>0, CallbackKnows DEF TakesFlight, IInv, BlockFits, Bounded, CallbackTypes, FieldTypes
<1>3. /\ cb.at \notin Stamping /\ cb'.at \notin Stamping \ {"odd"}
      /\ cb'.arm \in {cb.arm, f.arm, 0} /\ cb'.run \in {cb.run, f.playing, 0}
      /\ cb'.at \notin {"idle", "asked"} => cb'.run # 0
  BY CallbackKnows DEF TakesFlight, IInv, Numbered, Stamping, CallbackTypes
<1>4. SoundsOn BY CallbackKnows DEF TakesFlight, SoundsOn, CallbackTypes
<1>5. GoesOn BY CallbackKnows DEF TakesFlight, GoesOn, FieldTypes, UnchangedByCallback
<1>6. cb'.at = "odd" => OnLine(cb.position)'
  BY CallbackKnows DEF TakesFlight, CallbackTypes
<1> QED BY <1>0, <1>1, <1>2, <1>3, <1>4, <1>5, <1>6, CallbackKnows, BlockKeeps

LEMMA EndsRunKeeps == ASSUME IInv, EndsRun PROVE IInv'
<1>0. UNCHANGED <<clock, book, ct, ops, calls, spoken>>
  BY DEF EndsRun, UnchangedByCallback
<1>1. f' \in FieldTypes /\ cb' \in CallbackTypes /\ f'.audible = f.audible /\ f'.start = f.start
      /\ f'.arm = f.arm /\ f'.playing \in {f.playing, 0}
  BY IdleTyped, CallbackKnows DEF EndsRun, FieldTypes, CallbackTypes, CallbackAt
<1>2. BlockFits' BY <1>0, CallbackKnows DEF EndsRun, IInv, BlockFits, Bounded, CallbackTypes, FieldTypes
<1>3. /\ cb.at \notin Stamping /\ cb'.at \notin Stamping \ {"odd"}
      /\ cb'.arm \in {cb.arm, f.arm, 0} /\ cb'.run \in {cb.run, f.playing, 0}
      /\ cb'.at \notin {"idle", "asked"} => cb'.run # 0
  BY CallbackKnows DEF EndsRun, IInv, Numbered, Stamping, CallbackTypes
<1>4. SoundsOn BY CallbackKnows DEF EndsRun, SoundsOn, CallbackTypes
<1>5. GoesOn BY CallbackKnows DEF EndsRun, GoesOn, FieldTypes, UnchangedByCallback
<1>6. cb'.at = "odd" => OnLine(cb.position)'
  BY CallbackKnows DEF EndsRun, CallbackTypes
<1> QED BY <1>0, <1>1, <1>2, <1>3, <1>4, <1>5, <1>6, CallbackKnows, BlockKeeps

LEMMA SaysSlotKeeps == ASSUME IInv, SaysSlot PROVE IInv'
<1>0. UNCHANGED <<clock, book, ct, ops, calls, spoken>>
  BY DEF SaysSlot, UnchangedByCallback
<1>1. f' \in FieldTypes /\ cb' \in CallbackTypes /\ f'.audible = f.audible /\ f'.start = f.start
      /\ f'.arm = f.arm /\ f'.playing \in {f.playing, 0}
  BY IdleTyped, CallbackKnows DEF SaysSlot, FieldTypes, CallbackTypes, CallbackAt
<1>2. BlockFits' BY <1>0, CallbackKnows DEF SaysSlot, IInv, BlockFits, Bounded, CallbackTypes, FieldTypes
<1>3. /\ cb.at \notin Stamping /\ cb'.at \notin Stamping \ {"odd"}
      /\ cb'.arm \in {cb.arm, f.arm, 0} /\ cb'.run \in {cb.run, f.playing, 0}
      /\ cb'.at \notin {"idle", "asked"} => cb'.run # 0
  BY CallbackKnows DEF SaysSlot, IInv, Numbered, Stamping, CallbackTypes
<1>4. SoundsOn BY CallbackKnows DEF SaysSlot, SoundsOn, CallbackTypes
<1>5. GoesOn BY CallbackKnows DEF SaysSlot, GoesOn, FieldTypes, UnchangedByCallback
<1>6. cb'.at = "odd" => OnLine(cb.position)'
  BY CallbackKnows DEF SaysSlot, CallbackTypes
<1> QED BY <1>0, <1>1, <1>2, <1>3, <1>4, <1>5, <1>6, CallbackKnows, BlockKeeps

LEMMA LandsKeeps == ASSUME IInv, Lands PROVE IInv'
<1>0. UNCHANGED <<clock, book, ct, ops, calls, spoken>>
  BY DEF Lands, UnchangedByCallback
<1>1. f' \in FieldTypes /\ cb' \in CallbackTypes /\ f'.audible = f.audible /\ f'.start = f.start
      /\ f'.arm = f.arm /\ f'.playing \in {f.playing, 0}
  BY IdleTyped, CallbackKnows DEF Lands, FieldTypes, CallbackTypes, CallbackAt
<1>2. BlockFits' BY <1>0, CallbackKnows DEF Lands, IInv, BlockFits, Bounded, CallbackTypes, FieldTypes, Idle
<1>3. /\ cb.at \notin Stamping /\ cb'.at \notin Stamping \ {"odd"}
      /\ cb'.arm \in {cb.arm, f.arm, 0} /\ cb'.run \in {cb.run, f.playing, 0}
      /\ cb'.at \notin {"idle", "asked"} => cb'.run # 0
  BY CallbackKnows DEF Lands, IInv, Numbered, Stamping, CallbackTypes, Idle
<1>4. SoundsOn BY CallbackKnows DEF Lands, SoundsOn, CallbackTypes, Idle
<1>5. GoesOn BY CallbackKnows DEF Lands, GoesOn, FieldTypes, UnchangedByCallback
<1>6. cb'.at = "odd" => OnLine(cb.position)'
  BY CallbackKnows DEF Lands, CallbackTypes, Idle
<1> QED BY <1>0, <1>1, <1>2, <1>3, <1>4, <1>5, <1>6, CallbackKnows, BlockKeeps

LEMMA WrapsKeeps == ASSUME IInv, Wraps PROVE IInv'
<1>0. UNCHANGED <<clock, book, ct, ops, calls, spoken>>
  BY DEF Wraps
<1>1. f' \in FieldTypes /\ cb' \in CallbackTypes /\ f'.audible = f.audible /\ f'.start = f.start
      /\ f'.arm = f.arm /\ f'.playing = f.playing
  <2>1. CASE f.position = cb.position
    <3>1. f' = [f EXCEPT !.position = cb.start] /\ cb' = [cb EXCEPT !.at = "slot", !.position = cb.start]
      BY <2>1 DEF Wraps
    <3>2. cb.start \in Int BY CallbackKnows
    <3>3. f' \in FieldTypes BY <3>1, <3>2, CallbackKnows DEF FieldTypes
    <3>4. cb' \in CallbackTypes BY <3>1, <3>2, CallbackKnows DEF CallbackTypes, CallbackAt
    <3> QED BY <3>1, <3>3, <3>4, CallbackKnows DEF FieldTypes
  <2>2. CASE f.position # cb.position
    <3>1. f' = f /\ cb' = [cb EXCEPT !.at = "lands"] BY <2>2 DEF Wraps
    <3> QED BY <3>1, CallbackKnows DEF CallbackTypes, CallbackAt
  <2> QED BY <2>1, <2>2
<1>2. BlockFits' BY <1>0, CallbackKnows DEF Wraps, IInv, BlockFits, Bounded, CallbackTypes, FieldTypes
<1>3. /\ cb.at \notin Stamping /\ cb'.at \in {"slot", "lands"} /\ cb'.arm = cb.arm /\ cb'.run = cb.run
      /\ cb.run # 0
  BY CallbackKnows DEF Wraps, IInv, Numbered, Stamping, CallbackTypes
<1>4. GoesOn BY CallbackKnows DEF Wraps, GoesOn, FieldTypes
<1> QED BY <1>0, <1>1, <1>2, <1>3, <1>4, CallbackKnows, BlockKeeps DEF SoundsOn, Stamping

LEMMA ClaimsKeeps == ASSUME IInv, Claims PROVE IInv'
<1>0. UNCHANGED <<clock, book, ct, ops, calls, moved, spoken>> /\ cb.at = "claim"
  BY DEF Claims, UnchangedByCallback
<1>1. CASE f.position # cb.position
  <2>1. f' = f /\ cb' = [cb EXCEPT !.at = "lands"] BY <1>1 DEF Claims
  <2>2. cb' \in CallbackTypes /\ cb'.at = "lands" /\ cb'.arm = cb.arm /\ cb'.run = cb.run
    BY <2>1, CallbackKnows DEF CallbackTypes, CallbackAt
  <2>3. BlockFits' BY <1>0, <2>1, CallbackKnows DEF IInv, BlockFits, CallbackTypes
  <2>4. cb.run # 0 BY <1>0 DEF IInv, Numbered
  <2> QED BY <1>0, <2>1, <2>2, <2>3, <2>4, CallbackKnows, BlockKeeps DEF SoundsOn, GoesOn, Stamping
<1>2. CASE f.position = cb.position
  <2> DEFINE to == cb.position + cb.block
             done == cb.done + cb.block
  <2>1. cb.block \in 1..MaxBlock /\ done \in 0..Frames /\ to \in Int /\ f.position < to /\ cb.run # 0
    BY <1>0, <1>2, CallbackKnows DEF IInv, BlockFits, Numbered
  <2>2. /\ f' = [f EXCEPT !.position = to]
        /\ cb' = [cb EXCEPT !.position = to, !.done = done, !.at = IF done < Frames THEN "position" ELSE "odd"]
    BY <1>2 DEF Claims
  <2> HIDE DEF to, done
  <2>3. /\ f' \in FieldTypes /\ f'.audible = f.audible /\ f'.start = f.start /\ f'.arm = f.arm
        /\ f'.playing = f.playing /\ f'.position = to /\ f'.inFlight = f.inFlight
    BY <2>1, <2>2, CallbackKnows DEF FieldTypes
  <2>4. /\ cb'.at = (IF done < Frames THEN "position" ELSE "odd") /\ cb'.arm = cb.arm /\ cb'.run = cb.run
        /\ cb'.position = to /\ cb'.done = done
    BY <2>2, CallbackKnows DEF CallbackTypes
  <2>5. cb' \in CallbackTypes
    <3>1. (IF done < Frames THEN "position" ELSE "odd") \in CallbackAt BY DEF CallbackAt
    <3> QED BY <2>1, <2>2, <3>1, CallbackKnows DEF CallbackTypes
  <2>6. BlockFits' BY <1>0, <2>1, <2>3, <2>4, CallbackKnows DEF IInv, BlockFits
  <2>7. OnLine(cb.position)'
    BY <1>0, <2>1, <2>3, <2>4, CallbackKnows DEF IInv, Typed, MoveTypes, LineHolds, OnLine
  <2>8. GoesOn BY <1>0, <2>1, <2>3, CallbackKnows DEF GoesOn
  <2> QED BY <1>0, <2>1, <2>3, <2>4, <2>5, <2>6, <2>7, <2>8, CallbackKnows, BlockKeeps DEF SoundsOn, Stamping
<1> QED BY <1>1, <1>2

\* A step of the callback while it stamps the clock's point: nothing else changes.
LEMMA StampKeeps ==
    ASSUME IInv, UNCHANGED <<f, book, ct, ops, calls, moved>>, cb.at \in Stamping,
           NEW at \in Stamping \cup {"lands"}, cb' = [cb EXCEPT !.at = at], at # "odd",
           clock' \in [seq : Nat, point : Points],
           clock.seq < clock'.seq \/ (clock'.seq = clock.seq /\ Writing),
           clock'.point.serial \in {clock.point.serial, cb.arm},
           spoken \subseteq spoken', spoken' \subseteq Points, PointHolds',
           at = "lands" => cb.at = "even" /\ clock'.point = clock.point
    PROVE  IInv'
<1>1. /\ cb' \in CallbackTypes /\ cb'.at = at /\ cb'.arm = cb.arm /\ cb'.run = cb.run
      /\ cb'.position = cb.position /\ cb'.time = cb.time /\ cb'.done = cb.done
  BY CallbackKnows DEF CallbackTypes, CallbackAt, Stamping
<1>2. Typed' BY <1>1 DEF IInv, Typed, book
<1>3. BlockFits' BY <1>1 DEF IInv, BlockFits, Stamping
<1>4. Numbered' BY <1>1 DEF IInv, Numbered, Stamping
<1>5. StoresLeft' BY StoresStay DEF IInv
<1>6. LeadHolds' BY <1>1 DEF IInv, LeadHolds, Stamping
<1>7. BookHolds' BY DEF IInv, BookHolds, One, book
<1>8. LineHolds'
  <2>1. CASE at # "lands"
    BY <1>1, <2>1 DEF IInv, LineHolds, Unarmed, OnLine, Writing, Stamping
  <2>2. CASE at = "lands"
    BY <1>1, <2>2 DEF IInv, LineHolds, Unarmed, OnLine, Writing, Stamping, PointHolds
  <2> QED BY <2>1, <2>2
<1>9. ReaderHolds'
  <2>1. clock.seq \in Nat /\ clock'.seq \in Nat /\ ct.seq \in Nat
    BY DEF IInv, Typed, ControlTypes
  <2>2. Writing => clock.seq % 2 = 1 BY DEF IInv, PointHolds
  <2>3. ct.op \in {"serial", "handed", "time", "again"} => ct.seq # clock'.seq /\ ct.seq <= clock'.seq
    BY <2>1, <2>2 DEF IInv, ReaderHolds
  <2> QED BY <2>3 DEF IInv, ReaderHolds, OnLine
<1> QED BY <1>1, <1>2, <1>3, <1>4, <1>5, <1>6, <1>7, <1>8, <1>9 DEF IInv

LEMMA StampsOddKeeps == ASSUME IInv, StampsOdd PROVE IInv'
<1>0. UNCHANGED <<f, book, ct, ops, calls, moved>>
  BY DEF StampsOdd, UnchangedByCallback
<1>1. /\ cb.at = "odd" /\ cb' = [cb EXCEPT !.at = "serial"]
      /\ cb'.at = "serial" /\ cb'.arm = cb.arm /\ cb'.position = cb.position /\ cb'.time = cb.time
  BY CallbackKnows DEF StampsOdd, CallbackTypes
<1>2. /\ clock \in [seq : Nat, point : Points] /\ clock.seq \in Nat /\ clock.point \in Points
      /\ spoken \subseteq Points /\ (clock.seq % 2 = 1 <=> Writing)
  BY DEF IInv, Typed, PointHolds
<1>3. /\ clock' \in [seq : Nat, point : Points]
      /\ clock'.seq = clock.seq + 1 /\ clock'.point = clock.point
  BY <1>2, CallbackKnows DEF StampsOdd, Points
<1>4. spoken \subseteq spoken' /\ spoken' \subseteq Points
  BY <1>2, CallbackKnows DEF StampsOdd, Points
<1>5. PointHolds' BY <1>1, <1>2, <1>3, <1>4 DEF StampsOdd, IInv, PointHolds, Writing, Stamp
<1>6. clock.seq < clock'.seq BY <1>2, <1>3
<1> QED BY <1>0, <1>1, <1>3, <1>4, <1>5, <1>6, StampKeeps DEF Stamping

LEMMA StampsSerialKeeps == ASSUME IInv, StampsSerial PROVE IInv'
<1>0. UNCHANGED <<f, book, ct, ops, calls, moved>>
  BY DEF StampsSerial, UnchangedByCallback
<1>1. /\ cb.at = "serial" /\ cb' = [cb EXCEPT !.at = "handed"]
      /\ cb'.at = "handed" /\ cb'.arm = cb.arm /\ cb'.position = cb.position /\ cb'.time = cb.time
  BY CallbackKnows DEF StampsSerial, CallbackTypes
<1>2. /\ clock \in [seq : Nat, point : Points] /\ clock.seq \in Nat /\ clock.point \in Points
      /\ spoken \subseteq Points /\ (clock.seq % 2 = 1 <=> Writing)
  BY DEF IInv, Typed, PointHolds
<1>3. /\ clock' \in [seq : Nat, point : Points]
      /\ clock'.seq = clock.seq /\ clock'.point.serial = cb.arm
  BY <1>2, CallbackKnows DEF StampsSerial, Points
<1>4. spoken \subseteq spoken' /\ spoken' \subseteq Points
  BY <1>2, CallbackKnows DEF StampsSerial, Points
<1>5. PointHolds' BY <1>1, <1>2, <1>3, <1>4 DEF StampsSerial, IInv, PointHolds, Writing, Stamp
<1>6. clock'.seq = clock.seq /\ Writing
  BY <1>1, <1>3 DEF Writing
<1> QED BY <1>0, <1>1, <1>3, <1>4, <1>5, <1>6, StampKeeps DEF Stamping

LEMMA StampsHandedKeeps == ASSUME IInv, StampsHanded PROVE IInv'
<1>0. UNCHANGED <<f, book, ct, ops, calls, moved>>
  BY DEF StampsHanded, UnchangedByCallback
<1>1. /\ cb.at = "handed" /\ cb' = [cb EXCEPT !.at = "time"]
      /\ cb'.at = "time" /\ cb'.arm = cb.arm /\ cb'.position = cb.position /\ cb'.time = cb.time
  BY CallbackKnows DEF StampsHanded, CallbackTypes
<1>2. /\ clock \in [seq : Nat, point : Points] /\ clock.seq \in Nat /\ clock.point \in Points
      /\ spoken \subseteq Points /\ (clock.seq % 2 = 1 <=> Writing)
  BY DEF IInv, Typed, PointHolds
<1>3. /\ clock' \in [seq : Nat, point : Points]
      /\ clock'.seq = clock.seq /\ clock'.point.serial = clock.point.serial
      /\ clock'.point.position = cb.position
  BY <1>2, CallbackKnows DEF StampsHanded, Points
<1>4. spoken \subseteq spoken' /\ spoken' \subseteq Points
  BY <1>2, CallbackKnows DEF StampsHanded, Points
<1>5. PointHolds' BY <1>1, <1>2, <1>3, <1>4 DEF StampsHanded, IInv, PointHolds, Writing, Stamp
<1>6. clock'.seq = clock.seq /\ Writing
  BY <1>1, <1>3 DEF Writing
<1> QED BY <1>0, <1>1, <1>3, <1>4, <1>5, <1>6, StampKeeps DEF Stamping

LEMMA StampsTimeKeeps == ASSUME IInv, StampsTime PROVE IInv'
<1>0. UNCHANGED <<f, book, ct, ops, calls, moved>>
  BY DEF StampsTime, UnchangedByCallback
<1>1. /\ cb.at = "time" /\ cb' = [cb EXCEPT !.at = "even"]
      /\ cb'.at = "even" /\ cb'.arm = cb.arm /\ cb'.position = cb.position /\ cb'.time = cb.time
  BY CallbackKnows DEF StampsTime, CallbackTypes
<1>2. /\ clock \in [seq : Nat, point : Points] /\ clock.seq \in Nat /\ clock.point \in Points
      /\ spoken \subseteq Points /\ (clock.seq % 2 = 1 <=> Writing)
  BY DEF IInv, Typed, PointHolds
<1>3. /\ clock' \in [seq : Nat, point : Points]
      /\ clock'.seq = clock.seq /\ clock'.point.serial = clock.point.serial
      /\ clock'.point.position = clock.point.position /\ clock'.point.time = cb.time
  BY <1>2, CallbackKnows DEF StampsTime, Points
<1>4. spoken \subseteq spoken' /\ spoken' \subseteq Points
  BY <1>2, CallbackKnows DEF StampsTime, Points
<1>5. PointHolds' BY <1>1, <1>2, <1>3, <1>4 DEF StampsTime, IInv, PointHolds, Writing, Stamp
<1>6. clock'.seq = clock.seq /\ Writing
  BY <1>1, <1>3 DEF Writing
<1> QED BY <1>0, <1>1, <1>3, <1>4, <1>5, <1>6, StampKeeps DEF Stamping

LEMMA StampsEvenKeeps == ASSUME IInv, StampsEven PROVE IInv'
<1>0. UNCHANGED <<f, book, ct, ops, calls, moved>>
  BY DEF StampsEven, UnchangedByCallback
<1>1. /\ cb.at = "even" /\ cb' = [cb EXCEPT !.at = "lands"]
      /\ cb'.at = "lands" /\ cb'.arm = cb.arm /\ cb'.position = cb.position /\ cb'.time = cb.time
  BY CallbackKnows DEF StampsEven, CallbackTypes
<1>2. /\ clock \in [seq : Nat, point : Points] /\ clock.seq \in Nat /\ clock.point \in Points
      /\ spoken \subseteq Points /\ (clock.seq % 2 = 1 <=> Writing)
  BY DEF IInv, Typed, PointHolds
<1>3. /\ clock' \in [seq : Nat, point : Points]
      /\ clock'.seq = clock.seq + 1 /\ clock'.point = clock.point
  BY <1>2, CallbackKnows DEF StampsEven, Points
<1>4. spoken \subseteq spoken' /\ spoken' \subseteq Points
  BY <1>2, CallbackKnows DEF StampsEven, Points
<1>7. clock.point \in spoken
  <2>1. clock.point.serial = cb.arm /\ clock.point.position = cb.position /\ clock.point.time = cb.time
    BY <1>1 DEF IInv, PointHolds
  <2>2. clock.point = Stamp BY <1>2, <2>1 DEF Points, Stamp
  <2> QED BY <1>1, <2>2 DEF IInv, PointHolds, Writing
<1>5. PointHolds' BY <1>1, <1>2, <1>3, <1>4, <1>7 DEF StampsEven, IInv, PointHolds, Writing, Stamp
<1>6. clock.seq < clock'.seq BY <1>2, <1>3
<1> QED BY <1>0, <1>1, <1>3, <1>4, <1>5, <1>6, StampKeeps DEF Stamping

-----------------------------------------------------------------------------
(* The control thread's steps.                                              *)

LEMMA QuietTyped == Quiet \in ControlTypes(<<>>) /\ NoPoint \in Points
  BY DEF Quiet, NoPoint, ControlTypes, ControlOps, Points

\* A step that touches neither the fields nor the clock.
Aside ==
    /\ UNCHANGED <<f, clock, cb, calls, spoken, moved>>
    /\ ct.op \notin {"play", "seek"}
    /\ ops' \in {ops, ops + 1} /\ ops' \in 0..MaxOps
    /\ ct'.op = "play" => ops' = ops + 1

\* What is said of the callback, the numbers and the line stands.
LEMMA AsideKeeps ==
    ASSUME IInv, Aside
    PROVE  BlockFits' /\ Numbered' /\ LeadHolds' /\ PointHolds' /\ LineHolds'
<1> USE DEF IInv, Aside, Typed
<1>1. BlockFits' BY DEF BlockFits, Bounded
<1>2. Numbered' BY DEF Numbered, FieldTypes, CallbackTypes, Points
<1>3. LeadHolds' BY DEF LeadHolds
<1>4. PointHolds' BY DEF PointHolds, Writing, Stamp
<1>5. LineHolds' BY DEF LineHolds, Writing, OnLine, Unarmed
<1> QED BY <1>1, <1>2, <1>3, <1>4, <1>5

\* A step that has nothing to store when it is done.
LEMMA NothingToStore ==
    ASSUME ct'.stores = <<>>, ct'.op \notin {"play", "stop", "seek"}
    PROVE  StoresLeft'
  BY DEF StoresLeft, ArmLeft

\* A call outside of the book and of the clock.
LEMMA OffTheBook ==
    ASSUME IInv, UNCHANGED book, ct.op # "fill", ct'.op # "fill"
    PROVE  BookHolds'
  BY DEF IInv, BookHolds, One, book
LEMMA OffTheClock ==
    ASSUME ct'.op \notin {"serial", "handed", "time", "again", "told"}
    PROVE  ReaderHolds'
  BY DEF ReaderHolds

\* The typing of a step that leaves the fields.
LEMMA AsideTyped ==
    ASSUME IInv, Aside, ct' \in ControlTypes(ct'.stores), slots' \in [{0, 1} -> SUBSET Buffer],
           holds' \in [Buffer -> Int], makers' \subseteq Buffer
    PROVE  Typed'
  BY DEF IInv, Typed, Aside

\* A call that is to store begins.
LEMMA CallTyped ==
    ASSUME NEW op \in ControlOps, NEW stores
    PROVE  /\ Storing(op, stores) \in ControlTypes(stores)
           /\ Storing(op, stores).op = op /\ Storing(op, stores).stores = stores
  BY QuietTyped DEF Storing, ControlTypes, Quiet

LEMMA CallKeeps ==
    ASSUME IInv, UNCHANGED <<f, clock, book, cb, calls, spoken, moved>>, ct.op = "none",
           ops < MaxOps, ops' = ops + 1,
           NEW op \in {"play", "stop", "seek"}, NEW stores, ct' = Storing(op, stores), StoresLeft'
    PROVE  IInv'
<1>1. ct' \in ControlTypes(ct'.stores) /\ ct'.op = op
  BY CallTyped DEF ControlOps
<1>2. Aside /\ UNCHANGED book
  BY TransportAssumption DEF Aside, book, IInv, Typed
<1>3. Typed' BY <1>1, <1>2, AsideTyped DEF IInv, Typed, book
<1> QED BY <1>1, <1>2, <1>3, AsideKeeps, OffTheBook, OffTheClock DEF IInv

LEMMA PlayKeeps == ASSUME IInv, NEW r \in Runs, Play(r) PROVE IInv'
<1> DEFINE all == << <<"playing", 0>>, <<"audible", r.start>>, <<"start", r.start>>,
                     <<"stop", r.stop>>, <<"looping", r.looping>>,
                     <<"position", r.start - r.lead>>, <<"arm", NextArm>>, <<"playing", ops + 1>> >>
<1>1. ct' = Storing("play", all) BY DEF Play
<1>2. all = <<Say("playing", 0), Say("audible", r.start), Say("start", r.start),
              Say("stop", r.stop), Say("looping", r.looping), Say("position", r.start - r.lead),
              Say("arm", f'.arm + 1), Say("playing", ops')>>
  BY Zenon DEF Play, Calls, Say, NextArm
<1> HIDE DEF all
<1>3. ct'.op = "play" /\ ct'.stores = all BY <1>1, CallTyped DEF ControlOps
<1>4. PlayLeft(r)' BY <1>2, <1>3 DEF PlayLeft
<1>5. f'.arm < ops' BY DEF Play, Calls, IInv, Numbered, Typed, FieldTypes
<1>6. StoresLeft' BY <1>3, <1>4, <1>5 DEF StoresLeft
<1> QED BY <1>1, <1>6, CallKeeps DEF Play, Calls, UnchangedByControl

LEMMA StopsKeeps ==
    ASSUME IInv, Calls("stop"), UnchangedByControl, UNCHANGED <<f, book, moved>>,
           ct' = Storing("stop", << <<"playing", 0>>, <<"arm", NextArm>> >>)
    PROVE  IInv'
<1> DEFINE all == << <<"playing", 0>>, <<"arm", NextArm>> >>
<1>1. ct' = Storing("stop", all) OBVIOUS
<1>2. all = <<Say("playing", 0), Say("arm", f'.arm + 1)>> BY Zenon DEF Say, NextArm
<1> HIDE DEF all
<1>3. ct'.op = "stop" /\ ct'.stores = all BY <1>1, CallTyped DEF ControlOps
<1>5. f'.arm < ops' BY DEF Calls, IInv, Numbered, Typed, FieldTypes
<1>6. StoresLeft' BY <1>2, <1>3, <1>5 DEF StoresLeft, StopLeft
<1> QED BY <1>1, <1>6, CallKeeps DEF Calls, UnchangedByControl

LEMMA StopKeeps == ASSUME IInv, Stop PROVE IInv'
  BY StopsKeeps DEF Stop

LEMMA SeekKeeps == ASSUME IInv, NEW to \in Seeks, Seek(to) PROVE IInv'
<1> DEFINE all == << <<"audible", Never>>, <<"position", to>>, <<"arm", NextArm>> >>
<1>1. ct' = Storing("seek", all) BY DEF Seek
<1>2. all = <<Say("audible", Never), Say("position", to), Say("arm", f'.arm + 1)>>
  BY Zenon DEF Seek, Say, NextArm
<1> HIDE DEF all
<1>3. ct'.op = "seek" /\ ct'.stores = all BY <1>1, CallTyped DEF ControlOps
<1>4. SeekLeft(to)' BY <1>2, <1>3 DEF SeekLeft
<1>5. f'.arm < ops' BY DEF Seek, Calls, IInv, Numbered, Typed, FieldTypes
<1>6. StoresLeft' BY <1>3, <1>4, <1>5 DEF StoresLeft
<1> QED BY <1>1, <1>6, CallKeeps DEF Seek, Calls, UnchangedByControl

\* A call that stores nothing, outside of the book.
LEMMA QuietKeeps ==
    ASSUME IInv, Aside, UNCHANGED book, ct.op # "fill", ct'.stores = <<>>,
           ct'.op \notin {"play", "stop", "seek", "fill", "serial", "handed", "time", "again", "told"},
           ct' \in ControlTypes(<<>>)
    PROVE  IInv'
<1>1. Typed' BY AsideTyped DEF IInv, Typed, book
<1> QED BY <1>1, AsideKeeps, NothingToStore, OffTheBook, OffTheClock DEF IInv

LEMMA StopRunKeeps == ASSUME IInv, NEW run \in Nat, StopRun(run) PROVE IInv'
<1>1. Aside /\ UNCHANGED book /\ ct.op = "none"
  BY TransportAssumption DEF StopRun, Calls, Aside, UnchangedByControl, IInv, Typed, book, Quiet, Storing
<1>2. CASE f.playing \in {0, run}
  BY <1>2, StopsKeeps DEF StopRun, Calls
<1>3. CASE f.playing \notin {0, run}
  <2>1. ct' = Quiet BY <1>3 DEF StopRun
  <2> QED BY <1>1, <2>1, QuietTyped, QuietKeeps DEF Quiet
<1> QED BY <1>2, <1>3

\* What a buffer's hold counts.
HoldsOf(b) ==
    holds[b] = One(b \in makers) + One(b \in slots[0]) + One(b \in slots[1])
               + One(ct.op = "fill" /\ b \in ct.plays)

LEMMA OneIs == \A c \in BOOLEAN : One(c) \in {0, 1} /\ (One(c) = 1 <=> c)
  BY DEF One

LEMMA NewBufferKeeps == ASSUME IInv, NEW b \in Buffer, NewBuffer(b) PROVE IInv'
<1>1. Aside
  BY TransportAssumption DEF NewBuffer, Calls, Aside, UnchangedByControl, IInv, Typed
<1>2. Typed' BY <1>1, AsideTyped DEF IInv, Typed, NewBuffer
<1>3. BookHolds'
  <2> SUFFICES ASSUME NEW c \in Buffer PROVE HoldsOf(c)'
    BY DEF NewBuffer, Calls, BookHolds, HoldsOf
  <2>1. HoldsOf(c) BY DEF IInv, BookHolds, HoldsOf
  <2>2. CASE c = b
    BY <2>1, <2>2 DEF HoldsOf, NewBuffer, Calls, IInv, Typed, One
  <2>3. CASE c # b
    BY <2>1, <2>3 DEF HoldsOf, NewBuffer, Calls, IInv, Typed
  <2> QED BY <2>2, <2>3
<1>4. StoresLeft' BY NothingToStore DEF NewBuffer, Calls, IInv, StoresLeft
<1> QED BY <1>1, <1>2, <1>3, <1>4, AsideKeeps, OffTheClock DEF IInv, NewBuffer, Calls

LEMMA ReleaseBufferKeeps == ASSUME IInv, NEW b \in Buffer, ReleaseBuffer(b) PROVE IInv'
<1>1. Aside
  BY TransportAssumption DEF ReleaseBuffer, Calls, Aside, UnchangedByControl, IInv, Typed
<1>2. Typed' BY <1>1, AsideTyped DEF IInv, Typed, ReleaseBuffer
<1>3. BookHolds'
  <2> SUFFICES ASSUME NEW c \in Buffer PROVE HoldsOf(c)'
    BY DEF ReleaseBuffer, Calls, BookHolds, HoldsOf
  <2>1. HoldsOf(c) BY DEF IInv, BookHolds, HoldsOf
  <2>2. CASE c = b
    BY <2>1, <2>2 DEF HoldsOf, ReleaseBuffer, Calls, IInv, Typed, One
  <2>3. CASE c # b
    BY <2>1, <2>3 DEF HoldsOf, ReleaseBuffer, Calls, IInv, Typed
  <2> QED BY <2>2, <2>3
<1>4. StoresLeft' BY NothingToStore DEF ReleaseBuffer, Calls, IInv, StoresLeft
<1> QED BY <1>1, <1>2, <1>3, <1>4, AsideKeeps, OffTheClock DEF IInv, ReleaseBuffer, Calls

LEMMA SetScheduleKeeps == ASSUME IInv, NEW plays \in Schedules, SetSchedule(plays) PROVE IInv'
<1> DEFINE standby == 1 - f.active
<1>0. plays \subseteq Buffer /\ standby \in {0, 1} /\ ct.op = "none" /\ ct'.op = "fill"
      /\ ct'.plays = plays /\ ct'.slot = standby /\ ct'.stores = <<>>
  BY TransportAssumption DEF SetSchedule, Calls, Quiet, IInv, Typed, FieldTypes
<1>1. Aside
  BY <1>0, TransportAssumption DEF SetSchedule, Calls, Aside, UnchangedByControl, IInv, Typed
<1>2. Typed'
  <2>1. ct' \in ControlTypes(ct'.stores)
    BY <1>0, QuietTyped DEF SetSchedule, Quiet, ControlTypes, ControlOps
  <2>2. slots' \in [{0, 1} -> SUBSET Buffer] /\ holds' \in [Buffer -> Int] /\ makers' \subseteq Buffer
    BY <1>0 DEF SetSchedule, FreesSlot, Held, LetGo, Empty, IInv, Typed
  <2> QED BY <1>1, <2>1, <2>2, AsideTyped
<1>3. BookHolds'
  <2>1. slots'[standby] = {} /\ slots'[1 - standby] = slots[1 - standby]
    BY <1>0 DEF SetSchedule, FreesSlot, Empty, IInv, Typed
  <2>2. ASSUME NEW b \in Buffer PROVE HoldsOf(b)'
    <3>1. HoldsOf(b) BY DEF IInv, BookHolds, HoldsOf
    <3>2. holds'[b] = holds[b] + One(b \in plays) - One(b \in slots[standby])
      BY <1>0 DEF SetSchedule, FreesSlot, Held, LetGo, One, IInv, Typed
    <3>3. holds[b] = One(b \in makers) + One(b \in slots[standby]) + One(b \in slots[1 - standby])
      BY <1>0, <3>1, OneIs DEF HoldsOf, One, IInv, Typed
    <3>4. holds'[b] = One(b \in makers') + One(b \in slots'[standby]) + One(b \in slots'[1 - standby])
                      + One(b \in plays)
      BY <2>1, <3>2, <3>3, OneIs DEF SetSchedule, One
    <3> QED BY <1>0, <3>4 DEF HoldsOf, One
  <2> QED BY <1>0, <2>1, <2>2 DEF BookHolds, HoldsOf
<1>4. StoresLeft' BY <1>0, NothingToStore
<1> QED BY <1>0, <1>1, <1>2, <1>3, <1>4, AsideKeeps, OffTheClock DEF IInv

\* A step of a call under way that leaves the fields.
LEMMA FailsToFillKeeps == ASSUME IInv, FailsToFill PROVE IInv'
<1>0. ct.op = "fill" /\ ct.plays \subseteq Buffer /\ ct'.op = "none" /\ ct'.stores = <<>>
  BY DEF FailsToFill, Quiet, IInv, Typed, ControlTypes
<1>1. Aside
  BY <1>0, TransportAssumption DEF FailsToFill, Aside, UnchangedByControl, IInv, Typed
<1>2. Typed'
  <2>1. ct' \in ControlTypes(ct'.stores) BY <1>0, QuietTyped DEF FailsToFill
  <2>2. holds' \in [Buffer -> Int] BY DEF FailsToFill, LetGo, IInv, Typed
  <2> QED BY <1>1, <2>1, <2>2, AsideTyped DEF FailsToFill, IInv, Typed
<1>3. BookHolds'
  <2>1. ASSUME NEW b \in Buffer PROVE HoldsOf(b)'
    <3>1. HoldsOf(b) BY DEF IInv, BookHolds, HoldsOf
    <3>2. holds'[b] = holds[b] - One(b \in ct.plays)
      BY DEF FailsToFill, LetGo, One, IInv, Typed
    <3> QED BY <1>0, <3>1, <3>2, OneIs DEF HoldsOf, FailsToFill, One
  <2> QED BY <1>0, <2>1 DEF BookHolds, HoldsOf
<1>4. StoresLeft' BY <1>0, NothingToStore
<1> QED BY <1>0, <1>1, <1>2, <1>3, <1>4, AsideKeeps, OffTheClock DEF IInv

LEMMA FillsKeeps == ASSUME IInv, Fills PROVE IInv'
<1>0. ct.op = "fill" /\ ct.plays \subseteq Buffer /\ ct.slot \in {0, 1} /\ ct'.op = "flip"
      /\ ct'.stores = <<>> /\ ct' \in ControlTypes(<<>>)
  BY DEF Fills, IInv, Typed, ControlTypes, ControlOps, StoresLeft
<1>1. Aside
  BY <1>0, TransportAssumption DEF Fills, Aside, UnchangedByControl, IInv, Typed
<1>2. Typed'
  BY <1>0, <1>1, AsideTyped DEF Fills, IInv, Typed
<1>3. BookHolds'
  <2>1. slots[ct.slot] = {} /\ slots'[ct.slot] = ct.plays /\ slots'[1 - ct.slot] = slots[1 - ct.slot]
    BY <1>0 DEF IInv, BookHolds, Fills, Typed
  <2>2. ASSUME NEW b \in Buffer PROVE HoldsOf(b)'
    <3>1. HoldsOf(b) BY DEF IInv, BookHolds, HoldsOf
    <3>2. holds[b] = One(b \in makers) + One(b \in slots[1 - ct.slot]) + One(b \in ct.plays)
      BY <1>0, <2>1, <3>1, OneIs DEF HoldsOf, One
    <3> QED BY <1>0, <2>1, <3>2, OneIs DEF HoldsOf, Fills, One
  <2> QED BY <1>0, <2>2 DEF BookHolds, HoldsOf
<1>4. StoresLeft' BY <1>0, NothingToStore
<1> QED BY <1>0, <1>1, <1>2, <1>3, <1>4, AsideKeeps, OffTheClock DEF IInv

LEMMA FlipsKeeps == ASSUME IInv, Flips PROVE IInv'
<1>0. ct.op = "flip" /\ ct.slot \in {0, 1} /\ ct'.op = "flight?" /\ ct'.stores = <<>>
      /\ ct' \in ControlTypes(<<>>) /\ f' = [f EXCEPT !.active = ct.slot]
  BY DEF Flips, IInv, Typed, ControlTypes, ControlOps, StoresLeft
<1> USE DEF IInv, Flips, UnchangedByControl
<1>1. Typed'
  <2>1. f' \in FieldTypes BY <1>0 DEF Typed, FieldTypes
  <2> QED BY <1>0, <2>1 DEF Typed, book
<1>2. BlockFits' BY <1>0 DEF BlockFits, Bounded, Typed, FieldTypes
<1>3. Numbered' BY <1>0 DEF Numbered, Typed, FieldTypes
<1>4. LeadHolds' BY <1>0 DEF LeadHolds, Typed, FieldTypes
<1>5. PointHolds' BY DEF PointHolds, Writing, Stamp
<1>6. LineHolds' BY <1>0 DEF LineHolds, Writing, OnLine, Unarmed, Typed, FieldTypes
<1> QED BY <1>0, <1>1, <1>2, <1>3, <1>4, <1>5, <1>6, NothingToStore, OffTheBook, OffTheClock

LEMMA LooksInFlightKeeps == ASSUME IInv, LooksInFlight PROVE IInv'
<1>0. ct.op = "flight?" /\ ct'.op \in {"said?", "free"} /\ ct'.stores = <<>>
      /\ ct' \in ControlTypes(<<>>)
  BY DEF LooksInFlight, IInv, Typed, ControlTypes, ControlOps, StoresLeft
<1>1. Aside
  BY <1>0 DEF LooksInFlight, Aside, UnchangedByControl, IInv, Typed
<1> QED BY <1>0, <1>1, QuietKeeps DEF LooksInFlight

LEMMA LooksAtWordKeeps == ASSUME IInv, LooksAtWord PROVE IInv'
<1>0. ct.op = "said?" /\ ct \in ControlTypes(<<>>) /\ ct.tries + 1 \in Nat
  BY DEF LooksAtWord, IInv, Typed, StoresLeft, ControlTypes
<1>1. /\ ct' \in ControlTypes(<<>>) /\ ct'.stores = <<>>
      /\ ct'.op \in {"free", "flight?", "none"}
  <2>1. CASE ct' = [ct EXCEPT !.op = "free"]
    BY <1>0, <2>1 DEF ControlTypes, ControlOps
  <2>2. CASE ct' = [ct EXCEPT !.op = "flight?", !.tries = @ + 1]
    BY <1>0, <2>2 DEF ControlTypes, ControlOps
  <2>3. CASE ct' = Quiet
    BY <2>3, QuietTyped DEF Quiet
  <2> QED BY <2>1, <2>2, <2>3 DEF LooksAtWord
<1>2. Aside
  BY <1>0, <1>1 DEF LooksAtWord, Aside, UnchangedByControl, IInv, Typed
<1> QED BY <1>0, <1>1, <1>2, QuietKeeps DEF LooksAtWord

LEMMA FreesOldKeeps == ASSUME IInv, FreesOld PROVE IInv'
<1> DEFINE old == 1 - ct.slot
<1>0. ct.op = "free" /\ old \in {0, 1} /\ ct'.op = "none" /\ ct'.stores = <<>>
  BY DEF FreesOld, Quiet, IInv, Typed, ControlTypes
<1>1. Aside
  BY <1>0, TransportAssumption DEF FreesOld, Aside, UnchangedByControl, IInv, Typed
<1>2. Typed'
  <2>1. ct' \in ControlTypes(ct'.stores) BY <1>0, QuietTyped DEF FreesOld
  <2>2. holds' \in [Buffer -> Int] /\ slots' \in [{0, 1} -> SUBSET Buffer]
    BY <1>0 DEF FreesOld, FreesSlot, LetGo, Empty, IInv, Typed
  <2> QED BY <1>1, <2>1, <2>2, AsideTyped DEF FreesOld, IInv, Typed
<1>3. BookHolds'
  <2>1. slots'[old] = {} /\ slots'[1 - old] = slots[1 - old]
    BY <1>0 DEF FreesOld, FreesSlot, Empty, IInv, Typed
  <2>2. ASSUME NEW b \in Buffer PROVE HoldsOf(b)'
    <3>1. HoldsOf(b) BY DEF IInv, BookHolds, HoldsOf
    <3>2. holds'[b] = holds[b] - One(b \in slots[old])
      BY <1>0 DEF FreesOld, FreesSlot, LetGo, One, IInv, Typed
    <3>3. holds[b] = One(b \in makers) + One(b \in slots[old]) + One(b \in slots[1 - old])
      BY <1>0, <3>1, OneIs DEF HoldsOf, One
    <3>4. holds'[b] = One(b \in makers') + One(b \in slots'[old]) + One(b \in slots'[1 - old])
      BY <2>1, <3>2, <3>3, OneIs DEF FreesOld, One
    <3> QED BY <1>0, <3>4 DEF HoldsOf, One
  <2> QED BY <1>0, <2>2 DEF BookHolds, HoldsOf
<1>4. StoresLeft' BY <1>0, NothingToStore
<1> QED BY <1>0, <1>1, <1>2, <1>3, <1>4, AsideKeeps, OffTheClock DEF IInv


\* A step of a reader: it touches only what the reader has read.
LEMMA ReadKeeps ==
    ASSUME IInv, UnchangedByControl, UNCHANGED <<f, book, ops, moved>>,
           ct.op \in {"seq", "serial", "handed", "time", "again", "told"},
           ct' \in ControlTypes(<<>>), ct'.stores = <<>>,
           ct'.op \in {"none", "seq", "serial", "handed", "time", "again", "told"}, ReaderHolds'
    PROVE  IInv'
<1>1. Aside BY DEF Aside, UnchangedByControl, IInv, Typed
<1>2. Typed' BY <1>1, AsideTyped DEF IInv, Typed, book
<1> QED BY <1>1, <1>2, AsideKeeps, NothingToStore, OffTheBook DEF IInv

LEMMA AsksClockKeeps == ASSUME IInv, AsksClock PROVE IInv'
<1>1. ct' = [Quiet EXCEPT !.op = "seq"] /\ ct.op = "none" BY DEF AsksClock, Calls
<1>2. ct' \in ControlTypes(<<>>) /\ ct'.op = "seq" /\ ct'.stores = <<>>
  BY <1>1, QuietTyped DEF ControlTypes, ControlOps
<1>3. Aside BY <1>1, <1>2, TransportAssumption DEF AsksClock, Calls, Aside, UnchangedByControl, IInv, Typed
<1> QED BY <1>1, <1>2, <1>3, QuietKeeps DEF AsksClock

\* A look that found the line being written.
LEMMA LooksAgainTyped ==
    ASSUME IInv, ct' = LooksAgain
    PROVE  ct' \in ControlTypes(<<>>) /\ ct'.stores = <<>> /\ ct'.op \in {"none", "seq"}
<1>1. ct.tries + 1 \in Nat BY DEF IInv, Typed, ControlTypes
<1>2. CASE ct' = Quiet BY <1>2, QuietTyped DEF Quiet
<1>3. CASE ct' = [Quiet EXCEPT !.op = "seq", !.tries = ct.tries + 1]
  BY <1>1, <1>3, QuietTyped DEF Quiet, ControlTypes, ControlOps
<1> QED BY <1>2, <1>3 DEF LooksAgain

LEMMA ReaderTyped ==
    ASSUME IInv, ct.op \in {"seq", "serial", "handed", "time", "again", "told"}
    PROVE  /\ ct \in ControlTypes(<<>>) /\ ct.stores = <<>> /\ ct.point \in Points /\ ct.seq \in Nat
           /\ clock.seq \in Nat /\ clock.point \in Points
           /\ clock.point.serial \in Nat /\ clock.point.position \in Int /\ clock.point.time \in Nat
<1>1. ct \in ControlTypes(<<>>) /\ clock \in [seq : Nat, point : Points]
  BY DEF IInv, Typed, StoresLeft
<1> QED BY <1>1 DEF ControlTypes, Points

LEMMA ReadsSequenceKeeps == ASSUME IInv, ReadsSequence PROVE IInv'
<1>0. ct.op = "seq" BY DEF ReadsSequence
<1>1. CASE ct' = LooksAgain
  BY <1>0, <1>1, LooksAgainTyped, OffTheClock, ReadKeeps DEF ReadsSequence
<1>2. CASE clock.seq % 2 # 1 /\ ct' = [ct EXCEPT !.op = "serial", !.seq = clock.seq]
  <2>1. ct' \in ControlTypes(<<>>) /\ ct'.stores = <<>> /\ ct'.op = "serial" /\ ct'.seq = clock.seq
    BY <1>0, <1>2, ReaderTyped DEF ControlTypes, ControlOps
  <2>2. clock' = clock /\ clock.seq % 2 = 0
    BY <1>0, <1>2, ReaderTyped DEF ReadsSequence, UnchangedByControl
  <2>3. ReaderHolds' BY <1>0, <2>1, <2>2, ReaderTyped DEF ReaderHolds
  <2> QED BY <1>0, <2>1, <2>3, ReadKeeps DEF ReadsSequence
<1> QED BY <1>1, <1>2 DEF ReadsSequence

LEMMA ReadsSerialKeeps == ASSUME IInv, ReadsSerial PROVE IInv'
<1>0. ct.op = "serial" BY DEF ReadsSerial
<1>1. /\ ct' \in ControlTypes(<<>>) /\ ct'.stores = <<>> /\ ct'.op = "handed" /\ ct'.seq = ct.seq
      /\ ct'.point.serial = clock.point.serial
  BY <1>0, ReaderTyped DEF ReadsSerial, ControlTypes, ControlOps, Points
<1>2. ReaderHolds' BY <1>0, <1>1 DEF ReadsSerial, UnchangedByControl, IInv, ReaderHolds
<1> QED BY <1>0, <1>1, <1>2, ReadKeeps DEF ReadsSerial

LEMMA ReadsHandedKeeps == ASSUME IInv, ReadsHanded PROVE IInv'
<1>0. ct.op = "handed" BY DEF ReadsHanded
<1>1. /\ ct' \in ControlTypes(<<>>) /\ ct'.stores = <<>> /\ ct'.op = "time" /\ ct'.seq = ct.seq
      /\ ct'.point.serial = ct.point.serial /\ ct'.point.position = clock.point.position
  BY <1>0, ReaderTyped DEF ReadsHanded, ControlTypes, ControlOps, Points
<1>2. ReaderHolds' BY <1>0, <1>1 DEF ReadsHanded, UnchangedByControl, IInv, ReaderHolds
<1> QED BY <1>0, <1>1, <1>2, ReadKeeps DEF ReadsHanded

LEMMA ReadsTimeKeeps == ASSUME IInv, ReadsTime PROVE IInv'
<1>0. ct.op = "time" BY DEF ReadsTime
<1>1. /\ ct' \in ControlTypes(<<>>) /\ ct'.stores = <<>> /\ ct'.op = "again" /\ ct'.seq = ct.seq
      /\ ct'.point.serial = ct.point.serial /\ ct'.point.position = ct.point.position
      /\ ct'.point.time = clock.point.time
  BY <1>0, ReaderTyped DEF ReadsTime, ControlTypes, ControlOps, Points
<1>2. ReaderHolds' BY <1>0, <1>1 DEF ReadsTime, UnchangedByControl, IInv, ReaderHolds
<1> QED BY <1>0, <1>1, <1>2, ReadKeeps DEF ReadsTime

\* The point told is the one on the clock: its three parts are.
LEMMA AnswersKeeps == ASSUME IInv, Answers PROVE IInv'
<1>0. ct.op = "again" BY DEF Answers
<1>1. CASE ct' = LooksAgain
  BY <1>0, <1>1, LooksAgainTyped, OffTheClock, ReadKeeps DEF Answers
<1>2. CASE ct' = Quiet
  <2>1. ct' \in ControlTypes(<<>>) /\ ct'.stores = <<>> /\ ct'.op = "none"
    BY <1>2, QuietTyped DEF Quiet
  <2> QED BY <1>0, <2>1, OffTheClock, ReadKeeps DEF Answers
<1>3. CASE /\ clock.seq = ct.seq /\ ct.point.time # 0 /\ ct.point.serial = f.arm
           /\ ct' = [ct EXCEPT !.op = "told"]
  <2>1. ct' \in ControlTypes(<<>>) /\ ct'.stores = <<>> /\ ct'.op = "told" /\ ct'.point = ct.point
    BY <1>0, <1>3, ReaderTyped DEF ControlTypes, ControlOps
  <2>2. ct.seq % 2 = 0 /\ ct.point.serial = clock.point.serial
        /\ ct.point.position = clock.point.position /\ ct.point.time = clock.point.time
    BY <1>0, <1>3 DEF IInv, ReaderHolds
  <2>3. ct.point = clock.point BY <1>0, <2>2, ReaderTyped DEF Points
  <2>4. ~Writing BY <1>3, <2>2 DEF IInv, PointHolds
  <2>5. clock.point \in spoken BY <1>3, <2>3, <2>4 DEF IInv, PointHolds
  <2>6. ~Unarmed BY <1>0 DEF Unarmed
  <2>7. OnLine(clock.point.position) BY <1>3, <2>3, <2>4, <2>6 DEF IInv, LineHolds
  <2>8. ReaderHolds'
    BY <2>1, <2>3, <2>5, <2>7 DEF Answers, UnchangedByControl, ReaderHolds, OnLine
  <2> QED BY <1>0, <2>1, <2>8, ReadKeeps DEF Answers
<1> QED BY <1>1, <1>2, <1>3 DEF Answers

LEMMA ReturnsKeeps == ASSUME IInv, Returns PROVE IInv'
<1>1. ct.op = "told" /\ ct' \in ControlTypes(<<>>) /\ ct'.stores = <<>> /\ ct'.op = "none"
  BY QuietTyped DEF Returns, Quiet
<1> QED BY <1>1, OffTheClock, ReadKeeps DEF Returns


-----------------------------------------------------------------------------
(* A store of a call.                                                       *)

LEMMA SayIs == \A a, b : Say(a, b)[1] = a /\ Say(a, b)[2] = b
  BY DEF Say

\* The lists a call has to store, one store later.
LEMMA Lists ==
    ASSUME NEW a, NEW b, NEW c, NEW d, NEW e, NEW g, NEW h, NEW k
    PROVE  /\ Head(<<a, b, c, d, e, g, h, k>>) = a /\ Tail(<<a, b, c, d, e, g, h, k>>) = <<b, c, d, e, g, h, k>>
           /\ Len(<<a, b, c, d, e, g, h, k>>) = 8
           /\ Head(<<b, c, d, e, g, h, k>>) = b /\ Tail(<<b, c, d, e, g, h, k>>) = <<c, d, e, g, h, k>>
           /\ Len(<<b, c, d, e, g, h, k>>) = 7
           /\ Head(<<c, d, e, g, h, k>>) = c /\ Tail(<<c, d, e, g, h, k>>) = <<d, e, g, h, k>>
           /\ Len(<<c, d, e, g, h, k>>) = 6
           /\ Head(<<d, e, g, h, k>>) = d /\ Tail(<<d, e, g, h, k>>) = <<e, g, h, k>>
           /\ Len(<<d, e, g, h, k>>) = 5
           /\ Head(<<e, g, h, k>>) = e /\ Tail(<<e, g, h, k>>) = <<g, h, k>>
           /\ Len(<<e, g, h, k>>) = 4
           /\ Head(<<g, h, k>>) = g /\ Tail(<<g, h, k>>) = <<h, k>> /\ Len(<<g, h, k>>) = 3
           /\ Head(<<h, k>>) = h /\ Tail(<<h, k>>) = <<k>> /\ Len(<<h, k>>) = 2
           /\ Head(<<k>>) = k /\ Len(<<k>>) = 1
  OBVIOUS

\* The store of a value in a field.
Puts(field, value) ==
    /\ f' = [f EXCEPT ![field] = value]
    /\ moved' = CASE field = "position" -> [to |-> value, by |-> ct.op, wrapped |-> FALSE]
                  [] field = "audible"  -> [moved EXCEPT !.by = ct.op]
                  [] OTHER -> moved

LEMMA StoresPuts ==
    ASSUME Stores, NEW field, NEW value, Head(ct.stores) = Say(field, value)
    PROVE  Puts(field, value)
<1>1. Head(ct.stores)[1] = field /\ Head(ct.stores)[2] = value BY SayIs
<1> HIDE DEF Say
<1>2. QED BY <1>1, Zenon DEF Stores, Puts

\* A store that is not the last of its call.
LEMMA StoresOne ==
    ASSUME IInv, Stores, Len(ct.stores) # 1
    PROVE  /\ ct'.stores = Tail(ct.stores) /\ ct'.op = ct.op
           /\ ct' \in ControlTypes(ct'.stores)
<1>1. ct' = [ct EXCEPT !.stores = Tail(ct.stores)] BY DEF Stores
<1> QED BY <1>1 DEF IInv, Typed, ControlTypes

\* The last store of a call.
LEMMA StoresLast ==
    ASSUME Stores, Len(ct.stores) = 1
    PROVE  /\ ct'.stores = <<>> /\ ct'.op = "none" /\ ct' \in ControlTypes(ct'.stores)
<1>1. ct' = Quiet BY DEF Stores
<1> QED BY <1>1, QuietTyped DEF Quiet

LEMMA StoresAside ==
    ASSUME IInv, Stores
    PROVE  /\ UNCHANGED <<clock, book, cb, calls, spoken, ops>>
           /\ ct.op \in {"play", "stop", "seek"}
  BY DEF IInv, Stores, UnchangedByControl, StoresLeft

\* A store touches neither the callback's word nor the clock nor the book.
LEMMA StoreKeeps ==
    ASSUME IInv, Stores, ct'.op \in {"none", ct.op}, f'.inFlight = f.inFlight,
           f' \in FieldTypes, moved' \in MoveTypes, ct' \in ControlTypes(ct'.stores),
           Numbered', StoresLeft', LeadHolds', LineHolds'
    PROVE  IInv'
<1> USE StoresAside
<1>1. Typed' BY DEF IInv, Typed, book
<1>2. BlockFits' BY DEF IInv, BlockFits, Bounded
<1>3. PointHolds' BY DEF IInv, PointHolds, Writing, Stamp
<1>4. BookHolds' BY OffTheBook
<1>5. ReaderHolds' BY OffTheClock
<1> QED BY <1>1, <1>2, <1>3, <1>4, <1>5 DEF IInv


\* A store of a play before its last: the run is silent meanwhile, the position
\* is put before the arm, and the arm before the run.
LEMMA PlayStoreKeeps ==
    ASSUME IInv, Stores, ct.op = "play", Len(ct.stores) \in 2..8, NEW r \in Runs, PlayLeft(r)',
           f' \in FieldTypes, moved' \in MoveTypes, f'.playing = 0, f'.inFlight = f.inFlight,
           \/ /\ Len(ct.stores) \in 3..8 /\ Len(ct'.stores) \in 3..8
              /\ f'.arm = f.arm /\ f'.position = f.position
              /\ moved'.to = moved.to /\ moved'.wrapped = moved.wrapped
           \/ /\ Len(ct'.stores) = 2 /\ f'.arm = f.arm
              /\ moved'.to = f'.position /\ ~moved'.wrapped
           \/ /\ Len(ct'.stores) = 1 /\ f'.arm = f.arm + 1 /\ f'.position = f.position
              /\ moved' = moved
    PROVE  IInv'
<1>0. UNCHANGED <<clock, book, cb, calls, spoken, ops>> BY StoresAside
<1>1. /\ f \in FieldTypes /\ f.arm \in Nat /\ f'.arm \in Nat /\ cb.arm <= f.arm /\ cb.run < ops
      /\ clock.point.serial <= f.arm /\ cb.arm \in Nat /\ clock.point.serial \in Nat
      /\ ops \in Nat /\ cb.run \in Nat /\ f'.position \in Int
  BY DEF IInv, Typed, FieldTypes, CallbackTypes, Points, Numbered
<1>2. ct'.op = "play" /\ ct' \in ControlTypes(ct'.stores) BY StoresOne
<1>3. f.arm < ops BY DEF IInv, StoresLeft, ArmLeft
<1>4. Numbered' BY <1>0, <1>1, <1>2, <1>3 DEF IInv, Numbered
<1>5. StoresLeft'
  <2>1. ArmLeft' => f'.arm < ops BY <1>1, <1>2, <1>3 DEF ArmLeft
  <2> QED BY <1>0, <1>2, <2>1 DEF StoresLeft
<1>6. LeadHolds' BY <1>0 DEF IInv, LeadHolds, Numbered
<1>7. LineHolds'
  <2>1. CASE Len(ct.stores) \in 3..8 /\ Len(ct'.stores) \in 3..8
    <3>1. ~Unarmed BY <2>1 DEF Unarmed
    <3> QED BY <1>0, <1>1, <2>1, <3>1 DEF IInv, LineHolds, OnLine, Writing
  <2>2. CASE Len(ct'.stores) = 2
    <3>1. Unarmed' BY <1>2, <2>2 DEF Unarmed
    <3> QED BY <1>1, <2>2, <3>1 DEF LineHolds
  <2>3. CASE Len(ct'.stores) = 1
    <3>1. clock'.point.serial # f'.arm /\ cb'.arm # f'.arm BY <1>0, <1>1, <2>3
    <3> QED BY <1>0, <1>1, <2>3, <3>1 DEF IInv, LineHolds
  <2> QED BY <2>1, <2>2, <2>3
<1> QED BY <1>2, <1>4, <1>5, <1>6, <1>7, StoreKeeps

LEMMA PlaysKeep == ASSUME IInv, Stores, NEW r \in Runs, PlayLeft(r), ct.op = "play" PROVE IInv'
<1> DEFINE pos == Say("position", r.start - r.lead)
           arm == Say("arm", f.arm + 1)
           run == Say("playing", ops)
<1> USE StoresAside
<1>r. r.start \in Nat /\ r.stop \in Nat /\ r.looping \in BOOLEAN /\ r.start - r.lead \in Int
  BY TransportAssumption
<1>0. /\ f \in FieldTypes /\ moved \in MoveTypes /\ moved.wrapped \in BOOLEAN
      /\ ops \in Nat /\ f.arm \in Nat /\ f.arm + 1 \in Nat
  BY DEF IInv, Typed, FieldTypes, MoveTypes
<1>1. CASE ct.stores = <<Say("playing", 0), Say("audible", r.start), Say("start", r.start), Say("stop", r.stop), Say("looping", r.looping), pos, arm, run>>
  <2>1. /\ Head(ct.stores) = Say("playing", 0) /\ Len(ct.stores) = 8
        /\ Tail(ct.stores) = <<Say("audible", r.start), Say("start", r.start), Say("stop", r.stop), Say("looping", r.looping), pos, arm, run>> /\ Len(Tail(ct.stores)) = 7
    BY <1>1, Lists
  <2>2. f' = [f EXCEPT !.playing = 0] /\ moved' = moved
    BY <2>1, StoresPuts DEF Puts
  <2>3. ct'.stores = Tail(ct.stores) BY <2>1, StoresOne
  <2>4. f' \in FieldTypes /\ moved' \in MoveTypes /\ f'.playing = 0 /\ f'.inFlight = f.inFlight
    BY <1>r, <1>0, <1>1, <2>2 DEF FieldTypes, MoveTypes
  <2>5. PlayLeft(r)' BY <1>0, <1>1, <2>1, <2>2, <2>3, <2>4 DEF PlayLeft, FieldTypes
  <2>6. f'.arm = f.arm /\ f'.position = f.position
        /\ moved'.to = moved.to /\ moved'.wrapped = moved.wrapped
    BY <1>0, <2>2 DEF FieldTypes, MoveTypes
  <2> QED BY <2>1, <2>3, <2>4, <2>5, <2>6, PlayStoreKeeps
<1>2. CASE f.playing = 0 /\ ct.stores = <<Say("audible", r.start), Say("start", r.start), Say("stop", r.stop), Say("looping", r.looping), pos, arm, run>>
  <2>1. /\ Head(ct.stores) = Say("audible", r.start) /\ Len(ct.stores) = 7
        /\ Tail(ct.stores) = <<Say("start", r.start), Say("stop", r.stop), Say("looping", r.looping), pos, arm, run>> /\ Len(Tail(ct.stores)) = 6
    BY <1>2, Lists
  <2>2. f' = [f EXCEPT !.audible = r.start] /\ moved' = [moved EXCEPT !.by = "play"]
    BY <2>1, StoresPuts DEF Puts
  <2>3. ct'.stores = Tail(ct.stores) BY <2>1, StoresOne
  <2>4. f' \in FieldTypes /\ moved' \in MoveTypes /\ f'.playing = 0 /\ f'.inFlight = f.inFlight
    BY <1>r, <1>0, <1>2, <2>2 DEF FieldTypes, MoveTypes
  <2>5. PlayLeft(r)' BY <1>0, <1>2, <2>1, <2>2, <2>3, <2>4 DEF PlayLeft, FieldTypes
  <2>6. f'.arm = f.arm /\ f'.position = f.position
        /\ moved'.to = moved.to /\ moved'.wrapped = moved.wrapped
    BY <1>0, <2>2 DEF FieldTypes, MoveTypes
  <2> QED BY <2>1, <2>3, <2>4, <2>5, <2>6, PlayStoreKeeps
<1>3. CASE f.playing = 0 /\ f.audible = r.start /\ ct.stores = <<Say("start", r.start), Say("stop", r.stop), Say("looping", r.looping), pos, arm, run>>
  <2>1. /\ Head(ct.stores) = Say("start", r.start) /\ Len(ct.stores) = 6
        /\ Tail(ct.stores) = <<Say("stop", r.stop), Say("looping", r.looping), pos, arm, run>> /\ Len(Tail(ct.stores)) = 5
    BY <1>3, Lists
  <2>2. f' = [f EXCEPT !.start = r.start] /\ moved' = moved
    BY <2>1, StoresPuts DEF Puts
  <2>3. ct'.stores = Tail(ct.stores) BY <2>1, StoresOne
  <2>4. f' \in FieldTypes /\ moved' \in MoveTypes /\ f'.playing = 0 /\ f'.inFlight = f.inFlight
    BY <1>r, <1>0, <1>3, <2>2 DEF FieldTypes, MoveTypes
  <2>5. PlayLeft(r)' BY <1>0, <1>3, <2>1, <2>2, <2>3, <2>4 DEF PlayLeft, FieldTypes
  <2>6. f'.arm = f.arm /\ f'.position = f.position
        /\ moved'.to = moved.to /\ moved'.wrapped = moved.wrapped
    BY <1>0, <2>2 DEF FieldTypes, MoveTypes
  <2> QED BY <2>1, <2>3, <2>4, <2>5, <2>6, PlayStoreKeeps
<1>4. CASE f.playing = 0 /\ f.audible = r.start /\ f.start = r.start /\ ct.stores = <<Say("stop", r.stop), Say("looping", r.looping), pos, arm, run>>
  <2>1. /\ Head(ct.stores) = Say("stop", r.stop) /\ Len(ct.stores) = 5
        /\ Tail(ct.stores) = <<Say("looping", r.looping), pos, arm, run>> /\ Len(Tail(ct.stores)) = 4
    BY <1>4, Lists
  <2>2. f' = [f EXCEPT !.stop = r.stop] /\ moved' = moved
    BY <2>1, StoresPuts DEF Puts
  <2>3. ct'.stores = Tail(ct.stores) BY <2>1, StoresOne
  <2>4. f' \in FieldTypes /\ moved' \in MoveTypes /\ f'.playing = 0 /\ f'.inFlight = f.inFlight
    BY <1>r, <1>0, <1>4, <2>2 DEF FieldTypes, MoveTypes
  <2>5. PlayLeft(r)' BY <1>0, <1>4, <2>1, <2>2, <2>3, <2>4 DEF PlayLeft, FieldTypes
  <2>6. f'.arm = f.arm /\ f'.position = f.position
        /\ moved'.to = moved.to /\ moved'.wrapped = moved.wrapped
    BY <1>0, <2>2 DEF FieldTypes, MoveTypes
  <2> QED BY <2>1, <2>3, <2>4, <2>5, <2>6, PlayStoreKeeps
<1>5. CASE f.playing = 0 /\ f.audible = r.start /\ f.start = r.start /\ ct.stores = <<Say("looping", r.looping), pos, arm, run>>
  <2>1. /\ Head(ct.stores) = Say("looping", r.looping) /\ Len(ct.stores) = 4
        /\ Tail(ct.stores) = <<pos, arm, run>> /\ Len(Tail(ct.stores)) = 3
    BY <1>5, Lists
  <2>2. f' = [f EXCEPT !.looping = r.looping] /\ moved' = moved
    BY <2>1, StoresPuts DEF Puts
  <2>3. ct'.stores = Tail(ct.stores) BY <2>1, StoresOne
  <2>4. f' \in FieldTypes /\ moved' \in MoveTypes /\ f'.playing = 0 /\ f'.inFlight = f.inFlight
    BY <1>r, <1>0, <1>5, <2>2 DEF FieldTypes, MoveTypes
  <2>5. PlayLeft(r)' BY <1>0, <1>5, <2>1, <2>2, <2>3, <2>4 DEF PlayLeft, FieldTypes
  <2>6. f'.arm = f.arm /\ f'.position = f.position
        /\ moved'.to = moved.to /\ moved'.wrapped = moved.wrapped
    BY <1>0, <2>2 DEF FieldTypes, MoveTypes
  <2> QED BY <2>1, <2>3, <2>4, <2>5, <2>6, PlayStoreKeeps
<1>6. CASE f.playing = 0 /\ f.audible = r.start /\ f.start = r.start /\ ct.stores = <<pos, arm, run>>
  <2>1. /\ Head(ct.stores) = pos /\ Len(ct.stores) = 3
        /\ Tail(ct.stores) = <<arm, run>> /\ Len(Tail(ct.stores)) = 2
    BY <1>6, Lists
  <2>2. f' = [f EXCEPT !.position = r.start - r.lead] /\ moved' = [to |-> r.start - r.lead, by |-> "play", wrapped |-> FALSE]
    BY <2>1, StoresPuts DEF Puts
  <2>3. ct'.stores = Tail(ct.stores) BY <2>1, StoresOne
  <2>4. f' \in FieldTypes /\ moved' \in MoveTypes /\ f'.playing = 0 /\ f'.inFlight = f.inFlight
    BY <1>r, <1>0, <1>6, <2>2 DEF FieldTypes, MoveTypes
  <2>5. PlayLeft(r)' BY <1>0, <1>6, <2>1, <2>2, <2>3, <2>4 DEF PlayLeft, FieldTypes
  <2>6. f'.arm = f.arm /\ moved'.to = f'.position /\ ~moved'.wrapped
    BY <1>0, <2>2 DEF FieldTypes, MoveTypes
  <2> QED BY <2>1, <2>3, <2>4, <2>5, <2>6, PlayStoreKeeps
<1>7. CASE f.playing = 0 /\ f.audible = r.start /\ f.start = r.start /\ ct.stores = <<arm, run>>
  <2>1. /\ Head(ct.stores) = arm /\ Len(ct.stores) = 2
        /\ Tail(ct.stores) = <<run>> /\ Len(Tail(ct.stores)) = 1
    BY <1>7, Lists
  <2>2. f' = [f EXCEPT !.arm = f.arm + 1] /\ moved' = moved
    BY <2>1, StoresPuts DEF Puts
  <2>3. ct'.stores = Tail(ct.stores) BY <2>1, StoresOne
  <2>4. f' \in FieldTypes /\ moved' \in MoveTypes /\ f'.playing = 0 /\ f'.inFlight = f.inFlight
    BY <1>r, <1>0, <1>7, <2>2 DEF FieldTypes, MoveTypes
  <2>5. PlayLeft(r)' BY <1>0, <1>7, <2>1, <2>2, <2>3, <2>4 DEF PlayLeft, FieldTypes
  <2>6. f'.arm = f.arm + 1 /\ f'.position = f.position /\ moved' = moved
    BY <1>0, <2>2 DEF FieldTypes, MoveTypes
  <2> QED BY <2>1, <2>3, <2>4, <2>5, <2>6, PlayStoreKeeps
<1>8. CASE f.playing = 0 /\ f.audible = r.start /\ f.start = r.start /\ ct.stores = <<run>>
  <2>1. Head(ct.stores) = run /\ Len(ct.stores) = 1 BY <1>8, Lists
  <2>2. f' = [f EXCEPT !.playing = ops] /\ moved' = moved BY <2>1, StoresPuts DEF Puts
  <2>3. ct'.stores = <<>> /\ ct'.op = "none" /\ ct' \in ControlTypes(ct'.stores) BY <2>1, StoresLast
  <2>4. f' \in FieldTypes BY <1>0, <2>2 DEF FieldTypes
  <2>5. Numbered' BY <1>0, <2>2, <2>3 DEF IInv, Numbered, FieldTypes
  <2>6. LeadHolds'
    BY <1>0, <1>8, <2>2 DEF IInv, LeadHolds, Numbered, FieldTypes, Typed, CallbackTypes
  <2>7. LineHolds'
    BY <1>0, <2>1, <2>2, <2>3 DEF IInv, LineHolds, Unarmed, OnLine, Writing, FieldTypes
  <2> QED BY <1>0, <2>2, <2>3, <2>4, <2>5, <2>6, <2>7, NothingToStore, StoreKeeps DEF FieldTypes
<1> QED BY <1>1, <1>2, <1>3, <1>4, <1>5, <1>6, <1>7, <1>8 DEF PlayLeft

\* What a call's store of the arm leaves: nothing spoken of is of the new arm.
ArmedAt == f' = [f EXCEPT !.arm = f.arm + 1] /\ moved' = moved
LEMMA ArmKeeps ==
    ASSUME IInv, Stores, ct.op \in {"stop", "seek"}, Len(ct.stores) = 1, ArmedAt
    PROVE  IInv'
<1>0. UNCHANGED <<clock, book, cb, calls, spoken, ops>> BY StoresAside
<1>1. /\ f \in FieldTypes /\ f.arm \in Nat /\ cb.arm <= f.arm /\ clock.point.serial <= f.arm
      /\ cb.arm \in Nat /\ clock.point.serial \in Nat /\ ops \in Nat /\ moved \in MoveTypes
  BY DEF IInv, Typed, FieldTypes, CallbackTypes, Points, Numbered
<1>2. f.arm < ops BY DEF IInv, StoresLeft, ArmLeft
<1>3. /\ f' \in FieldTypes /\ f'.arm = f.arm + 1 /\ f'.position = f.position /\ f'.playing = f.playing
      /\ f'.audible = f.audible /\ f'.start = f.start /\ f'.inFlight = f.inFlight
  BY <1>1 DEF ArmedAt, FieldTypes
<1>4. ct'.stores = <<>> /\ ct'.op = "none" /\ ct' \in ControlTypes(ct'.stores) BY StoresLast
<1>5. Numbered' BY <1>0, <1>1, <1>2, <1>3, <1>4 DEF IInv, Numbered
<1>6. LeadHolds' BY <1>0, <1>3 DEF IInv, LeadHolds, ArmedAt
<1>7. LineHolds'
  <2>1. clock'.point.serial # f'.arm /\ cb'.arm # f'.arm BY <1>0, <1>1, <1>3
  <2> QED BY <1>3, <2>1 DEF IInv, LineHolds, ArmedAt
<1> QED BY <1>1, <1>3, <1>4, <1>5, <1>6, <1>7, NothingToStore, StoreKeeps DEF ArmedAt

LEMMA StopsStoreKeeps == ASSUME IInv, Stores, StopLeft, ct.op = "stop" PROVE IInv'
<1>0. UNCHANGED <<clock, book, cb, calls, spoken, ops>> BY StoresAside
<1>1. f \in FieldTypes /\ moved \in MoveTypes /\ f.arm < ops
  BY DEF IInv, Typed, StoresLeft, ArmLeft
<1>2. CASE ct.stores = <<Say("playing", 0), Say("arm", f.arm + 1)>>
  <2>1. /\ Head(ct.stores) = Say("playing", 0) /\ Len(ct.stores) = 2
        /\ Tail(ct.stores) = <<Say("arm", f.arm + 1)>>
    BY <1>2, Lists
  <2>2. f' = [f EXCEPT !.playing = 0] /\ moved' = moved BY <2>1, StoresPuts DEF Puts
  <2>3. ct'.stores = Tail(ct.stores) /\ ct'.op = "stop" /\ ct' \in ControlTypes(ct'.stores)
    BY <2>1, StoresOne
  <2>4. /\ f' \in FieldTypes /\ f'.playing = 0 /\ f'.arm = f.arm /\ f'.position = f.position
        /\ f'.inFlight = f.inFlight
    BY <1>1, <2>2 DEF FieldTypes
  <2>5. Numbered' BY <1>0, <2>3, <2>4 DEF IInv, Numbered, Typed
  <2>6. StoresLeft' BY <1>0, <1>1, <2>1, <2>3, <2>4 DEF StoresLeft, StopLeft, ArmLeft
  <2>7. LeadHolds' BY <1>0, <2>4 DEF IInv, LeadHolds, Numbered
  <2>8. LineHolds' BY <1>0, <2>2, <2>3, <2>4 DEF IInv, LineHolds, Unarmed, OnLine, Writing
  <2> QED BY <1>1, <2>2, <2>3, <2>4, <2>5, <2>6, <2>7, <2>8, StoreKeeps
<1>3. CASE ct.stores = <<Say("arm", f.arm + 1)>>
  <2>1. Head(ct.stores) = Say("arm", f.arm + 1) /\ Len(ct.stores) = 1 BY <1>3, Lists
  <2>2. ArmedAt BY <2>1, StoresPuts DEF Puts, ArmedAt
  <2> QED BY <2>1, <2>2, ArmKeeps
<1> QED BY <1>2, <1>3 DEF StopLeft

LEMMA SeeksKeep == ASSUME IInv, Stores, NEW to \in Seeks, SeekLeft(to), ct.op = "seek" PROVE IInv'
<1>0. UNCHANGED <<clock, book, cb, calls, spoken, ops>> BY StoresAside
<1>1. /\ f \in FieldTypes /\ moved \in MoveTypes /\ moved.wrapped \in BOOLEAN /\ f.arm < ops
      /\ to \in Int /\ Never \in Int
  BY TransportAssumption DEF IInv, Typed, StoresLeft, ArmLeft, MoveTypes
<1>2. CASE ct.stores = <<Say("audible", Never), Say("position", to), Say("arm", f.arm + 1)>>
  <2>1. /\ Head(ct.stores) = Say("audible", Never) /\ Len(ct.stores) = 3
        /\ Tail(ct.stores) = <<Say("position", to), Say("arm", f.arm + 1)>>
        /\ Len(Tail(ct.stores)) = 2
    BY <1>2, Lists
  <2>2. f' = [f EXCEPT !.audible = Never] /\ moved' = [moved EXCEPT !.by = "seek"]
    BY <2>1, StoresPuts DEF Puts
  <2>3. /\ ct'.stores = Tail(ct.stores) /\ ct'.op = "seek" /\ ct' \in ControlTypes(ct'.stores)
    BY <2>1, StoresOne
  <2>4. /\ f' \in FieldTypes /\ f'.playing = f.playing /\ f'.arm = f.arm /\ f'.position = f.position
        /\ f'.inFlight = f.inFlight /\ f'.start = f.start
        /\ moved' \in MoveTypes /\ moved'.by = "seek" /\ moved'.to = moved.to
        /\ moved'.wrapped = moved.wrapped
    BY <1>1, <2>2 DEF FieldTypes, MoveTypes
  <2>5. Numbered' BY <1>0, <2>3, <2>4 DEF IInv, Numbered
  <2>6. StoresLeft' BY <1>0, <1>1, <2>1, <2>3, <2>4 DEF StoresLeft, SeekLeft, ArmLeft
  <2>7. LeadHolds' BY <2>4 DEF LeadHolds
  <2>8. LineHolds' BY <1>0, <2>1, <2>3, <2>4 DEF IInv, LineHolds, Unarmed, OnLine, Writing
  <2> QED BY <1>1, <2>3, <2>4, <2>5, <2>6, <2>7, <2>8, StoreKeeps
<1>3. CASE ct.stores = <<Say("position", to), Say("arm", f.arm + 1)>>
  <2>1. /\ Head(ct.stores) = Say("position", to) /\ Len(ct.stores) = 2
        /\ Tail(ct.stores) = <<Say("arm", f.arm + 1)>> /\ Len(Tail(ct.stores)) = 1
    BY <1>3, Lists
  <2>2. f' = [f EXCEPT !.position = to] /\ moved' = [to |-> to, by |-> "seek", wrapped |-> FALSE]
    BY <2>1, StoresPuts DEF Puts
  <2>3. /\ ct'.stores = Tail(ct.stores) /\ ct'.op = "seek" /\ ct' \in ControlTypes(ct'.stores)
    BY <2>1, StoresOne
  <2>4. /\ f' \in FieldTypes /\ f'.playing = f.playing /\ f'.arm = f.arm /\ f'.position = to
        /\ f'.inFlight = f.inFlight /\ f'.start = f.start
        /\ moved' \in MoveTypes /\ moved'.by = "seek" /\ moved'.to = to
    BY <1>1, <2>2 DEF FieldTypes, MoveTypes
  <2>5. Numbered' BY <1>0, <2>3, <2>4 DEF IInv, Numbered
  <2>6. StoresLeft' BY <1>0, <1>1, <2>1, <2>3, <2>4 DEF StoresLeft, SeekLeft, ArmLeft
  <2>7. LeadHolds' BY <2>4 DEF LeadHolds
  <2>8. Unarmed' BY <2>1, <2>3 DEF Unarmed
  <2>9. LineHolds' BY <1>1, <2>4, <2>8 DEF LineHolds
  <2> QED BY <1>1, <2>3, <2>4, <2>5, <2>6, <2>7, <2>9, StoreKeeps
<1>4. CASE ct.stores = <<Say("arm", f.arm + 1)>>
  <2>1. Head(ct.stores) = Say("arm", f.arm + 1) /\ Len(ct.stores) = 1 BY <1>4, Lists
  <2>2. ArmedAt BY <2>1, StoresPuts DEF Puts, ArmedAt
  <2> QED BY <2>1, <2>2, ArmKeeps
<1> QED BY <1>2, <1>3, <1>4 DEF SeekLeft


LEMMA StoresKeeps == ASSUME IInv, Stores PROVE IInv'
<1>1. CASE ct.op = "play"
  <2>1. PICK r \in Runs : PlayLeft(r) BY <1>1 DEF IInv, StoresLeft
  <2> QED BY <1>1, <2>1, PlaysKeep
<1>2. CASE ct.op = "stop"
  <2>1. StopLeft BY <1>2 DEF IInv, StoresLeft
  <2> QED BY <1>2, <2>1, StopsStoreKeeps
<1>3. CASE ct.op = "seek"
  <2>1. PICK to \in Seeks : SeekLeft(to) BY <1>3 DEF IInv, StoresLeft
  <2> QED BY <1>3, <2>1, SeeksKeep
<1> QED BY <1>1, <1>2, <1>3, StoresAside

-----------------------------------------------------------------------------
(* The specification.                                                       *)

LEMMA InitHolds == Init => IInv
<1> SUFFICES ASSUME Init PROVE IInv OBVIOUS
<1> USE TransportAssumption DEF Init
<1>1. Typed
  <2>1. f \in FieldTypes BY DEF Fields, FieldTypes
  <2>2. clock \in [seq : Nat, point : Points] BY QuietTyped
  <2>3. slots \in [{0, 1} -> SUBSET Buffer] /\ holds \in [Buffer -> Int] /\ makers \subseteq Buffer
    BY DEF Empty
  <2>4. ct \in ControlTypes(ct.stores) BY QuietTyped DEF Quiet
  <2>5. moved \in MoveTypes BY DEF MoveTypes
  <2> QED BY <2>1, <2>2, <2>3, <2>4, <2>5, IdleTyped DEF Typed
<1>2. BlockFits BY DEF BlockFits, Bounded, Idle
<1>3. Numbered BY DEF Numbered, Idle, Quiet, Fields, NoPoint
<1>4. StoresLeft BY DEF StoresLeft, ArmLeft, Quiet
<1>5. LeadHolds BY DEF LeadHolds, Fields, Idle
<1>6. BookHolds BY DEF BookHolds, One, Empty, Quiet
<1>7. PointHolds BY DEF PointHolds, Writing, Idle, NoPoint
<1>8. LineHolds BY DEF LineHolds, Writing, Idle, NoPoint, Fields
<1>9. ReaderHolds BY DEF ReaderHolds, Quiet
<1> QED BY <1>1, <1>2, <1>3, <1>4, <1>5, <1>6, <1>7, <1>8, <1>9 DEF IInv

LEMMA CallbackKeeps == ASSUME IInv, Callback PROVE IInv'
  BY SeesRunKeeps, TakesFlightKeeps, ReadsPositionKeeps, ReadsStartKeeps, ReadsStopKeeps, RanOutKeeps,
     EndsRunKeeps, WrapsKeeps, ReadsActiveKeeps, SaysSlotKeeps, ReadsLeadKeeps, MixesKeeps, ClaimsKeeps,
     StampsOddKeeps, StampsSerialKeeps, StampsHandedKeeps, StampsTimeKeeps, StampsEvenKeeps, LandsKeeps
  DEF Callback, Stamps

LEMMA ControlKeeps == ASSUME IInv, Control PROVE IInv'
<1>1. \A run \in 1..MaxOps : run \in Nat BY TransportAssumption
<1> QED
  BY <1>1, PlayKeeps, StopKeeps, StopRunKeeps, SeekKeeps, StoresKeeps, NewBufferKeeps, ReleaseBufferKeeps,
     SetScheduleKeeps, FailsToFillKeeps, FillsKeeps, FlipsKeeps, LooksInFlightKeeps, LooksAtWordKeeps,
     FreesOldKeeps, AsksClockKeeps, ReadsSequenceKeeps, ReadsSerialKeeps, ReadsHandedKeeps,
     ReadsTimeKeeps, AnswersKeeps, ReturnsKeeps
  DEF Control

LEMMA StutterKeeps == ASSUME IInv, UNCHANGED vars PROVE IInv'
<1> USE DEF vars, book, seen, IInv
<1>1. Typed' BY DEF Typed
<1>2. BlockFits' BY DEF BlockFits, Bounded
<1>3. Numbered' BY DEF Numbered
<1>4. StoresLeft' BY StoresStay
<1>5. LeadHolds' BY DEF LeadHolds
<1>6. BookHolds' BY DEF BookHolds, One
<1>7. PointHolds' BY DEF PointHolds, Writing, Stamp
<1>8. LineHolds' BY DEF LineHolds, Writing, OnLine, Unarmed
<1>9. ReaderHolds' BY DEF ReaderHolds, OnLine
<1> QED BY <1>1, <1>2, <1>3, <1>4, <1>5, <1>6, <1>7, <1>8, <1>9

\* The transport's invariant holds of every behaviour: of the block worked out,
\* the numbers of runs and arms, what a call has left to store, the book, the
\* point being written and what of it a reader has read (transport.rs, buffer.rs).
THEOREM Invariance == Spec => []IInv
<1>1. IInv /\ [Next]_vars => IInv'
  BY AskedKeeps, CallbackKeeps, ControlKeeps, StutterKeeps DEF Next
<1> QED BY <1>1, InitHolds, PTL DEF Spec

\* Every buffer's count is the number of those that hold it, whatever the
\* order of the calls and the callbacks, and no variable leaves its type.
THEOREM TransportBook == Spec => []HoldsAddUp
<1>1. IInv => HoldsAddUp
  <2> SUFFICES ASSUME IInv PROVE HoldsAddUp OBVIOUS
  <2>1. BookHolds /\ Numbered /\ BlockFits /\ Typed /\ StoresLeft BY DEF IInv
  <2>2. f \in FieldTypes /\ cb \in CallbackTypes /\ ops \in 0..MaxOps BY <2>1 DEF Typed
  <2>3. f.playing \in 0..MaxOps /\ f.arm \in 0..MaxOps
    BY <2>1, <2>2, TransportAssumption DEF Numbered, FieldTypes
  <2>4. holds \in [Buffer -> Nat]
    <3>1. \A b \in Buffer : holds[b] \in Nat BY <2>1 DEF BookHolds, One
    <3> QED BY <2>1, <3>1 DEF Typed
  <2>5. ct.stores # <<>> => ct.op \in {"play", "stop", "seek"} BY <2>1 DEF StoresLeft
  <2>6. cb.block \in 0..MaxBlock /\ cb.done \in 0..Frames BY <2>2 DEF CallbackTypes
  <2>7. f.looping \in BOOLEAN /\ f.active \in {0, 1} /\ f.said \in {0, 1} /\ f.inFlight \in BOOLEAN
    BY <2>2 DEF FieldTypes
  <2>8. cb.at \in {"idle", "asked", "flight"} \/ f.inFlight BY <2>1 DEF BlockFits
  <2>9. TypeOK BY <2>1, <2>3, <2>4, <2>5, <2>6, <2>7, <2>8 DEF TypeOK, Typed
  <2> QED BY <2>1, <2>9 DEF HoldsAddUp, BookHolds
<1> QED BY <1>1, Invariance, PTL

\* A point a reader is told is one callback's, whole, and of the run's line.
THEOREM TransportClock == Spec => []ClockIsOnTheLine
<1>1. IInv => ClockIsOnTheLine BY DEF IInv, ReaderHolds, OnLine, ClockIsOnTheLine
<1> QED BY <1>1, Invariance, PTL

\* A run's lead is silent until a seek, whatever block is under way.
THEOREM TransportLead == Spec => []LeadIsSilent
<1>1. IInv => LeadIsSilent BY DEF IInv, LeadHolds, LeadIsSilent
<1> QED BY <1>1, Invariance, PTL

\* No step of the control thread is the callback's.
LEMMA ControlSparesCallback == Control => cb' = cb
  BY DEF Control, Play, Stop, StopRun, Seek, Stores, NewBuffer, ReleaseBuffer, SetSchedule, FailsToFill,
         Fills, Flips, LooksInFlight, LooksAtWord, FreesOld, AsksClock, ReadsSequence, ReadsSerial,
         ReadsHanded, ReadsTime, Answers, Returns, UnchangedByControl

\* The position moves ahead by the block mixed from there, or from the stop to
\* the start, when it is the callback that moves it.
THEOREM TransportSeeks == Spec => SeekStands
<1> DEFINE Stands ==
      cb' # cb /\ f'.position # f.position =>
        \/ f.position = cb.position /\ f'.position - f.position \in 1..MaxBlock
        \/ Bounded /\ f.position >= cb.stop /\ f'.position = cb.start
<1>1. IInv /\ [Next]_vars => [Stands]_vars
  <2> SUFFICES ASSUME IInv, Next, cb' # cb, f'.position # f.position PROVE Stands
    OBVIOUS
  <2>1. ~Control BY ControlSparesCallback
  <2>3. f \in FieldTypes /\ cb \in CallbackTypes BY DEF IInv, Typed
  <2>4. CASE Wraps
    BY <2>3, <2>4 DEF Wraps, IInv, BlockFits, Bounded, FieldTypes
  <2>5. CASE Claims
    <3>1. cb.block \in 1..MaxBlock
      BY <2>3, <2>5, TransportAssumption DEF Claims, IInv, BlockFits, CallbackTypes
    <3>2. f.position = cb.position /\ f'.position = cb.position + cb.block
      BY <2>3, <2>5 DEF Claims, FieldTypes
    <3> QED BY <2>3, <3>1, <3>2 DEF CallbackTypes
  <2>6. CASE Callback /\ ~Wraps /\ ~Claims
    BY <2>3, <2>6
    DEF Callback, Stamps, SeesRun, TakesFlight, ReadsPosition, ReadsStart, ReadsStop, RanOut, EndsRun,
        ReadsActive, SaysSlot, ReadsLead, Mixes, StampsOdd, StampsSerial, StampsHanded, StampsTime,
        StampsEven, Lands, FieldTypes
  <2> QED BY <2>1, <2>4, <2>5, <2>6 DEF Next, Asked
<1> QED BY <1>1, Invariance, PTL DEF Spec, SeekStands

\* The callback ends the run it was asked for, whichever is armed meanwhile.
THEOREM TransportEnds == Spec => EndsOnlyItself
<1>1. IInv /\ [Next]_vars => [cb' # cb /\ f'.playing # f.playing => f.playing = cb.run]_vars
  <2> SUFFICES ASSUME IInv, Next, cb' # cb, f'.playing # f.playing PROVE f.playing = cb.run
    OBVIOUS
  <2>1. ~Control BY ControlSparesCallback
  <2>3. f \in FieldTypes BY DEF IInv, Typed
  <2>4. CASE EndsRun BY <2>4 DEF EndsRun
  <2>5. CASE Callback /\ ~EndsRun
    BY <2>3, <2>5
    DEF Callback, Stamps, SeesRun, TakesFlight, ReadsPosition, ReadsStart, ReadsStop, RanOut, Wraps,
        ReadsActive, SaysSlot, ReadsLead, Mixes, Claims, StampsOdd, StampsSerial, StampsHanded,
        StampsTime, StampsEven, Lands, FieldTypes
  <2> QED BY <2>1, <2>4, <2>5 DEF Next, Asked
<1> QED BY <1>1, Invariance, PTL DEF Spec, EndsOnlyItself

=============================================================================
