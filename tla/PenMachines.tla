---------------------------- MODULE PenMachines ----------------------------
(***************************************************************************)
(* The roads by which a pen reaches the brush (native/pen).                *)
(*                                                                         *)
(* Windows has two.  The Raw Input observer (raw.rs): a thread with a      *)
(* message-only window that reports are delivered to, started, stopped and *)
(* polled by Dart's one isolate through three words it shares with them.   *)
(* Start and stop each wait two seconds and no longer, so a thread may     *)
(* outlive the stop that took its handle.  And the driver's context        *)
(* (wintab.rs): opened once for the app's window, polled for the packets   *)
(* the driver queued, and closed; wintab32.dll and its contexts are        *)
(* external.                                                               *)
(*                                                                         *)
(* Apple's have the ledger (ledger.rs) and the two readers that write it   *)
(* (apple.rs): UIKit's word on each touch, which may be an estimate it     *)
(* corrects later or never, and AppKit's word on each mouse or tablet      *)
(* event.  The brush asks by the timestamp Flutter gave the sample.        *)
(***************************************************************************)
EXTENDS Integers, Sequences, FiniteSets, FiniteSetsExt

CONSTANTS Pens,         \* the digitizers
          MaxThreads,   \* bound: observer threads in a behaviour
          MaxReports,   \* bound: reports in a behaviour
          NoThread,
          ROOM,         \* packets one poll of the driver has room for, 64 at most
          QUEUE,        \* packets the driver keeps
          MaxContexts, MaxPackets, \* bounds: contexts opened, packets queued
          NoContext

VARIABLES hid,       \* hid.dll loads
          started,   \* STARTED
          thread,    \* OBSERVER.thread: the thread whose handle is kept
          pc,        \* where each thread is
          quit,      \* the threads WM_QUIT is posted to
          kept,      \* READING: the device each thread last read
          taking,    \* the report each thread is writing out, in part
          FLAGS, SEQUENCE, POSE,
          call,      \* what Dart's isolate is in
          heard,     \* history: the device of each report read
          strayed    \* history: a thread outlived the stop that took it

observerVars == <<hid, started, thread, pc, quit, kept, taking, FLAGS, SEQUENCE, POSE,
                  call, heard, strayed>>

Threads == 1 .. MaxThreads
Unborn == {t \in Threads : pc[t] = "unborn"}
Live == {t \in Threads : pc[t] \in {"starting", "looping", "leaving"}}

\* A report's word: the report, and the device its axes were read from.
NoPose == [report |-> 0, axes |-> NoThread]
NoTake == [report |-> 0, at |-> "idle"]
Idle == [in |-> "idle", of |-> NoThread, flags |-> 0, sequence |-> 0]

ObserverInit ==
  /\ hid \in BOOLEAN
  /\ started = FALSE /\ thread = NoThread
  /\ pc = [t \in Threads |-> "unborn"]
  /\ quit = {} /\ kept = [t \in Threads |-> NoThread]
  /\ taking = [t \in Threads |-> NoTake]
  /\ FLAGS = 0 /\ SEQUENCE = 0 /\ POSE = NoPose
  /\ call = Idle
  /\ heard = <<>> /\ strayed = FALSE

-----------------------------------------------------------------------------
\* Dart's isolate.

words == <<FLAGS, SEQUENCE, POSE>>
theirs == <<kept, taking, words, heard>>

Spawns(t) ==
  /\ pc' = [pc EXCEPT ![t] = "starting"]
  /\ thread' = t
  /\ call' = [Idle EXCEPT !.in = "waits ready", !.of = t]

Start ==
  /\ call.in = "idle"
  /\ ~started /\ hid /\ thread = NoThread      \* else it answers at once
  /\ Unborn # {}
  /\ \/ Spawns(CHOOSE t \in Unborn : \A u \in Unborn : t <= u)
     \/ UNCHANGED <<pc, thread, call>>         \* no thread to be had
  /\ UNCHANGED <<hid, started, quit, theirs, strayed>>

\* The thread said it is ready, ended without a word, or two seconds passed:
\* the answer is STARTED in every case.
StartReturns ==
  /\ call.in = "waits ready"
  /\ call' = Idle
  /\ UNCHANGED <<hid, started, thread, pc, quit, theirs, strayed>>

\* The quit is posted to the thread's queue; one that has no window yet may
\* have no queue, and the quit is lost.
Stop ==
  /\ call.in = "idle" /\ thread # NoThread
  /\ thread' = NoThread
  /\ \/ pc[thread] \in {"starting", "looping"} /\ quit' = quit \cup {thread}
     \/ pc[thread] # "looping" /\ UNCHANGED quit
  /\ call' = [Idle EXCEPT !.in = "waits gone", !.of = thread]
  /\ UNCHANGED <<hid, started, pc, theirs, strayed>>

\* mutant: the words are cleared before the thread has ended
StopClearsFirst ==
  /\ call.in = "waits gone"
  /\ FLAGS' = 0
  /\ call' = [Idle EXCEPT !.in = "clears pose"]
  /\ UNCHANGED <<hid, started, thread, pc, quit, kept, taking, SEQUENCE, POSE, heard, strayed>>

\* The wait ends with the thread or with two seconds; then FLAGS is cleared.
StopWaited ==
  /\ call.in = "waits gone"
  /\ strayed' = (strayed \/ pc[call.of] # "gone")
  /\ FLAGS' = 0
  /\ call' = [Idle EXCEPT !.in = "clears pose"]
  /\ UNCHANGED <<hid, started, thread, pc, quit, kept, taking, SEQUENCE, POSE, heard>>

StopReturns ==
  /\ call.in = "clears pose"
  /\ POSE' = NoPose
  /\ call' = Idle
  /\ UNCHANGED <<hid, started, thread, pc, quit, kept, taking, FLAGS, SEQUENCE, heard, strayed>>

\* poll reads FLAGS, then SEQUENCE, then POSE.
PollFlags ==
  /\ call.in = "idle" /\ started
  /\ call' = [Idle EXCEPT !.in = "polls sequence", !.flags = FLAGS]
  /\ UNCHANGED <<hid, started, thread, pc, quit, theirs, strayed>>

PollSequence ==
  /\ call.in = "polls sequence"
  /\ call' = [call EXCEPT !.in = "polls pose", !.sequence = SEQUENCE]
  /\ UNCHANGED <<hid, started, thread, pc, quit, theirs, strayed>>

PollPose ==
  /\ call.in = "polls pose"
  /\ call' = Idle
  /\ UNCHANGED <<hid, started, thread, pc, quit, theirs, strayed>>

-----------------------------------------------------------------------------
\* The observer thread.

ours == <<hid, thread, call, strayed>>

Registers(t) ==
  /\ pc[t] = "starting"
  /\ pc' = [pc EXCEPT ![t] = "looping"]
  /\ started' = TRUE
  /\ UNCHANGED <<ours, quit, theirs>>

\* No class, no window or no registration: the thread ends without a word.
Fails(t) ==
  /\ pc[t] = "starting"
  /\ pc' = [pc EXCEPT ![t] = "gone"]
  /\ UNCHANGED <<ours, started, quit, theirs>>

\* mutant: whatever device is kept is taken for the report's
KnowsTheFirst(t, pen) == IF kept[t] # NoThread THEN kept[t] ELSE pen

\* The device a report is read by: the one kept when it is the report's,
\* otherwise the report's own, asked of the system.
Known(t, pen) == IF kept[t] = pen THEN kept[t] ELSE pen

\* take: a report of this device begins to be written out, its pose first.
\* One whose device gives no data, or does not declare it, is passed over.
Takes(t, pen) ==
  /\ pc[t] = "looping" /\ taking[t].at = "idle" /\ Len(heard) < MaxReports
  /\ heard' = Append(heard, pen)
  /\ kept' = [kept EXCEPT ![t] = Known(t, pen)]
  /\ POSE' = [report |-> Len(heard'), axes |-> kept'[t]]
  /\ taking' = [taking EXCEPT ![t] = [report |-> Len(heard'), at |-> "flags"]]
  /\ UNCHANGED <<ours, started, pc, quit, FLAGS, SEQUENCE>>

TakesFlags(t) ==
  /\ taking[t].at = "flags"
  /\ FLAGS' = taking[t].report
  /\ taking' = [taking EXCEPT ![t].at = "sequence"]
  /\ UNCHANGED <<ours, started, pc, quit, kept, SEQUENCE, POSE, heard>>

TakesSequence(t) ==
  /\ taking[t].at = "sequence"
  /\ SEQUENCE' = SEQUENCE + 1
  /\ taking' = [taking EXCEPT ![t] = NoTake]
  /\ UNCHANGED <<ours, started, pc, quit, kept, FLAGS, POSE, heard>>

Leaves(t) ==
  /\ pc[t] = "looping" /\ taking[t].at = "idle" /\ t \in quit
  /\ pc' = [pc EXCEPT ![t] = "leaving"]
  /\ UNCHANGED <<ours, started, quit, theirs>>

\* mutant: the thread ends and leaves it said that reports flow
EndsUnsaid(t) ==
  /\ pc[t] = "leaving"
  /\ pc' = [pc EXCEPT ![t] = "gone"]
  /\ UNCHANGED <<ours, started, quit, theirs>>

Ends(t) ==
  /\ pc[t] = "leaving"
  /\ pc' = [pc EXCEPT ![t] = "gone"]
  /\ started' = FALSE
  /\ UNCHANGED <<ours, quit, theirs>>

ObserverNext ==
  \/ Start \/ StartReturns \/ Stop \/ StopWaited \/ StopReturns
  \/ PollFlags \/ PollSequence \/ PollPose
  \/ \E t \in Threads :
       \/ Registers(t) \/ Fails(t) \/ TakesFlags(t) \/ TakesSequence(t)
       \/ Leaves(t) \/ Ends(t)
       \/ \E pen \in Pens : Takes(t, pen)

-----------------------------------------------------------------------------
\* Where reports are said to flow, a thread is registered for them: a start
\* that answers 1 is not answering for an observer that has ended.
LiveMeansListening ==
  started => \E t \in Threads : pc[t] \in {"looping", "leaving"}

\* Where no observer is left and none outlived its stop, a stop leaves
\* nothing of the pen behind: the next observer's first poll does not find
\* the pen still down or leaning (raw.rs stop clears the words after the
\* wait).
StoppedLeavesNothing ==
  call.in = "idle" /\ thread = NoThread /\ Live = {} /\ ~strayed => FLAGS = 0 /\ POSE = NoPose

\* A report is read with its own device's declaration, whichever pens take
\* turns (raw.rs known).
ReadByItsOwn == POSE # NoPose => POSE.axes = heard[POSE.report]

\* The three, of the observer.
ObserverIsSound == LiveMeansListening /\ StoppedLeavesNothing /\ ReadByItsOwn

-----------------------------------------------------------------------------
(* The driver's context.                                                    *)

VARIABLES driver,    \* TABLET.driver is loaded
          answers,   \* the driver reports a device
          window,    \* the app has its window
          opened,    \* TABLET.opened: the context kept
          contexts,  \* the driver's open contexts
          made,      \* contexts opened so far
          queue,     \* packets the driver keeps for the context, in order
          arrived,   \* packets so far
          read       \* history: the packets polled, in order

tabletVars == <<driver, answers, window, opened, contexts, made, queue, arrived, read>>

TabletInit ==
  /\ driver = FALSE /\ answers \in BOOLEAN /\ window = FALSE
  /\ opened = NoContext /\ contexts = {} /\ made = 0
  /\ queue = <<>> /\ arrived = 0 /\ read = <<>>

\* The driver and the app's window come and go on their own.
Shows == /\ window' = TRUE
         /\ UNCHANGED <<driver, answers, opened, contexts, made, queue, arrived, read>>
Plugs == /\ answers' = ~answers
         /\ UNCHANGED <<driver, window, opened, contexts, made, queue, arrived, read>>

Queues == /\ contexts # {} /\ arrived < MaxPackets
          /\ arrived' = arrived + 1
          /\ queue' = IF Len(queue) < QUEUE THEN Append(queue, arrived') ELSE queue
          /\ UNCHANGED <<driver, answers, window, opened, contexts, made, read>>

\* Loads the library when it has not been: what `available' does of state.
Available == driver' = TRUE

\* mutant: a context is opened whether or not one is
OpenAgain ==
  /\ Available /\ answers /\ window /\ made < MaxContexts
  /\ made' = made + 1
  /\ opened' = made' /\ contexts' = contexts \cup {made'}
  /\ UNCHANGED <<answers, window, queue, arrived, read>>

\* Idempotent; with no driver, no window or a context refused it opens none.
Open ==
  /\ opened = NoContext
  /\ Available /\ made < MaxContexts
  /\ \/ /\ answers /\ window
        /\ made' = made + 1
        /\ opened' = made' /\ contexts' = contexts \cup {made'}
     \/ UNCHANGED <<made, opened, contexts>>
  /\ UNCHANGED <<answers, window, queue, arrived, read>>

\* mutant: what was read stays queued
PollKeeps(cap, claimed) ==
  /\ driver /\ opened # NoContext
  /\ read' = read \o SubSeq(queue, 1, Min({Len(queue), cap, ROOM}))
  /\ Len(read) <= MaxPackets
  /\ UNCHANGED <<driver, answers, window, opened, contexts, made, queue, arrived>>

\* Drains as many packets as there is room for, and reads as many as the
\* driver says it gave, never past the room (a place it did not write is a
\* blank packet, which the history leaves out).
Poll(cap, claimed) ==
  /\ driver /\ opened # NoContext
  /\ LET want == Min({cap, ROOM})
         given == Min({Len(queue), want})
         got == Min({Max({claimed, 0}), want})
     IN  /\ read' = read \o SubSeq(queue, 1, Min({got, given}))
         /\ queue' = SubSeq(queue, given + 1, Len(queue))
  /\ UNCHANGED <<driver, answers, window, opened, contexts, made, arrived>>

Close ==
  /\ driver /\ opened # NoContext
  /\ contexts' = contexts \ {opened} /\ opened' = NoContext
  /\ queue' = <<>>
  /\ UNCHANGED <<driver, answers, window, made, arrived, read>>

TabletNext ==
  \/ Shows \/ Plugs \/ Queues \/ Open \/ Close
  \/ \E cap \in 0 .. ROOM + 1 : \E claimed \in {-1, Min({Len(queue), cap, ROOM}), ROOM + 1} :
       Poll(cap, claimed)

-----------------------------------------------------------------------------
\* The driver holds the one context the app knows of and no other, so that
\* the close it asks for leaves none; and packets are read in order, each
\* once.
OneContext ==
  /\ contexts = IF opened = NoContext THEN {} ELSE {opened}
  /\ \A i, j \in DOMAIN read : i < j => read[i] < read[j]

-----------------------------------------------------------------------------
(* The ledger.  A sample's values are the number of the sample and whether  *)
(* they are a guess; `said' is the platform's own account of every sample   *)
(* it has noted, which the ledger's answers are compared with.              *)

CONSTANTS RING,        \* records kept
          Stamps,      \* the timestamps samples carry
          MaxNotes,    \* bound: samples noted in a behaviour
          NoSample     \* an empty place, or no number

VARIABLES ring,        \* the records, or NoSample
          next,        \* the place the next one takes, from 0
          said         \* history: what the platform says by now of each sample

ledgerVars == <<ring, next, said>>

MEASURED == "measured"
ESTIMATED == "estimated"
NO_PRESSURE == "no pressure"
UNREPORTED == "unreported"
ESTIMATED_FINAL == "estimated for good"
States == {MEASURED, ESTIMATED, NO_PRESSURE, UNREPORTED, ESTIMATED_FINAL}

\* What the brush is answered: a value, or one of the ledger's numbers for none.
Answer(code) == [of |-> code, guess |-> FALSE]
Real(n) == [of |-> n, guess |-> FALSE]
Guess(n) == [of |-> n, guess |-> TRUE]
Values == [of : 1 .. MaxNotes, guess : BOOLEAN]

Sample == [micros : Stamps, update_index : (1 .. MaxNotes) \cup {NoSample},
           value : Values, state : States,
           altitude : Values, altitude_state : States,
           tilt : Values, tilt_state : States]

-----------------------------------------------------------------------------
\* ledger.rs

\* mutant: the estimates that await a correction alone are estimates
StateOfAwaited(estimated, awaited, property) ==
  IF property \in awaited THEN ESTIMATED ELSE MEASURED

StateOf(estimated, awaited, property) ==
  IF property \in awaited THEN ESTIMATED
  ELSE IF property \in estimated THEN ESTIMATED_FINAL
  ELSE MEASURED

Record(sample) ==
  /\ ring' = [ring EXCEPT ![next] = sample]
  /\ next' = (next + 1) % RING

\* the records from the newest back
Back(back) == ring[(next + RING - back) % RING]

Find(micros) ==
  LET named == {b \in 1 .. RING : Back(b) # NoSample /\ Back(b).micros = micros}
  IN  IF named = {} THEN NoSample
      ELSE Back(CHOOSE b \in named : \A c \in named : b <= c)

Corrected(sample, key, force, altitude) ==
  IF sample = NoSample \/ key = NoSample THEN sample
  ELSE IF sample.update_index # key THEN sample
  ELSE LET f == force # NoSample /\ sample.state = ESTIMATED
           a == altitude # NoSample /\ sample.altitude_state = ESTIMATED
       IN  [sample EXCEPT !.value = IF f THEN force ELSE @,
                          !.state = IF f THEN MEASURED ELSE @,
                          !.altitude = IF a THEN altitude ELSE @,
                          !.altitude_state = IF a THEN MEASURED ELSE @]

Update(key, force, altitude) ==
  /\ ring' = [i \in DOMAIN ring |-> Corrected(ring[i], key, force, altitude)]
  /\ UNCHANGED next

Value(micros) ==
  LET s == Find(micros)
  IN  IF s = NoSample THEN Answer(-1)
      ELSE CASE s.state = ESTIMATED -> Answer(-2)
             [] s.state = NO_PRESSURE -> Answer(-3)
             [] s.state = ESTIMATED_FINAL -> Answer(-4)
             [] OTHER -> s.value

Altitude(micros) ==
  LET s == Find(micros)
  IN  IF s = NoSample THEN Answer(-1)
      ELSE CASE s.altitude_state = ESTIMATED -> Answer(-2)
             [] s.altitude_state = ESTIMATED_FINAL -> Answer(-4)
             [] s.altitude_state = MEASURED -> s.altitude
             [] OTHER -> Answer(-1)

Tilt(micros) ==
  LET s == Find(micros)
  IN  IF s = NoSample THEN NoSample
      ELSE IF s.tilt_state = MEASURED THEN s.tilt ELSE NoSample

-----------------------------------------------------------------------------
LedgerInit == /\ ring = [i \in 0 .. RING - 1 |-> NoSample]
              /\ next = 0
              /\ said = <<>>

Properties == {"force", "altitude"}

\* What a touch or an event carries of a property the platform calls so.
Carried(n, estimated, property) == IF property \in estimated THEN Guess(n) ELSE Real(n)

\* noteTouches:, of one touch.  Only a pencil's touch is recorded.
NoteTouch(micros, pencil, estimated, awaited) ==
  LET n == Len(said) + 1
      index == IF awaited = {} THEN NoSample ELSE n
  IN  /\ n <= MaxNotes
      /\ IF pencil
         THEN /\ Record([micros |-> micros, update_index |-> index,
                         value |-> Carried(n, estimated, "force"),
                         state |-> StateOf(estimated, awaited, "force"),
                         altitude |-> Carried(n, estimated, "altitude"),
                         altitude_state |-> StateOf(estimated, awaited, "altitude"),
                         tilt |-> Guess(n), tilt_state |-> UNREPORTED])
              /\ said' = Append(said, [micros |-> micros, kind |-> "touch",
                                       guesses |-> estimated, awaited |-> awaited])
         ELSE UNCHANGED ledgerVars

\* updateTouches:, of one touch: UIKit's word on sample n now that it awaits
\* only `awaited' of it.  A touch that is not numbered says nothing.
UpdateTouch(n, awaited) ==
  /\ said[n].kind = "touch" /\ said[n].awaited # {}
  /\ awaited \subseteq said[n].awaited
  /\ Update(n, IF "force" \in awaited THEN NoSample ELSE Real(n),
               IF "altitude" \in awaited THEN NoSample ELSE Real(n))
  /\ said' = [said EXCEPT ![n].awaited = awaited,
                          ![n].guesses = @ \ (said[n].awaited \ awaited)]

\* The event monitor, of one left-mouse or tablet event.
NoteEvent(micros, tablet) ==
  LET n == Len(said) + 1
  IN  /\ n <= MaxNotes
      /\ Record([micros |-> micros, update_index |-> NoSample,
                 value |-> IF tablet THEN Real(n) ELSE Guess(n),
                 state |-> IF tablet THEN MEASURED ELSE NO_PRESSURE,
                 altitude |-> Guess(n), altitude_state |-> UNREPORTED,
                 tilt |-> IF tablet THEN Real(n) ELSE Guess(n),
                 tilt_state |-> IF tablet THEN MEASURED ELSE UNREPORTED])
      /\ said' = Append(said, [micros |-> micros, awaited |-> {}, guesses |-> {},
                               kind |-> IF tablet THEN "tablet" ELSE "mouse"])

LedgerNext ==
  \/ \E micros \in Stamps, pencil \in BOOLEAN, estimated \in SUBSET Properties :
       \E awaited \in SUBSET estimated : NoteTouch(micros, pencil, estimated, awaited)
  \/ \E n \in DOMAIN said, awaited \in SUBSET Properties : UpdateTouch(n, awaited)
  \/ \E micros \in Stamps, tablet \in BOOLEAN : NoteEvent(micros, tablet)

------------------------------------------------------------------------------
\* The newest of the last RING samples noted with this stamp, or 0.
Newest(micros) ==
  LET named == {n \in DOMAIN said : n > Len(said) - RING /\ said[n].micros = micros}
  IN  IF named = {} THEN 0 ELSE CHOOSE n \in named : \A m \in named : m <= n

\* What the platform says of a property of sample n by now.
Word(n, property) ==
  IF property \in said[n].awaited THEN Answer(-2)
  ELSE IF property \in said[n].guesses THEN Answer(-4) ELSE Real(n)

\* What the brush is told of a stamp is the platform's word, by now, on the
\* newest sample of that stamp still kept: a value nothing measured is never
\* handed over as a measurement, a correction reaches the sample it is for
\* and no other, and a final estimate stays one (ledger.rs find, update,
\* value, altitude and tilt).
LedgerKeepsItsWord ==
  \A micros \in Stamps :
    LET n == Newest(micros)
    IN  IF n = 0
        THEN Value(micros) = Answer(-1) /\ Altitude(micros) = Answer(-1) /\ Tilt(micros) = NoSample
        ELSE CASE said[n].kind = "touch" ->
                    /\ Value(micros) = Word(n, "force")
                    /\ Altitude(micros) = Word(n, "altitude")
                    /\ Tilt(micros) = NoSample
               [] said[n].kind = "tablet" ->
                    /\ Value(micros) = Real(n)
                    /\ Altitude(micros) = Answer(-1)
                    /\ Tilt(micros) = Real(n)
               [] OTHER ->
                    /\ Value(micros) = Answer(-3)
                    /\ Altitude(micros) = Answer(-1)
                    /\ Tilt(micros) = NoSample
=============================================================================
