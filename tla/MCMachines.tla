----------------------------- MODULE MCMachines -----------------------------
(***************************************************************************)
(* Small instances of the engine's state machines and of the history's     *)
(* spill pass for TLC: `which` names the one that moves, the others stay   *)
(* where they start. They share no state, so what holds of each alone      *)
(* holds of all.                                                           *)
(***************************************************************************)
EXTENDS CaptureRing, FiniteSets, TLC

CONSTANTS Nothing, g1, g2, system, null, p1, p2, w1, w2, s1, s2, a1, a2, x, y, tiles, surface_, fullRun, bandRun, tileRun

VARIABLES
    which,
    \* AudioDevices
    context, devices, front, live, door, asks, opens, playing, player, filled, inMemory, reader, calls,
    \* MediaSpan and SoundStream
    file, span, answer, reads, sound, stream, heard,
    \* PenMachines
    ledger, next, said,
    hid, started, thread, pc, quit, reading, taking, FLAGS, SEQUENCE, POSE, call, reported, strayed,
    driver, answers, window, opened, contexts, made, queue, arrived, polled,
    \* FxPlugin and VideoExport
    kind, room, memory, laid, reply,
    os, writer, codec, movie, times, unheld, formats, told,
    \* DisplayTiming, EngineSurface and CompositePasses
    clock, timer, waits, under, since, held, answered, composing, swaying,
    platform, present, flutters, engine, raw, surface, nativeWindow, frame, screen,
    asked, compiling, threads, walks,
    \* UndoHistory
    cel, undo, redo, steps, files, edits, warned, stood, spill, run, alive

-----------------------------------------------------------------------------
(* What they are asked.                                                     *)

Header(block, total, count, lengths) ==
    [block |-> block, total |-> total, count |-> count, lengths |-> lengths]

\* A framed medium whole, with a block that does not decode, and saying of
\* itself what cannot be.
SpanFiles ==
    {[size |-> 36, header |-> Header(2, 5, 3, <<2, 1, 2>>), bad |-> bad] : bad \in {{}, {1}}} \cup
    {[size |-> 36, header |-> h, bad |-> {}] :
        h \in {Header(2, 5, 2, <<2, 1>>), Header(0, 5, 3, <<2, 1, 2>>), Header(2, 5, 3, <<2, 0, 2>>),
               Header(2, 5, 3, <<2, 1, 9>>), Header(2, 0, 0, <<>>)}}
SpanAsks ==
    {[offset |-> o, length |-> 3, framed |-> FALSE] : o \in {-1, 1, 34}} \cup
    {[offset |-> 1, length |-> n, framed |-> TRUE] : n \in {3, 27, 33, 35}}

Decoder(opens_, blocks, lead, keep) == [reads |-> opens_, blocks |-> blocks, lead |-> lead, keep |-> keep]
SomeSounds ==
    {<<Decoder(r, first, 0, -1), Decoder(TRUE, <<2, 1, 3>>, lead, keep)>> :
        r \in BOOLEAN, first \in {<<>>, <<2>>}, lead \in {0, 1, 3, 7}, keep \in {-1, 0, 2, 9}}

\* A file not given or that does not start, a library, a module that needs
\* no allocator, one of another spec, and a whole one.
SomeFiles ==
    LET questions == {"spec", "describe", "reach", "render"}
        File(is_given, starts, exports, spec) ==
            [given |-> is_given, starts |-> starts, exports |-> exports, spec |-> spec]
        all == questions \cup {"alloc", "memory"}
    IN  {File(FALSE, TRUE, all, 1), File(TRUE, FALSE, all, 1), File(TRUE, TRUE, questions, 1),
         File(TRUE, TRUE, all, 2), File(TRUE, TRUE, all, 1)}

Image(width, height, stride) == [pixels |-> TRUE, width |-> width, height |-> height, stride |-> stride]
Job(input, stride, count, layers) ==
    [input |-> input, output |-> TRUE, output_stride |-> stride, value_count |-> count,
     values |-> TRUE, layers |-> layers]
SomeJobs ==
    {Job(Image(1, 1, 4), 4, 0, <<>>), Job(Image(3, 2, 16), 12, 1, <<Image(2, 1, 12), Image(1, 3, 4)>>),
     Job(Image(2, 2, 4), 8, 0, <<>>), Job(Image(2, 2, 8), 8, 2, <<Image(1, 2, 8)>>),
     Job(Image(9, 9, 36), 36, 0, <<>>), Job(Image(2, 2, 8), 8, -1, <<>>)}

-----------------------------------------------------------------------------
Devices == INSTANCE AudioDevices
    WITH Geometries <- {g1, g2}, Backends <- {system, null}, Null <- null, None <- Nothing, MaxOpens <- 2, ring <- inMemory
Span == INSTANCE MediaSpan
    WITH Files <- SpanFiles, Asks <- SpanAsks, MaxBlock <- 4, MaxReads <- 2, None <- Nothing
Stream == INSTANCE SoundStream WITH Sounds <- SomeSounds, MaxAsk <- 4, NoStream <- Nothing
Pen == INSTANCE PenMachines
    WITH Pens <- {p1, p2}, MaxThreads <- 2, MaxReports <- 2, NoThread <- Nothing, kept <- reading, heard <- reported,
         ROOM <- 2, QUEUE <- 3, MaxContexts <- 2, MaxPackets <- 4, NoContext <- Nothing, read <- polled,
         RING <- 2, Stamps <- {1, 2}, MaxNotes <- 3, NoSample <- Nothing, ring <- ledger
Plugin == INSTANCE FxPlugin
    WITH Files <- SomeFiles, Jobs <- SomeJobs, HeadCounts <- {-1, 0, 2}, Capacities <- {0, 8, 200}, WORD <- 600, SLICE <- 300,
         MEMORY <- 512, None <- Nothing, answer <- reply
Export == INSTANCE VideoExport WITH MaxFrames <- 2, MaxAudio <- 1, NoWriter <- Nothing, said <- told
Display == INSTANCE DisplayTiming
    WITH Waiters <- {w1, w2}, Screens <- {s1, s2}, Fresh <- 1, MaxClock <- 3, NoTime <- Nothing
Surface == INSTANCE EngineSurface
    WITH Adapters <- {a1, a2}, MaxFrames <- 3, None <- Nothing, window <- nativeWindow
Passes == INSTANCE CompositePasses
    WITH Outputs <- {tiles, surface_}, Kinds <- {fullRun, bandRun, tileRun}, Tiles <- tiles, Full <- fullRun, MaxAsks <- 5
\* One stroke, over both places.
History == INSTANCE UndoHistory
    WITH Place <- {x, y}, Strokes <- {[place \in {x, y} |-> "draw"]}, MaxEntries <- 3, Normal <- 2, Tight <- 1,
         FilesGetLost <- TRUE, MaxWalks <- 0, MaxEdits <- 3, made <- edits, open <- alive

\* Bounds: nothing is held, and of the files the stacks' pictures are parked
\* in one at most is missing.
Missing == {f \in History!FilesOf(undo \o redo) : steps[f[1]][f[2]].at = "room"} \ files
SpillNext == History!Next /\ ~run'.on /\ Cardinality(Missing') <= 1

ringVars == vars
devicesVars == <<context, devices, front, live, door, asks, opens, playing, player, filled, inMemory, reader, calls>>
spanVars == <<file, span, answer, reads>>
streamVars == <<sound, stream, heard>>
ledgerVars == <<ledger, next, said>>
observerVars == <<hid, started, thread, pc, quit, reading, taking, FLAGS, SEQUENCE, POSE, call, reported, strayed>>
tabletVars == <<driver, answers, window, opened, contexts, made, queue, arrived, polled>>
pluginVars == <<kind, room, memory, laid, reply>>
exportVars == <<os, writer, codec, movie, times, unheld, formats, told>>
displayVars == <<clock, timer, waits, under, since, held, answered, composing, swaying>>
surfaceVars == <<platform, present, flutters, engine, raw, surface, nativeWindow, frame, screen>>
passesVars == <<asked, compiling, threads, walks>>
spillVars == <<cel, undo, redo, steps, files, edits, warned, stood, spill, run, alive>>

soundVars == <<spanVars, streamVars>>
penVars == <<ledgerVars, observerVars, tabletVars>>
handVars == <<pluginVars, exportVars>>
drawVars == <<displayVars, surfaceVars, passesVars, spillVars>>

Machines == {"ring", "devices", "span", "stream", "ledger", "observer", "tablet", "plugin", "export",
             "waits", "screens", "surface", "passes", "spill"}

\* One that does not move starts in one of its starts.
MachinesInit ==
    /\ which \in Machines
    /\ Init /\ Devices!Init /\ Pen!LedgerInit /\ Passes!PassesInit
    /\ Span!SpanInit /\ (which # "span" => file = CHOOSE f \in SpanFiles : TRUE)
    /\ Stream!StreamInit /\ (which # "stream" => sound = CHOOSE s \in SomeSounds : TRUE)
    /\ Pen!ObserverInit /\ (which # "observer" => ~hid)
    /\ Pen!TabletInit /\ (which # "tablet" => ~answers)
    /\ Plugin!FxInit
    /\ Export!ExportInit /\ (which # "export" => os = "android")
    /\ Display!DisplayInit /\ (which \notin {"waits", "screens"} => under = {})
    /\ Surface!SurfaceInit /\ History!Init
    /\ (which # "surface" => platform = "linux" /\ present = {a1})

MachinesNext ==
    /\ UNCHANGED which
    /\ \/ /\ which \in {"ring", "devices"} /\ UNCHANGED <<soundVars, penVars, handVars, drawVars>>
          /\ \/ which = "ring" /\ Next /\ UNCHANGED devicesVars
             \/ which = "devices" /\ Devices!Next /\ UNCHANGED ringVars
       \/ /\ which \in {"span", "stream"} /\ UNCHANGED <<ringVars, devicesVars, penVars, handVars, drawVars>>
          /\ \/ which = "span" /\ Span!SpanNext /\ UNCHANGED streamVars
             \/ which = "stream" /\ Stream!StreamNext /\ UNCHANGED spanVars
       \/ /\ which \in {"ledger", "observer", "tablet"}
          /\ UNCHANGED <<ringVars, devicesVars, soundVars, handVars, drawVars>>
          /\ \/ which = "ledger" /\ Pen!LedgerNext /\ UNCHANGED <<observerVars, tabletVars>>
             \/ which = "observer" /\ Pen!ObserverNext /\ UNCHANGED <<ledgerVars, tabletVars>>
             \/ which = "tablet" /\ Pen!TabletNext /\ UNCHANGED <<ledgerVars, observerVars>>
       \/ /\ which \in {"plugin", "export"} /\ UNCHANGED <<ringVars, devicesVars, soundVars, penVars, drawVars>>
          /\ \/ which = "plugin" /\ Plugin!FxNext /\ UNCHANGED exportVars
             \/ which = "export" /\ Export!ExportNext /\ UNCHANGED pluginVars
       \/ /\ which \in {"waits", "screens", "surface", "passes", "spill"}
          /\ UNCHANGED <<ringVars, devicesVars, soundVars, penVars, handVars>>
          /\ \/ which = "waits" /\ Display!WaitNext /\ UNCHANGED <<surfaceVars, passesVars, spillVars>>
             \/ which = "screens" /\ Display!ScreenNext /\ UNCHANGED <<surfaceVars, passesVars, spillVars>>
             \/ which = "surface" /\ Surface!SurfaceNext /\ UNCHANGED <<displayVars, passesVars, spillVars>>
             \/ which = "passes" /\ Passes!PassesNext /\ UNCHANGED <<displayVars, surfaceVars, spillVars>>
             \/ which = "spill" /\ SpillNext /\ UNCHANGED <<displayVars, surfaceVars, passesVars>>

\* The fairness of the devices, of the compiling threads and of the worker a
\* spill pass awaits: each is vacuous of a machine at its start.
MachinesSpec ==
    /\ MachinesInit /\ [][MachinesNext]_<<which, ringVars, devicesVars, soundVars, penVars, handVars, drawVars>>
    /\ Devices!Fairness
    /\ WF_passesVars(Passes!Compiles)
    /\ WF_spillVars(History!Land)

-----------------------------------------------------------------------------
(* Properties.                                                              *)

\* The devices' doors, flags, streams and memory agree, and one callback at
\* most runs of a kind (audio_device/src/lib.rs).
DevicesAgree == Devices!TypeOK /\ Devices!OneCallback /\ Devices!DoorsAgree

\* Closing a device, or losing one that is not opened again, frees the slots or
\* the ring only once the callback of its kind has ended (lib.rs, reopen_output
\* and the closes). Two other ways to free under a reader are not in it:
\* set_schedule's, which AudioTransport has, and a drain's that looked at the
\* flag before the ring was freed (capture.rs, read), which is not modelled.
CallbackEndsFirst == Devices!NobodyUnderneath

\* What is read in pieces is what was there: the point a capture's clock
\* answers (capture.rs), a medium's span (span.rs), a sound (stream.rs); and a
\* read inside the block of a span decoded last touches the file not at all
\* (span.rs, load_block).
PiecesAreTheWhole ==
    /\ [](PointIsWhole /\ Span!ReadsTheMedium /\ Stream!ReadsItOn)
    /\ Span!KeepsItsBlock

\* The pens: a sample's late values reach its own record alone, a stop that
\* waited its observer out leaves nothing of the pen, one context is open at a time
\* (pen/src/ledger.rs, raw.rs, wintab.rs).
PensKeepTheirWord == Pen!LedgerKeepsItsWord /\ Pen!ObserverIsSound /\ Pen!OneContext

\* A plugin's block lies in its room, an export's samples reach its file in
\* order and whole, a wait is never early and no screen named is stale, a
\* surface is Flutter's and leaves nothing behind (fx_plugin, video, display,
\* platform).
EngineKeepsItsWord ==
    /\ Plugin!LaidInTheRoom /\ (which = "plugin" => Plugin!BlocksHold)
    /\ Export!ExportKeepsItsMovie /\ Display!DisplayKeepsTime
    /\ Surface!SurfaceIsFlutters /\ Passes!NoPassIsForgotten

\* A device that was lost is opened again or closed (lib.rs), and a pass
\* asked for is made (composite/mod.rs).
NothingWaitsForEver ==
    /\ which = "devices" => Devices!LostIsAnswered
    /\ which = "passes" => Passes!AskedIsMade

\* Once the hand rests a spill pass of the history comes to an end, refusals
\* of the room and lost files included (history_manager.dart, _scheduleSpill).
SpillSettles == which = "spill" => History!SpillSettles
=============================================================================
