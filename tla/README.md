# Verification of Anicel: the drawings it keeps, and the engine beneath it

Anicel is a Flutter application for hand-drawn animation over a native engine
in Rust. These modules model two halves of it:

* the Dart half where a drawing can be lost without anyone noticing: the store
  that keeps every cel's picture in one of three places, the save that writes
  the project file while the hand goes on drawing, and the undo history that
  parks pictures on disk (`lib/src/`);
* the engine: the sound device and its microphone, the mix and the decoders,
  the compressor, pens, fx plugins, movie export, display timing, the surface
  Flutter shows, and the compute kernels that composite and paint
  (`packages/gpu_engine/rust/`).

Dart paths below are relative to `lib/src/`, Rust paths to
`packages/gpu_engine/rust/native/` or, for the engine itself, to its `src/`.

## 1. Inventory

### The Dart half

| Component | State | Operations | Talks to |
|---|---|---|---|
| Cel store, `services/brush_frame_store.dart` with `persistence/scratch_cel_files.dart`, `scratch_file.dart`, `core/turns.dart`, `core/in_flight.dart`, `services/memory_pressure_budget.dart` | hot surfaces in order of use, parked cels, file refs, dirty marks and their ticks, the set of cels with content, the byte budget, the cooling pass, thaws in line | store, remove, copy, carry, resize, read, thaw ahead, cool, memory warning, adopt a save | workers (thaw, compress), the scratch room, the save, the timeline |
| Project save, `persistence/anicel_file_service.dart`, `anicel_incremental_writer.dart` | the archive's directory and bytes, the snapshot of the save, refs resolved | append, push-down in rounds, whole write and rename, adopt | the stores, its isolate, readers that hold entries |
| Undo history, `services/history_manager.dart`, `undo_surface_snapshot.dart`, `persistence/volatile_scratch_files.dart` | two stacks, a byte budget, a spill pass, the payload of each entry in memory or parked | execute, undo, redo, spill, shed, gestures | the store (puts pictures back), the room, memory warnings |
| Project file and its door, autosave, media staging, session rooms, the held descriptor, the archive's bytes | edits made and edits in the file, the failed copy, a countdown, copies waiting for a save, a locked folder | save, close, stage, sweep | the save and each other |
| Document and commands, brush and fill engines, composite plans, UI | an immutable project, pixels, widgets | pure functions | the history, the engine |

### The engine

| Component | State | Operations | Talks to |
|---|---|---|---|
| Playback transport, `audio_device/src/transport.rs`, `buffer.rs` | atomics the realtime callback and the control thread share: position, playing, lead, loop, two schedule slots, the clock's line | play, stop, seek, set_schedule, close; the callback's block | the device's thread, the mix |
| Devices and capture, `audio_device/src/lib.rs`, `backend.rs`, `capture.rs`, `null.rs` | the contexts, the open stream of each kind, the lock every door holds, the microphone's ring and its totals | open, close, lose, reopen, drain | the system's sound threads, workers |
| Mix and resampling, `audio_mix/` | none between blocks; a resampler's held window | mix a block; push, pull, finish | the transport |
| Sound decoding, `audio/`; media spans, `media/` | a reader's place, one decoded block | open, read, seek | files |
| Compression, `compress/` | tables of one frame | compress, decompress | the archive, media |
| Pens, `pen/` | a ring of late values; an observer thread and three shared words; a driver's context | note, correct, answer; start, stop, poll | UIKit, AppKit, Raw Input, Wintab |
| Fx plugins, `fx_plugin/` | a library or module, the room given to it | open, describe, reach, render | a foreign plugin |
| Movie export, `video/` | two codecs, a muxer, tracks, unheld samples | write, finish, abandon | the system's encoders |
| Display timing, `display/` | a shared timer, screens remembered, a composed visual | wait, ask, compose | Windows |
| Engine and surfaces, `src/device.rs`, `src/platform/` | the adapter, raw objects half made, the native window | open, make, present, give back | the drivers, Flutter |
| Kernels, `src/kernels/` | pages of tiles in GPU buffers, passes being compiled | composite, paint dabs and blurs, overwrite pixels, masks, floods, warps | the device's limits |
| Noise removal; timeline, export and image kernels | none between calls | one pass each | |

What is hard in this code, and what should hold:

* **Cel store.** One isolate, but every `await` is a seam: a compression or a
  thaw comes back to a store that went on. A cel's picture may exist in several
  tiers at once, and each read or drop trusts that they agree. A picture
  changes when somebody edits it, and at no other time.
* **Project save.** The snapshot is taken at once and written later. An edit
  made meanwhile must not be called saved; a ref must not be left on bytes that
  the push-down or the rename replaced.
* **Undo history.** Parking is awaited, stacks move under it; history may be
  deleted only when the room refuses.
* **Sound.** The callback may neither lock nor wait, so everything it shares is
  an atomic and every order of loads and stores can happen; a device can be lost
  at any moment, by a thread that must not close it.
* **Readers and codecs.** Work in pieces must be the work on the whole: any
  chunk size, any seek, any end, at sizes where a table or a window is exactly
  full.
* **Foreign code.** A codec, driver or plugin answers late, refuses, or answers
  nonsense, between two steps that each own something.
* **Kernels.** A device binds few pages, holds few levels and dispatches few
  groups, so every plan is cut; the cuts must not show.

## 2. Modules

| Module | Models | Lines of thought |
|---|---|---|
| `CelMap` | what the store promises: a map from cels to pictures, moved by edits | refined by `CelStore` and `ProjectSave` |
| `CelStore`, `CelStoreProofs` | the cel store: one action per operation, thaw or step of the cooling pass | proved |
| `ProjectSave`, `ProjectSaveProofs` | the save beside the live store: EXTENDS `CelStore`, one action per stretch between two awaits | proved |
| `UndoLine`, `UndoHistory`, `UndoHistoryProofs` | what a history promises, and the stacks, spill, shed and hold | proved, the refinement too |
| `AudioTransport`, `AudioTransportProofs` | the transport, each atomic load and store a step | proved |
| `AudioDevices`, `AudioDevicesProofs` | doors, contexts, loss and reopening, both kinds of stream, the null device | safety proved, liveness checked |
| `CaptureRing`, `CaptureRingProofs` | the microphone's ring, float by float | proved |
| `Resample`, `Resampler`, `ResamplerProofs` | the conversion's arithmetic, the conversion fed in pieces | proved |
| `AudioMix` | clips, fades, envelopes, the bus, the output stage | |
| `SoundDecode`, `SoundStream` | containers and decoders; one sound read on | |
| `MediaSpan` | a stored or framed medium with its one decoded block | |
| `Entropy`, `LazyMatch`, `ZstdFrame` | the zstd port, both directions | |
| `PenMachines`, `PenProofs` | the raw observer, the driver's context, late values | proved |
| `PenReport` | a report's axes | |
| `FxPlugin`, `VideoExport`, `MovieColour`, `DisplayTiming`, `EngineSurface` | as named | |
| `KernelPages`, `Composite`, `CompositePasses`, `DabKernel`, `CelPixel`, `MaskKernel` (masks, warps, floods) | the kernels' host sides and shaders | |
| `MCCelStore`, `MCProjectSave`, `MCUndoHistory`, `MCAudioTransport` | small instances of one module each | |
| `MCMachines` | instances of thirteen state machines of the engine and of the history's spill pass, one moving at a time | |
| `MCLaws`, `MCZstd`, `MCSound` | inputs for the sequential parts, each asked and answered | |

`PROJECT.json` maps the definitions that between them stand for the modelled
lines. A helper it does not name spells out part of a definition it does, within
that definition's lines.

The operators marked *Mutant* in the modules are wrong versions of one
definition each. None of them is used by a specification; the runs are repeated
with each in its place to see that the property it is listed with fails.

### CelStore, ProjectSave, UndoHistory

`hot` is `_bakedSurfaces` and `order` its insertion order, the order of use.
`cold` is `_coldCels` and `fileRef` is `_fileCels`; a ref is a file of the room
(`Park`) or a place of the project file (`Slot`), and `bytes` says what each
holds. `worn` are the names the room has given out (never twice), `leaving` the
files handed to be removed. `dirty` and `tick` are `_dirtySinceSave` and
`_editTick`; `content` is `_celsWithContent`. `cooling` is the pass: idle,
awaiting the compression of one cel's surface, or ended with its completion
callback still to run. `thawing` and `line` are the reads decoded on workers
and their turns. `filed` is what the project file holds under each cel's name;
no code reads it, `CleanIsFiled` compares with it. A picture (`Pic`) is a model
value, since nothing here depends on its pixels except whether it shows
anything (`Blank`); `Resized` is the function a canvas resize applies, in the
runs one that crops a drawn picture to a blank one. The
budget counts hot cels. Every mutating operation is one action with all it
calls, and a scheduled pass runs to its first await in the same event.

In `ProjectSave`, `entry` is the directory of the archive, `named` the places
it has used, `saving` the save under way with its snapshot (`work`, `ticks`,
`refs`), what it resolved (`got`) and the phase it waits in. A place of the
file is never named twice: writing over dead bytes ends one place and begins
another, which is what an `AnicelCelFileRef` with a new offset is. A round of
the push-down moves one entry.

In `UndoHistory`, `undo` and `redo` are the stacks, an entry the sequence of its
steps; `steps` gives each step its pair of snapshots, held, parked, or let go of
(`at`), and the places whose tiles the other half does not share (`own`).
`ahead` is a copy read early, `files` the volatile room, `spill` where
`_parkDeepEnd` stands: a position and not an entry, as in the code, and the
stacks move under it. `run` is the `HistoryRun` of the hold. The cel the steps
draw on is part of the state, since a parked picture is put together from its
own tiles and those the cel shows at that moment.

Constants fence off behaviour the code allows and which section 4 shows to
break a property; with a fence down the same module has the counterexample.
`RemovesMidSave = FALSE`: no park is removed while a save runs.
`CarriesMidWrite = FALSE`: while a whole write is under way, or an append that
has lost the refs it counts on and will turn into one (`WritesWhole`), no cel
dirtied since the snapshot is left with a file ref. `RoomFills = FALSE`: the room may refuse any
park except the second of two writes in one resize. `FilesGetLost = FALSE`: a
parked file can be read when its step comes. The runs that pass with a fence up
say: nothing else goes wrong.

### The sound device

`AudioTransport` keeps the code's atomics as variables and a program counter
for each of the two threads. All of them are sequentially consistent in the
code, so an interleaving of steps is all there is. A schedule is the set of
buffers its sources hold (`buffer.rs` counts the holds), one mixed frame is a
frame, and what comes out of the callback is remembered with the run it
belongs to. `Tries` is how often a swap looks for the callback to have left the
old slot before it leaves that slot to the next swap, 500 in the code.

`AudioDevices` models what surrounds it: `door` is who is inside a function that
holds `DEVICES` and how far, `live` the callbacks that run, `asks` the workers
asked to open a lost device again, `player`, `filled` and `ring` the memory a
callback may be reading. `PlayLooks` and `DrainLooks` are the reads made without
the lock. `CaptureRing` is the ring itself: a sample is the frame it belongs to
and its channel, so order, gaps and a lost alignment are all visible.

### Codecs, sound and media

`Entropy` to `ZstdFrame` keep the port's own layering: bit streams read backwards,
table descriptions, spreads and states, trees capped in depth, one or four
streams, sequences under three tables, matches found by two finders, blocks and
frames. Where the encoder weighs costs, any table the block may be coded under
is taken, so the law "what was written reads back" covers every choice.
`Resample.Heard` gives for an output frame the input frames it reads; the
kernel's values are left out, and that two outputs read the same inputs under
the same phase is what "the same sound" means. `AudioMix` keeps what the bus adds
up as terms in order, a quotient as numerator and denominator.

### Kernels

A pixel is what it is made of: the sequence of layers or marks laid on it, each
naming its step and the stored texels it shows. Two walks of a plan that give
one pixel the same sequence give it the same byte. Every kernel is modelled
twice: as its host side cuts the work into passes and its shader reads and
writes pages, and as the picture the plan stands for; the laws compare the two.
Tile side, page room, rounds and reach are constants, small in the runs.

## 3. Runs

| Run | Question | Instance | Distinct states | Time |
|---|---|---|---|---|
| `store` | Is the store right under every interleaving of edits, thaws, cooling and removals? | 2 cels, 2 edits, a room of 2 names | 1,281,817 | 70 s |
| `resize_unseen` | Does every surface the store replaces run the detector? (no: finding 5) | as `store` | | |
| `store_live` | Does every cooling pass and every thaw end? | the same, fair | 396,119 | 60 s |
| `save` | Does a save keep the store right and file what it began with? | 2 cels, 5 or 6 places, up to 2 edits about 1 or 2 saves | 1,511,984 | 120 s |
| `save_let_go` | Is a cel without a mark in the file? (no: finding 1) | a park may go while a save runs | | |
| `undo` | Are the stacks a line of pictures, and the room exact? | 2 places; cap 2, 3 edits, and cap 3, 4 edits | 1,031,513 | 90 s |
| `undo_stale` | Does the budget delete only if the room refused? (no: finding 2) | as `undo` | | |
| `transport` | Does the callback keep to what the control thread wrote? | 2 callbacks, 4 calls, 1 buffer | 9,514,741 | 95 s |
| `transport_slot` | Does a slot stand while it is mixed? (no: finding 3) | 4 calls of one schedule | | |
| `machines` | Does each other state machine of the engine keep its word, and every spill pass end? | fourteen machines, one at a time | 241,406 | 150 s |
| `laws` | Is each algorithm what it is for? | every boundary of 30 kinds of input | 395,581 | 85 s |
| `export_format` | Does every format change add its track? (no: finding 4) | 2 frames, 1 unit of sound | | |

A violation run stops at its counterexample; the others explore everything.
Times are of two workers.

### What the properties say

Of the store: `KeptReadable`, a ref kept is a picture that can be read;
`TiersAgree`, two copies of a cel are one picture; `CleanIsFiled`, a cel
without a mark is in the project file as it is shown; `NoOrphanPark`, each file
of the room has a cel or is on its way out; `OrderIsHot`, the order of use
lists the hot cels; `ContentFollows`, no block reads empty over a drawing, and
on every road but the rewrite of kept bytes a cel that begins or ceases to show
something is remembered as it then is (that no road forgets is `ContentKnown`,
finding 5); `GrowthIsTended`, no step leaves the hot tier over its budget without a
pass or a room that refused; `ImplementsCelMap`, only edits change what is
read; `CoolingSettles` and `ThawEnds`, liveness.

Of the save: `SaveIsSound` is the store's own invariants at every moment of a
save, and `FiledInPlace`, each clean ref is where the directory says;
`SnapshotFiled`, a save that lands files the project as it was when it began.
Of the history: `RoomIsExact`, the room has a file for each parked picture and
no other; `OverByNewestOnly`, at rest only the newest entry may be over the
budget; `RunKeepsToItsOwn`, a hold takes back and folds its own steps only;
`ImplementsUndoLine`, the stacks are a line of pictures.

Of the transport: `HoldsAddUp`, a buffer is held exactly as often as slots name
it; `ClockIsOnTheLine`, the point the clock answers lies on the line the
callback last drew for the run, until that run is taken back to its start;
`LeadIsSilent`, no frame of an earlier run sounds in a lead; `SeekStands`, a
seek is not written over by a step of a block that began before it;
`EndsOnlyItself`, a run that runs out stops itself and no later run.

Of `machines`: `InOrder` and `FramesWhole` of the ring; `DevicesAgree`, at most
one callback of a kind runs for a door's stream, and doors, flags and memory
agree; `CallbackEndsFirst`, a close, or a reopening that fails, frees the
slots or the ring only once the callback of its kind has ended (a swap of the
schedule is finding 3, a drain that looked before the close is in section 4);
`PiecesAreTheWhole`, a capture's clock point, a medium's span and a
sound read in any pieces are what was there, and a read inside the block decoded
last does not touch the file; `PensKeepTheirWord`, late values
reach their own sample, a stop that waited its observer out leaves nothing of
the pen, one driver context is open; `EngineKeepsItsWord`, a plugin's block lies in its room,
an export's samples reach the file whole and in order, waits are not early and
screens not stale, a picture shown is the one written since the last was, each
step of a surface that fails gives back what the steps before it took (`arms`:
the giving back is the error arm of each step, and a texture whose arm forgets
one is among the mutants), no pass asked for is forgotten; `NothingWaitsForEver`, a lost device is opened again or closed, a
pass asked for is made; `SpillSettles`, once the hand rests a spill pass of the
history ends, refusals and a lost file included.

Of `laws`: `CodecReadsBack`, `SoundIsTheFiles`, `WritesTheWhole` and
`HoldsItsFilter` (the resampler in pieces), `MixIsItsWindow`, `ReadingsHold`
(pen reports, movie colours and clocks, sound descriptions), `KernelsAgree`.
Each is a family of laws, one per kind of input, stated beside the module it is
about: a law for a composite, say, is `CutsChangeNothing` of `Composite`. They are
stated as `<>`: a call that returns has the right answer in the end, so that TLC
works each law out once.

### Bounds, and why they are enough

Two cels are the fewest for carrying, copying and cooling one while another
stays; two edits are the fewest for an edit to outrun something. The room gives
out two names and then refuses, so refusal is part of every run. In `save` the
constraint `Few` splits the space by what is asked: two edits about one save,
one about two saves, worker thaws of one cel with one of each; a save alone has
five places, the second a sixth. `undo` runs two instances: a short history (cap 2, an eraser, walks back, memory
warnings) and a long one (cap 3, four edits, from the third on over the whole
cel) that reaches past the deep end while a write is awaited. `MaxEdits`,
`MaxSaves` and `MaxWalks` are guards of the edits.

In `transport` two callbacks of one-frame blocks meet four calls; a call can
begin in one block and end in the next, which is what every race found needed.
One buffer and `Tries = 2` let a swap be taken, refused and waited for. In
`machines` the ring holds two frames of two channels and is filled past its
end, wrapped and drained by odd amounts; a device is opened twice, by a call
or again after it was lost; a span has three blocks, read twice at any place, one not decoding; a
ledger of two records takes three samples; an observer is started again over
the thread a stop left behind; the tablet's queue is longer than a poll's room;
the export has two frames and one unit of sound, fewer than a codec's delay;
five walks ask for six passes; the spill passes work on a stack of three over
three edits with a memory warning, nothing held, and at most one file of the
stacks' pictures missing at a time.

In `laws` the constants stand for the code's: `BlockMax` 128 for 128 KiB, tiles
of 2 by 2, levels 2 or 3, pages of two slots, rounds of two. The inputs hold
each boundary: empty, one, exactly full, one over; every plane of six pixels;
maps that move, scale, turn and shear; plans nested deeper than a pass holds;
a mask whose buffer is torn, a plan larger than the room of a narrow card,
surfaces of a format that cannot be stored to, rectangles past the screen's edge.
A mesh, blur or flood is compared with a definition that has no pass in it.

### Fairness

`FairSpec` of `CelStore`: weak fairness of the cooling pass's steps, of the turn
a finished thaw hands on and of each worker's answer. Dart's event loop runs
every completed future's callback, and the workers are isolates that end with
an answer or an error; nothing is assumed of edits, reads, memory warnings or
the removal of files. `UndoHistory`, in `machines`: weak fairness of `Land`,
whatever the answer is. `AudioDevices!Fairness`: weak fairness of the step inside a door (no
code waits for a device's thread or for Dart while it holds the lock), and
strong fairness of each worker that asked to reopen, since the lock lets a
waiter in again and again but other doors may be entered between.
`CompositePasses`: weak fairness of the compiling thread. `MCLaws`: weak fairness
of its step, since a call of these algorithms returns. The runs with the
deadlock check off have it off because a session may simply stop.

## 4. Findings

1. `save_let_go`, `CleanIsFiled`. A dirty parked cel is read while a save runs:
   it is promoted and its park let go. If the file is gone before the save's
   isolate reads it (`anicel_file_service.dart:162`), the cel is left out of the
   file, and as no edit moved its tick, adopting the save clears its mark. The
   cel is now clean and not in the file, against
   `brush_frame_store.dart:766-767`: "Marks are removed when their edit is
   adopted into a save, so the map holds only unsaved work."
2. `undo_stale`, `UndoShedOnlyIfRefused`. `_parkDeepEnd`
   (`history_manager.dart:422`) keeps an index into a stack that edits, undos
   and the depth cap move while a park is awaited. It steps over entries nobody
   parked, finds nothing more to move, weighs no less than when it began, and
   deletes deep undo entries though the room took every write.
   `history_manager.dart:313-314`: "Deleting is what happens when the room
   refuses, and only then."
3. `transport_slot`, `SlotStandsWhileMixed`. The callback loads the active
   slot's number and then says it, in two steps (`audio_device/src/transport.rs:319-320`).
   A swap between them sees the word of an earlier block, which after two swaps
   is the new slot's number, and frees or refills the slot the callback is about
   to mix: two swaps within one pause of the callback, between its two lines.
   `transport.rs:359`: "the handshake below makes the free safe in every case".
4. `export_format`, `FormatsAreTracks`. The wait at the end of an Android export
   dequeues for itself (`video/src/export/android.rs:468-479`) and drops an
   `OUTPUT_FORMAT_CHANGED` it meets: that codec's track is never added, the muxer
   never starts and the finish fails, for a short movie whose encoder speaks
   late. The header (`android.rs:8-11`) tells of the same fault as repaired.
5. `resize_unseen`, `ContentKnown`. A canvas resize rewrites the cels parked in
   the room or kept in the project file (`_rewriteKeptCels`,
   `brush_frame_store.dart:2289`) without running the detector, which the hot
   cels of the same resize do run (`:2228`). A kept cel whose lines are all
   cropped away is still remembered as drawn. `brush_frame_store.dart:403-404`:
   "So every surface this store replaces runs the detector — a way of emptying a
   cel that skips it leaves a block white over nothing."

Met on the way, and not kept as runs.

Of the Dart half:

* With `CarriesMidWrite = TRUE`, `KeptReadable` fails: a cel carried or copied by
  its file ref while a whole write runs is dirty when the write is adopted, is
  not given the new file's ref (`anicel_file_service.dart:1453`), and reads the
  old layout's offset; `brush_frame_store.dart:1940-1942` says that "reads
  through a moved ref stay valid meanwhile". The same can happen during what
  began as an append: re-homing may put a clean cel's shared ref on the entry of
  another cel, the next save then finds its refs unbacked and writes the whole
  file, with the carries that came before it. The bounds of `save` do not reach
  it; the invariant below did.
* With `RoomFills = TRUE`, `TiersAgree` fails: a resize rewrites the park of a
  cel that is also file-backed, the room refuses the second write, and the old
  picture stays under the file ref (`brush_frame_store.dart:2289`).
* A cel touched while its compression is awaited is parked although it is now
  the newest (doc at `:1671-1672`). No picture is at stake.
* `keepsSince` and `foldSince` (`history_manager.dart:723`) compare lengths; at
  the depth cap the length stands still, so a hold's own steps are not taken
  back and not folded, although `retractSince` answers "False when the gesture
  has nothing of its own left to take" (`:706-707`).
* One undone edit heavier than the whole budget is deleted from redo at the end
  of a pass that the room did not refuse (`history_manager.dart:440`).
* With `FilesGetLost = TRUE`, `ImplementsUndoLine` fails: after an undo whose
  file is gone the next parked picture is put together over a cel it was not
  measured against (`undo_surface_snapshot.dart:475`, doc at `:328-331`).

Of the sound device, read off the model:

* A drain reads the ring after it has looked at the open flag
  (`capture.rs:148-171`), so a close between the two pulls the ring away
  (`lib.rs:172`; comment at `capture.rs:152`); `CallbackEndsFirst` is stated of
  callbacks only.
* `transport.rs:298-301`: a seek that lands as a run runs out still ends it, and
  `transport.rs:470-471` stores a seek in the lead in two steps; a callback past
  its look at `playing` mixes fields a new `play` is still writing (`409-411`);
  a position that loops back is indistinguishable from one never moved (`226`):
  a callback about to wrap an earlier loop wins its compare-exchange if a later
  `play` or `seek` put the position at the value it loaded, and takes the new run
  back to the old loop's start. Two calls per callback do not reach it; the proof
  of `TransportClock` did, and the property says so.
* A stale device index is said to fail (`lib.rs:279-282`, `backend.rs:100-104`);
  `pick` (`backend.rs:105-122`) takes the index-th of a fresh list. The context
  is replaced under an open capture (`lib.rs:71-80`).

Of the rest: a piece the decoder could not allocate, inside a run at another
rate, is silenced ahead of the run's still-held tail (`audio/src/bundled.rs:162-175`);
an observer whose thread failed early leaves a dead handle and later starts
answer 0 until a stop, and a quit posted before the thread has a queue is lost
(`pen/src/raw.rs`); `write_audio` with a capacity under one PCM frame never ends,
and the tail of the sound is not waited for (`video`); a colour comes back from a
movie within 3, not 2; a composing kept for a window that was made anew still
answers 1 (`display`).

## 5. Proofs

`CelStoreProofs` proves nine theorems, for any sets of cels, pictures, room names
and places, any resize function, budgets and number of turns. Six hold whatever
the room refuses: `StoreTyped`, `StoreReadable`, `StoreRoom`, `StoreOrdered`,
`StoreFiled`, `StoreTended`. Three assume `~RoomFills`, the fence of section 4
that their properties need: `StoreAgrees`, `StoreContent` (`ContentFollows`, for
any resize, one that takes all of a cel's lines included) and
`StoreImplementsMap`. Few of
these are inductive. `IInv` strengthens them with what the code relies on and
states only in comments: a file on disk was given out and is one cel's park or
on its way out, never both (`ParksHold`), what a cel's ref reads is a picture
(`RefsHold`), a worker decodes what its ref still holds or a park that was
removed since, never a name given out anew (`ThawsTrue`), and the pass is idle,
ended, or compressing a picture (`HotHolds`). Agreement of the copies is claimed
of every cel no refused resize left in halves, and those are marked as edited,
which is why `StoreFiled` needs no fence. One lemma per action, under it one
step per conjunct the action can disturb; the lemmas about `CoolLoop` carry the
recursion over the order of use as a statement about every prefix it may drop.

`ProjectSaveProofs` stands on it: the store's steps are known to keep `IInv` and
what is read, so it says what else they leave alone (`DiskKept`, `NextMoves`: a
step of the store keeps the places of the file and every park that is not being
removed, and a thaw begins only at its cel's ref) and walks through the save's
own actions. `SInv` adds to `IInv`: what the directory names holds what was
filed, every ref and every worker's place was named once (`PlacesHold`), and
what each phase of a save promises the next (`PhaseHolds`): a cel not edited
since the snapshot reads as it did then, what is still to be read is still
there, the refs of the snapshot read what it saw, the entries of the cels an
append leaves alone were right, after the append the file is the snapshot, and
during a round of the push-down the entry is at two places and every ref at an
entry or at the old one. `SaveSound`, `SaveFilesSnapshot` and
`SaveImplementsMap` follow, for any number of saves, under `~RoomFills`,
`~RemovesMidSave` and `~CarriesMidWrite`: without the second a park of the
snapshot can go before it is read, without the third a ref can be left in the
old file, and section 4 has the runs. TLC had checked `SInv` on the instance of
`save` before it was proved.

`AudioTransportProofs` proves, for any schedules, runs, seeks, block sizes and
number of calls: `TransportBook`, `TransportClock`, `TransportLead`,
`TransportSeeks` and `TransportEnds`, from one inductive invariant
(`Invariance`). It says what the control thread's half-done call has still to
store and that the callback can see no more than that (`StoresLeft`), that runs
and arms are numbered upwards, so an old run's number is never asked for again
(`Numbered`), that the sequence word is odd exactly while a point is being
written and a reader that saw it even and unchanged read one point
(`PointHolds`, `ReaderHolds`), and that a point lies on its run's line unless an
earlier block took the run back to its start (`LineHolds`).

`AudioDevicesProofs` proves, for any geometries, backends, lists of devices,
number of calls and of devices lost: `DevicesTyped`, `OneCallbackAndDoorsAgree`
and `NothingFreedUnderneath`, all three from one inductive invariant
(`DevicesStand`). `DoorsAgree` says nothing of the moments a door is held, and
those are where a step fails; the invariant says them. Of a kind nobody is
inside, the flag, the device, the one stream that runs and the ring agree
(`AtRest`); of the kind whose door is held, DEVICES names no device and each
step finds exactly what it needs (`Finds`): before the front is up nothing of
the kind runs, a device about to be dropped is the only one that does, what is
started is of the geometry the front says, and slots or ring are freed after the
drop. A step inside a door leaves the other kind as it was (`Same`), so each
action is shown for one kind only (`InsideKeeps`). `Counted` bounds the opens by
the calls and the losses that asked for them, which is what keeps a stream's
number within its type. Of the constants the proofs assume that `None` is no
geometry, backend or stream and that the two bounds are naturals (`Distinct`).
TLC had checked `IInv` on the instance of `machines`. `LostIsAnswered` is
liveness and stays with TLC.

`CaptureRingProofs` proves, for any number of channels, any ring and any sizes
of buffers and drains: `RingTypes`, `RingInOrder` (what is drained is what the
callback delivered, in order and without a gap) and `RingFramesWhole` (the
totals stay whole frames when a callback finds too little room, so no later
sample changes its channel). The invariant says what each total owes the other
side: what lies between them is in the ring at its own place, two places of one
ringful differ (`Division` and the lemmas beside it), and what a thread has
loaded is at most behind, never ahead.

`ResamplerProofs` proves, for any ratio, filter and feeding: `ResamplerTypes`,
`PiecesAreTheWhole` (an output written from pieces reads the inputs the whole
conversion would) and `AllOfIt` (once the end is said and all that is ready is
taken, as many frames were written as the whole has). Base and phase of an
output are one division, so `ReadsBetween` bounds what it reads by products of
constants; what is let go of is below every later output's window, and the rest
is linear.

`PenProofs` proves the three promises of `PensKeepTheirWord`, each machine by
itself and for any constants but those named:

* `ObserverSound`, for any pens and any number of threads (`Unnamed`: no thread
  is none of them). While none has outlived its stop, a thread that lives is the
  one kept or the one a stop waits for (`OneOwned`), so a thread that still
  writes the words is never one whose stop is over; and a stop that was waited
  for leaves its words cleared (`Stopping`). `strayed` is what lets go of both:
  after two seconds without an answer the code keeps nothing of the thread.
* `TabletOneContext`, for any room, any queue and whatever the driver claims to
  have given (`Drives`: no context is no number). What was read and what is
  still queued rise, and all of the one comes before all of the other
  (`PacketsInOrder`); a poll moves a front of the queue behind what was read.
* `LedgerTellsThePlatformsWord`, for a ring of any length and any notes and
  corrections (`Records`: the ring has a place, and an empty place is no record,
  value or number). The b-th record back tells of the b-th sample back what the
  platform says of it by now (`BackFits`), and none is further back than there
  are samples. A record taken in moves every other one place back on the ring
  (`RecordKeeps`), a correction changes the record of its number alone
  (`UpdateTouchKeeps`), and what is found first from the newest back is the
  newest sample of the stamp (`Found`).

TLC had checked the three invariants on the instance of `machines`.

`UndoHistoryProofs` proves, for any finite set of places, any strokes, caps,
budgets and number of edits: `HistoryTyped`, `HistoryRoom` (under
`~FilesGetLost`: the room has the file of each parked picture of the stacks and
no other), `HistoryRuns` (a hold takes back and folds its own steps only), and
the two told of below. The inductive invariant `IInv` says more than those three:

* No step is in two entries (`Apart`). Without it an entry that is dropped could
  take a file another entry still needs, and a fold could hide a foreign step.
* What `redo` holds fits on `undo` beside what is there (`StacksFit`), so a redo
  never makes the stack deeper than the cap though it asks nobody; a walk back
  has no steps and needs no room.
* A pass that waits has its file's step among the snapshots, held and with tiles
  (`PassFits`), through everything the stacks do meanwhile: an undo or a read
  ahead may only make a half held again, never let it go.
* A hold counts its pushes and its take-backs so that the stack above its depth
  is no longer than their difference, and where it has pushed as often as it has
  steps, every entry above that depth is its own (`RunFits`). Entries that fall
  off the deep end only move its own ones below the depth.
* The files are among the parked halves, and all of them where none is lost
  (`Exact`).

What an operation gives to the trim (`Given`) and what the trim leaves
(`Left`: each stack less some entries of its deep end, never the top of `undo`)
are the interface between the operations and the pass, so each half of the proof
is done once: `TrimHolds` and `LandsHolds` go through the walk, the parking, the
standing down and the shed, and one lemma per action the rest. TLC had checked
`IInv` on the instance of `undo`, with files that get lost and without. The
halves of an entry are put back one after another by a recursive function;
that what each leaves is kept by all is shown by the least number at which it
would fail (`NatLeast`, `Iterates`).

`HistoryBudget` (`OverByNewestOnly`, for any budgets, `Tight` above `Normal`
included) stands on `BInv` beside `IInv`: what a pass was begun with is a number,
a warning stands only where it lowers the budget, and where no pass is under way
the stacks weigh no more than the budget or exactly what the newest entry does.
A stack is weighed through the tiles its steps have in memory (`Tiles`, `Weigh`):
steps apart weigh what they weigh together, more steps no less, and steps without
a tile can be left out. From these: `ShedCount` gives back what was asked for or
all but what is kept (`ShedCountPays`), so a shed ends within the budget or with
the newest entry alone (`ShedRests`); a pass that ends without standing down has
weighed the stacks itself (`ProceedRests`); and every operation that adds a tile
trims, or leaves a pass to. A fold only puts more steps into the newest entry, and
a step taken back by a hold only takes weight away.

`HistoryIsALine` (`ImplementsUndoLine`) proves the refinement of `UndoLine`,
under `~FilesGetLost`; section 4 has the run that shows the hypothesis is
needed. `PInv` adds to `IInv` what the pictures have to do with each other:

* Each entry of `undo` was made on the picture the one before it left, the top
  one left what the cel shows, and `redo` leads on from there, a walk back
  showing nothing (`Past`, `Future`). This is what an entry's place in the stack
  means, and no single operation states it.
* The halves of a step own the tiles the other has not (`Sided`). So a picture
  assembled from its own tiles and those the cel shares with it is the picture
  itself, as long as the cel shows the other half; and by the chain it does,
  step after step through an entry (`Walks`, `PutBackShows`).
* A hold that has pushed leaves nothing ahead, so a step it takes back is the
  last picture of the line and none is cut from its middle.

That parking, reading back and ahead, a warning and a shed change no picture and
no ownership is one relation between snapshots (`Alike`); what a trim leaves of
the stacks (`Left`) is then a line forgotten at its ends (`LeftShows`), and each
action adds its one move of the place shown (`UndoShows`, `RedoShows`,
`DrawShows`, `TakeBackShows`, `EndRunShows`, `EmptiedShows`). A fold joins the
entries of a hold; that the joined entry leads from the first one's picture to
the last one's is `FlattenJoins`. TLC had checked `PInv` on the instance of
`undo`.

Only model-checked: the machines of the engine except the transport, the devices,
the ring and the pens, and the laws except the resampler's. Liveness and ENABLED are out of the
prover's reach. The laws are about operators declared RECURSIVE over data, which
the prover does not take; the library's induction theorems have an operator as a
parameter, which the installed provers cannot instantiate; `SoundStream` is such
a machine. The rest live in modules without RECURSIVE operators and could be
proved about next (`MediaSpan` of `PiecesAreTheWhole`, `EngineKeepsItsWord`).

## 6. Not modelled, and why

* **Store.** The anchored resize (`adoptCutCanvasSize`, `brush_frame_store.dart:1985`,
  which throws between two cels when one's bytes are gone), undo groups'
  canonical keys, display caches, cels trimmed with their cut.
* **Archive.** That a crash at any write of the append or of the push-down
  (`anicel_incremental_writer.dart:1228`) leaves a file whose last complete
  directory names live bytes needs a model of bytes. Media entries, readers
  that hold an entry in place, the coordinated swap.
* **History.** Commands that keep no pictures, steps over several cels, the
  places and wait windows stamped on entries, `HistoryRun.adopt`, a new
  `byteBudget` while the app runs, the rail sweep and imports.
* **Door, autosave, rooms, staging, handle.** One isolate's guards around I/O;
  next in the plan. Documents, commands and widgets are pure or glue.
* **Sound.** The peaks, a lead's length, device descriptions and latencies, the
  null device's pacing; the numbers of the resampler's window, floating
  rounding; the bundled decoders' own signals.
* **Compression.** The content hash stands for itself; there are no
  dictionaries in the code.
* **Platforms.** Apple's runtime hooks, driver loading, Media Foundation's sink
  writer and start-up, the reading of vertical blanks: no state of their own.
* **Kernels.** The formulas a pixel is worked out by - blends, coverage, edges,
  opacity, the bilinear read - are marks; a blur's pixel is one channel; the
  chain's lens and line operations and the iris are left out; a cel pixel
  verb's buffer-size refusals and its selector tables' words; of a warp only
  the nearest and the whole-pixel read, no blend and no homography.
* **Noise removal** is a network of floating numbers, most of its source
  weights. **Timeline, export and image kernels** are one dispatch over one
  picture each.

The components' status and the reasons are in `PROJECT.json`.

## 7. Plan

Done, in this order: the store and its proofs, the save, the history; the sound
devices, their ring and the pens with proofs; the resampler with proofs; readers,
codecs, plugins, export, display, surfaces; the kernels. What would come next:

1. `ArchivePack`: append and push-down on a file of small units with a crash
   between any two writes; theorems that a planned move never overlaps a live
   span of the committed directory.
2. `ProjectFileDoor` and autosave: the edit count a save is clean as of, at most
   one writer, the failed copy, the coordinated swap.
3. Proofs: the promises of the engine's surfaces and of a medium's one block.
4. The chain's lens and line operations, the rest of the warp.
