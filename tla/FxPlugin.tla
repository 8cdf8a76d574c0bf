------------------------------ MODULE FxPlugin -------------------------------
(***************************************************************************)
(* The app's side of an fx plugin (native/fx_plugin/src): a job read and   *)
(* refused (job.rs), the one block a frame and its parts are laid in       *)
(* (frame.rs), and the room a native library's host or a module gives it   *)
(* (native.rs, wasm.rs), asked describe, reach and render (lib.rs).        *)
(*                                                                         *)
(* A laid byte is the part it belongs to and its place there; a block is a *)
(* function from places.  The plugin itself, its allocator and its memory  *)
(* are external: they may trap, refuse, or answer anything.                *)
(***************************************************************************)
EXTENDS Integers, Sequences, FiniteSetsExt

CONSTANTS Files,      \* what the app opens: whether it was given and starts, its
                      \* exports and the spec version it says
          Jobs,       \* the render jobs asked, as the app hands them
          HeadCounts, \* the value counts a reach is asked with
          Capacities, \* the room a description is asked into
          WORD,       \* bound: the largest distance a frame's word holds
          SLICE,      \* bound: the most bytes a slice can be
          MEMORY,     \* bound: the most a module's memory grows to
          None

OK == 0
BAD_JOB == -1
FAILED == -2
TRAPPED == -3
NO_ROOM == -4

-----------------------------------------------------------------------------
\* job.rs

IsWhole(p) == p.pixels /\ p.width > 0 /\ p.height > 0 /\ p.stride >= p.width * 4

IsWholeJob(j) ==
  /\ IsWhole(j.input) /\ j.output /\ j.output_stride >= j.input.width * 4
  /\ j.value_count >= 0 /\ (j.value_count = 0 \/ j.values)
  /\ \A i \in DOMAIN j.layers : IsWhole(j.layers[i])

\* mutant: every row is taken to be a stride long
SpanOfStrides(height, stride, width) == height * stride

\* The bytes rows span, first pixel to last.
Span(height, stride, width) == (height - 1) * stride + width * 4

\* Whether the job's pictures can be slices: an oversized one is a bad job.
Reads(j) ==
  /\ Span(j.input.height, j.output_stride, j.input.width) <= SLICE
  /\ \A p \in {j.input} \cup {j.layers[i] : i \in DOMAIN j.layers} :
       Span(p.height, p.stride, p.width) <= SLICE

RowBytes(p) == p.width * 4
PackedBytes(p) == RowBytes(p) * p.height

-----------------------------------------------------------------------------
\* frame.rs

FRAME == 104
IMAGE == 24
VALUE == 32
INPUT == 8
OUTPUT == 32

Align16(at) == ((at + 15) \div 16) * 16

\* Where each layer's pixels begin, from where the first do; and the end.
LayerPlaces(layers, from) ==
  LET at[i \in 0 .. Len(layers)] ==
        IF i = 0 THEN from ELSE Align16(at[i - 1] + PackedBytes(layers[i]))
  IN  at

\* mutant: the output is given the place its rows would end at unaligned
PlanUnaligned(j) ==
  LET values == Align16(FRAME)
      layers == Align16(values + j.value_count * VALUE)
      input == Align16(layers + Len(j.layers) * IMAGE)
      output == input + PackedBytes(j.input)
      pixels == Align16(output + PackedBytes(j.input))
      places == LayerPlaces(j.layers, pixels)
  IN  [values |-> values, layers |-> layers, input |-> input, output |-> output,
       places |-> places, total |-> places[Len(j.layers)]]

\* Where each part of a render's block lies from the frame.
Plan(j) ==
  LET values == Align16(FRAME)
      layers == Align16(values + j.value_count * VALUE)
      input == Align16(layers + Len(j.layers) * IMAGE)
      output == Align16(input + PackedBytes(j.input))
      pixels == Align16(output + PackedBytes(j.input))
      places == LayerPlaces(j.layers, pixels)
  IN  [values |-> values, layers |-> layers, input |-> input, output |-> output,
       places |-> places, total |-> places[Len(j.layers)]]

PlanFits(j) == Plan(j).total <= WORD

ReachSize(count) == Align16(FRAME) + count * VALUE

\* What is written: from, how many bytes, and of what.  The frame is cleared
\* first, then its head's words and values; a picture's words and its rows.
LayHead(count, values, layers) ==
  <<[at |-> 0, bytes |-> FRAME, of |-> "cleared"],
    [at |-> 0, bytes |-> 8, of |-> "spec"],
    [at |-> 56, bytes |-> FRAME - 56 - 4, of |-> <<count, values, layers>>],
    [at |-> values, bytes |-> count * VALUE, of |-> "values"]>>

Image(at, pixels, p, of) == [at |-> at, bytes |-> IMAGE, of |-> <<of, pixels, p>>]
Rows(at, p, of) == [at |-> at, bytes |-> PackedBytes(p), of |-> of]

LayReach(count) == LayHead(count, Align16(FRAME), <<0, 0>>)

Lay(j) ==
  LET plan == Plan(j)
  IN  LayHead(j.value_count, plan.values, <<Len(j.layers), plan.layers>>)
      \o <<Image(INPUT, plan.input, j.input, "image"),
           Image(OUTPUT, plan.output, j.input, "image"),
           Rows(plan.input, j.input, "input"), Rows(plan.output, j.input, "cleared")>>
      \o [i \in DOMAIN j.layers |->
            Image(plan.layers + (i - 1) * IMAGE, plan.places[i - 1], j.layers[i], "image")]
      \o [i \in DOMAIN j.layers |-> Rows(plan.places[i - 1], j.layers[i], <<"layer", i>>)]

\* The last of the writes that reaches a place, or what was there.
Written(writes, place, before) ==
  LET over == {i \in DOMAIN writes : place \in writes[i].at .. writes[i].at + writes[i].bytes - 1}
  IN  IF over = {} THEN before ELSE writes[Max(over)].of

-----------------------------------------------------------------------------
VARIABLES kind,    \* "native" or "wasm"; None where no plugin is open
          room,    \* where the block lies and its bytes; at 0 for a native one's
          memory,  \* the bytes of memory there are to lie in
          laid,    \* the block last handed to the plugin
          answer   \* what the last question was answered

NoBlock == [at |-> 0, size |-> 0, writes |-> <<>>]

FxInit ==
  /\ kind = None /\ memory = 0
  /\ room = [at |-> 0, size |-> 0]
  /\ laid = NoBlock /\ answer = OK

SPEC_VERSION == 1
Questions == {"spec", "describe", "reach", "render"}

\* A file is a plugin when it was given, starts, exports what is asked of it
\* and speaks this spec; else the handle is null, with why.
Opens(f, exports, as, bytes) ==
  /\ kind = None
  /\ IF f.given /\ f.starts /\ exports \subseteq f.exports /\ f.spec = SPEC_VERSION
     THEN kind' = as /\ answer' = OK /\ memory' \in bytes
     ELSE answer' = None /\ UNCHANGED <<kind, memory>>
  /\ UNCHANGED <<room, laid>>

OpenNative(f) == Opens(f, Questions, "native", {0})

\* A module lays in its own memory, in room its allocator gives.
OpenWasm(f) == Opens(f, Questions \cup {"alloc", "memory"}, "wasm", {64, 256})

\* A plugin's room goes with it; no plugin is none to close.
Close ==
  /\ kind' = None /\ memory' = 0
  /\ room' = [at |-> 0, size |-> 0]
  /\ laid' = NoBlock
  /\ UNCHANGED answer

\* mutant: what the module gives is taken where it says, in its memory or not
InsideUnasked(at, size, bytes) == at # 0

\* Where a module's allocator says, if it says and it is inside its memory.
Inside(at, size, bytes) == at # 0 /\ at + size <= bytes

\* Room for `size' bytes, kept for the next call: TRUE with the room, and
\* the memory the allocator left.
HasRoom(size) ==
  \/ room.size >= size /\ UNCHANGED <<room, memory>>
  \/ /\ room.size < size
     /\ \/ /\ kind = "native"
           /\ room' = [at |-> 0, size |-> Align16(size)]
           /\ memory' = Align16(size)
        \/ /\ kind = "wasm"
           /\ memory' \in {memory, MEMORY}
           /\ \E at \in {0, 16, 160} :
                Inside(at, size, memory') /\ room' = [at |-> at, size |-> size]

\* None is given: the machine has none, or the module gives none inside.
HasNoRoom(size) ==
  /\ room.size < size
  /\ answer' = NO_ROOM /\ laid' = NoBlock
  /\ memory' \in IF kind = "wasm" THEN {memory, MEMORY} ELSE {memory}
  /\ UNCHANGED room

Traps == IF kind = "wasm" THEN {TRAPPED} ELSE {}

BadJob == answer' = BAD_JOB /\ UNCHANGED <<room, memory, laid>>

\* A description is written in place by a library, in the room by a module.
Described(capacity) ==
  \/ /\ kind = "native"
     /\ answer' \in {OK, capacity, capacity + 1} /\ laid' = NoBlock
     /\ UNCHANGED <<room, memory>>
  \/ /\ kind = "wasm" /\ HasRoom(capacity)
     /\ laid' = [at |-> room'.at, size |-> room'.size,
                 writes |-> <<[at |-> 0, bytes |-> capacity, of |-> "words"]>>]
     /\ answer' \in {OK, capacity + 1} \cup Traps
  \/ kind = "wasm" /\ HasNoRoom(capacity)

Describe(capacity) ==
  /\ UNCHANGED kind
  /\ IF kind = None \/ capacity <= 0 THEN BadJob ELSE Described(capacity)

Reached(count) ==
  \/ /\ HasRoom(ReachSize(count))
     /\ laid' = [at |-> room'.at, size |-> room'.size, writes |-> LayReach(count)]
     /\ answer' \in {OK, 7} \cup Traps
  \/ HasNoRoom(ReachSize(count))

Reach(count) ==
  /\ UNCHANGED kind
  /\ IF kind = None \/ count < 0 THEN BadJob ELSE Reached(count)

Render(j) ==
  /\ UNCHANGED kind
  /\ IF kind = None \/ ~IsWholeJob(j) \/ ~Reads(j) \/ ~PlanFits(j) THEN BadJob
     ELSE \/ /\ HasRoom(Plan(j).total)
             /\ laid' = [at |-> room'.at, size |-> room'.size, writes |-> Lay(j)]
             /\ answer' \in {OK, FAILED} \cup Traps
          \/ HasNoRoom(Plan(j).total)

FxNext ==
  \/ \E f \in Files : OpenNative(f)
  \/ \E f \in Files : OpenWasm(f)
  \/ Close
  \/ \E capacity \in Capacities : Describe(capacity)
  \/ \E count \in HeadCounts : Reach(count)
  \/ \E j \in Jobs : Render(j)

-----------------------------------------------------------------------------
\* Every byte a question lays for the plugin is in the room it holds, and
\* the room is in the memory there is, whatever the module's allocator
\* answered and whatever was asked before; a plugin closed keeps neither.
LaidInTheRoom ==
  /\ kind = None => memory = 0 /\ laid = NoBlock
  /\ room.at + room.size <= memory
  /\ \A i \in DOMAIN laid.writes : laid.writes[i].at + laid.writes[i].bytes <= laid.size

\* The parts of a block are each on 16 bytes, none on another, and all the
\* pictures' words are in the frame.
PartsLieApart(j) ==
  LET plan == Plan(j)
      parts == {<<0, FRAME>>, <<plan.values, j.value_count * VALUE>>,
                <<plan.layers, Len(j.layers) * IMAGE>>, <<plan.input, PackedBytes(j.input)>>,
                <<plan.output, PackedBytes(j.input)>>}
               \cup {<<plan.places[i - 1], PackedBytes(j.layers[i])>> : i \in DOMAIN j.layers}
  IN  /\ \A p \in parts : p[1] % 16 = 0 /\ p[1] + p[2] <= plan.total
      /\ \A p, q \in parts : p[1] < q[1] => p[1] + p[2] <= q[1]

\* A frame keeps nothing of the one laid before it in the same room: a
\* reach's images are empty, and a render's output is cleared.
FrameKeepsNothing(j, count) ==
  LET after(place) == Written(LayReach(count), place, Written(Lay(j), place, "stale"))
      plan == Plan(j)
  IN  /\ \A place \in INPUT .. 55 : after(place) = "cleared"
      /\ \A place \in plan.output .. plan.output + PackedBytes(j.input) - 1 :
           Written(Lay(j), place, "stale") = "cleared"
      /\ \A place \in plan.input .. plan.input + PackedBytes(j.input) - 1 :
           Written(Lay(j), place, "stale") = "input"

\* The bytes read of a picture are its rows and the padding between them:
\* every row is inside, and the last one ends there.
RowsInTheirSpan(p) ==
  /\ \A y \in 0 .. p.height - 1 : y * p.stride + RowBytes(p) <= Span(p.height, p.stride, p.width)
  /\ (p.height - 1) * p.stride + RowBytes(p) = Span(p.height, p.stride, p.width)

\* All three of every job that is laid.
BlocksHold ==
  \A j \in {k \in Jobs : IsWholeJob(k) /\ Reads(k) /\ PlanFits(k)} :
    PartsLieApart(j) /\ FrameKeepsNothing(j, 1) /\ RowsInTheirSpan(j.input)
=============================================================================
