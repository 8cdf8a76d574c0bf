------------------------------- MODULE MCLaws -------------------------------
(***************************************************************************)
(* The native engine's sequential parts on small inputs: a behaviour is    *)
(* one input asked and answered, or the resampler fed one sound in pieces  *)
(* (Resampler).  The codec (MCZstd), the decoders (MCSound), the mix, the  *)
(* pens' reports, the movies' samples and the host sides of the kernels    *)
(* return, and what they return is right: a law is a property of the       *)
(* behaviour, worked out once for its input.                               *)
(***************************************************************************)
EXTENDS Resampler, Sequences, FiniteSets

CONSTANTS None, Corrupt, TooSmall

VARIABLES
    input,     \* what is asked
    answered   \* whether it was

Codec == INSTANCE MCZstd WITH
    BlockMax <- 128, Extra <- 64, Stride <- 4, Gap <- 48, TagValues <- 4, WindowLogMin <- 8
Sound == INSTANCE MCSound WITH Capacity <- 2, Half <- 2
Mix == INSTANCE AudioMix
Pen == INSTANCE PenReport
Colour == INSTANCE MovieColour WITH Ticks <- 10000, Micros <- 1000
Pages == INSTANCE KernelPages
Cel == INSTANCE CelPixel WITH Side <- 2, Fine <- 4, LastStop <- 3, Reach <- 8
Dab == INSTANCE DabKernel WITH
    Side <- 2, Fine <- 4, LastStop <- 3, Reach <- 8, Kept <- 3, Room <- 16, Along <- 2, MostStrips <- 2, MostInTurn <- 5
Comp == INSTANCE Composite WITH TileSide <- 2, Depth <- 8
Flood == INSTANCE MaskKernel WITH Q <- 4, Canvas <- 8, Side <- 2, Rounds <- 2

-----------------------------------------------------------------------------
(* The mix: clips in and out of their sources, their fades and envelopes.   *)
Clips ==
    [start : {-2, 1}, end : {2, 4}, source_offset : {0, 2}, gain : {2}, fade_in : {0, 2}, fade_out : {0, 3},
     fade_curve : {0, 1}, source_index : {-1, 0, 1}, envelope_offset : {-1, 0, 1}, envelope_count : {0, 2, 3}]
PlainClips == {clip \in Clips : clip.source_index = 0 /\ clip.fade_curve = 0 /\ clip.envelope_offset >= 0}
Source(start, length, channels) ==
    [start |-> start, length |-> length, channels |-> channels, samples |-> TRUE]
Key(sample, gain) == [sample |-> sample, gain |-> gain]
SomeKeys == <<Key(0, 1), Key(3, 5), Key(3, 2)>>
Ordered(keys) == \A i \in 1..Len(keys) - 1 : keys[i].sample <= keys[i + 1].sample
Envelopes == {keys \in UNION {[1..n -> [sample : {0, 2, 3}, gain : {1, 4}]] : n \in 0..4} : Ordered(keys)}

MixAsks ==
    [kind : {"join"}, clip : Clips, source : {Source(0, 3, 1), Source(1, 3, 2)}, channels : 1..3]
    \cup [kind : {"window"}, clip : PlainClips, position : -1..3, window : {<<0, 2>>, <<1, 2>>, <<3, 1>>},
          channels : {1, 2}]
    \cup [kind : {"envelope"}, keys : Envelopes, position : -1..4]
    \cup [kind : {"output"}, raw : {-32768, -1, 0, 1, 32767, 77}]

MixHolds(ask) ==
    CASE ask.kind = "join" ->
           Mix!BlocksJoin(<<ask.clip>>, <<ask.source, Source(0, 0, 1)>>, SomeKeys, -1, ask.channels, 4)
      [] ask.kind = "window" ->
           LET source == Source(0, 4, ask.channels)
           IN Mix!WindowIsTheSource(ask.clip, source, SomeKeys, ask.position,
                                    Mix!Window(source, ask.window[1], ask.window[2]))
      [] ask.kind = "envelope" -> Mix!EnvelopeIsBetween(ask.keys, ask.position)
      [] ask.kind = "output" -> Mix!OutputGivesBack(ask.raw)

-----------------------------------------------------------------------------
(* The pens: angles in thousandths of a degree, axes of few bits.           *)
Angles == {-200000, -90000, -18005, -5, 0, 5, 89996, 90000, 359996, 360004, -360001}
Axis(system, length) ==
    [bit_size |-> 4, logical_min |-> -8, logical_max |-> 7, physical_min |-> -9, physical_max |-> 9,
     system |-> system, length |-> length, units_exp |-> 0]
Axes ==
    [bit_size : {4, 8}, logical_min : {-8, 0, 3}, logical_max : {0, 7}, physical_min : {-9, 0, 5},
     physical_max : {0, 9}, system : {2, 3, 4}, length : {0, 1}, units_exp : {0, 1, 14}]
Ranges == [min : {-8, -3, 0, 1, 7}, max : {-8, -1, 0, 2, 7}]
Ats == SUBSET {"x", "y", "twist"}
PenAsks ==
    [kind : {"pose"}, tilt : {None} \cup (Angles \X Angles), twist : {None} \cup Angles]
    \cup [kind : {"counter"}, sequence : {0, 5, 2^24 - 1, 2^24, -1, 2147483646}]
    \cup [kind : {"axis"}, axis : Axes]
    \cup [kind : {"lean"}, hid : [caps : BOOLEAN, value : BOOLEAN],
          device : UNION {[at -> {Axis(2, 1), Axis(2, 0)}] : at \in Ats},
          report : {[declared |-> declared, usages |-> <<>>, values |-> [u \in at |-> 3]] :
                       declared \in BOOLEAN, at \in Ats}]
    \cup [kind : {"reports"}, size : 0..8, hid : BOOLEAN, count : 0..3, stride : 0..3]
    \cup [kind : {"scales"}, pressure : {None} \cup Ranges,
          orientation : {None} \cup (Ranges \X Ranges \X {[min |-> 0, max |-> 7], [min |-> -8, max |-> 7]})]

PenHolds(ask) ==
    CASE ask.kind = "pose" -> Pen!PoseReadsBack(ask.tilt, ask.twist)
      [] ask.kind = "counter" -> Pen!CounterIsSeen(ask.sequence)
      [] ask.kind = "axis" -> Pen!AxisKeepsItsRange(ask.axis)
      [] ask.kind = "lean" -> Pen!LeanIsBoth(ask.hid, ask.device, ask.report)
      [] ask.kind = "reports" -> Pen!ReportsLieInside(2, ask.size, ask.hid, ask.count, ask.stride)
      [] ask.kind = "scales" -> Pen!ScalesAreWhole(ask.pressure, ask.orientation, 4)

-----------------------------------------------------------------------------
(* Movies: frames of any size and colour, clocks that do not divide, sound  *)
(* descriptions.                                                            *)
Levels == {0, 3, 20, 64, 90, 128, 200, 255}
Picture(width, height, colour(_)) ==
    [width |-> width, height |-> height, at |-> [p \in (0..width - 1) \X (0..height - 1) |-> colour(p)]]
Checked(p) == IF (p[1] + p[2]) % 3 = 0 THEN <<200, 100, 50>> ELSE <<10, 20, 240>>

Descriptions ==
    [kind : {"twos", "raw", "in24", "fl32", "lpcm", "mp4a"}, version : {0, 1, 2}, have : {20, 30, 44, 64},
     channels : {0, 2}, rate : {0, 5}, bits : {8, 12, 24}, flags : SUBSET {"float", "big", "signed", "planar"},
     packet : {2, 6, 8}, enda : {[at |-> None, value |-> 0], [at |-> "own", value |-> 1]}, reference : {1}]
Good ==
    [kind |-> "twos", version |-> 0, have |-> 28, channels |-> 2, rate |-> 5, bits |-> 16, flags |-> {},
     packet |-> 0, enda |-> [at |-> None, value |-> 0], reference |-> 2]
References == {None} \cup UNION {[1..n -> [self : BOOLEAN]] : n \in 0..2}
Movies ==
    [entry : {d \in Descriptions : d.kind = "lpcm" \/ d.flags = {}}, entries : {<<1>>},
     references : {None, <<[self |-> TRUE]>>}, times : {<<>>}, scale : {5}]
    \cup [entry : {Good}, entries : {<<>>, <<1>>, <<1, 2>>}, references : References,
          times : UNION {[1..n -> {1, 2}] : n \in 0..2}, scale : {5, 10, 12}]

Rates == {[num |-> 24, den |-> 1], [num |-> 30000, den |-> 1001], [num |-> 120, den |-> 1]}
MovieAsks ==
    [kind : {"flat"}, colour : Levels \X Levels \X Levels, semi : BOOLEAN]
    \cup [kind : {"checked"}, width : 1..5, height : 1..4, semi : BOOLEAN]
    \cup [kind : {"clock"}, fps : Rates, chunks : [1..3 -> {1, 7, 100}], rate : {7, 44100, 48000}]
    \cup {[kind |-> "description", of |-> movie] : movie \in Movies}

\* A colour comes back within 3 of what it was: the rounding of both ways.
MovieHolds(ask) ==
    CASE ask.kind = "flat" -> Colour!FrameReadsBack(Picture(1, 1, LAMBDA p : ask.colour), ask.semi, 3)
      [] ask.kind = "checked" -> Colour!FrameReadsBack(Picture(ask.width, ask.height, Checked), ask.semi, 3)
      [] ask.kind = "clock" ->
           /\ Colour!ClockHolds(ask.fps, ask.chunks, ask.rate, 3)
           /\ \A bps \in {0, 8000000} :
                Colour!JobsAreTaken(bps, [width |-> 16 * ask.chunks[1], height |-> 16], [num |-> 24, den |-> 1])
      [] ask.kind = "description" -> Sound!ReadIsNotNoise(ask.of)

-----------------------------------------------------------------------------
(* Pages, passes and writes.                                                *)
Devices == [binding : {4, 9}, buffer : {6, 20}, groups : {2, 5}, storage : {2, 4, 6}, every : {3, 5, 8}]
Store == [p \in 1..2 |-> [s \in 0..1 |-> p + s]]
PageAsks ==
    [kind : {"runs"}, pages : [1..5 -> {None, 1, 2, 3}], perPass : {1, 2}, most : 1..3,
     rows : {[i \in 1..5 |-> None], [i \in 1..5 |-> i \div 2], <<3, 1, 2, 2, 5>>}]
    \cup [kind : {"device"}, device : Devices, own : [storage : {2, 3}, uniform : {0, 1}], per : {0, 2, 3},
          pages : {<<1, 2, 3, 1, 2, None, 4>>, <<1, 1, 1, 1, 1>>}]
    \cup [kind : {"write"}, put : [1..3 -> 0..2], places : [1..3 -> {None} \cup [page : 1..2, slot : 0..1]],
          perPass : {1, 2}, most : 1..3]
    \cup [kind : {"texture"}, width : 1..4, height : 1..3, align : 1..4]

PagesHold(ask) ==
    CASE ask.kind = "runs" -> Pages!RunsAreTheFewest(ask.pages, ask.rows, ask.perPass, ask.most)
      [] ask.kind = "device" -> Pages!PassesFitTheDevice(ask.device, ask.own, ask.per, ask.pages)
      [] ask.kind = "write" -> Pages!WriteSettles(Store, ask.put, ask.places, ask.perPass, ask.most)
      [] ask.kind = "texture" ->
           Pages!ReadsUnpadded([width |-> ask.width, height |-> ask.height,
                                texels |-> [i \in 1..ask.width * ask.height |-> i]], ask.align)

-----------------------------------------------------------------------------
(* Composites: two tile sets over a sheet of three tiles, their layers      *)
(* moved, scaled, turned and sheared, masked and nested.                    *)
Sheet == [p \in 1..3 |-> [s \in 0..1 |-> [t \in 0..3 |-> p * 100 + s * 10 + t + 1]]]
At(page, slot) == [page |-> page, slot |-> slot]
Sets ==
    << [x0 |-> 0, y0 |-> 0, columns |-> 2, rows |-> 2, tiles |-> <<At(1, 0), At(2, 0), At(3, 0), None>>],
       [x0 |-> -1, y0 |-> 0, columns |-> 2, rows |-> 1, tiles |-> <<At(2, 1), At(1, 1)>>] >>
Map(a, b, c, d, affine) == [a |-> a, b |-> b, c |-> c, d |-> d, e |-> a, f |-> 0, affine |-> affine]
Turned == [a |-> 0, b |-> -2, c |-> 3, d |-> 2, e |-> 0, f |-> 0, affine |-> TRUE]
Maps == {Comp!Moved(0, 0), Comp!Moved(1, 0), Comp!Moved(-1, 1), Map(4, 0, 0, 0, TRUE), Map(2, 0, 1, 0, TRUE),
         Turned, Map(2, 0, 0, 0, FALSE)}
Row(set, map, masked) == [kind |-> "row", set |-> set, map |-> map, masked |-> masked]
Does(kind) == [kind |-> kind]
R == Row(1, Comp!Moved(0, 0), FALSE)
Q == Row(2, Comp!Moved(1, 0), FALSE)
RowPlans ==
    {<<[kind |-> "solid", rect |-> <<0, 0, 3, 1>>], Row(1, m, FALSE), Row(2, n, FALSE)>> : m \in Maps, n \in Maps}
MaskPlans ==
    {<<Row(1, m, TRUE), Row(2, Comp!Moved(0, 0), FALSE), [kind |-> "mark", map |-> n]>> : m \in Maps, n \in Maps}
NestPlans ==
    {<<R>> \o steps \o <<Q>> : steps \in [1..4 -> {Does("open"), Does("opaque"), Does("close"), Does("atop"), R}]}
DeepPlans ==
    {<<Does("open"), R, Does("opaque"), Q, Does("open"), R, Does("open"), Q, Does("close"), R, Does("atop"), R,
       Does("close"), Q, Does("close"), R>>,
     <<Does("open"), Does("open"), Does("open"), R, Q, Does("close"), Does("close"), Does("opaque"), R, Does("atop"),
       Does("close")>>}
Cloth == [at |-> <<0, -1>>, width |-> 3, height |-> 4, bytes |-> [i \in 1..12 |-> IF i % 4 = 0 THEN 0 ELSE i]]
Torn == [Cloth EXCEPT !.bytes = SubSeq(@, 1, 11)]
Budget(pages, tiles, levels) == [pages |-> pages, tiles |-> tiles, levels |-> levels]
PlanAsks ==
    [kind : {"plan"}, steps : RowPlans, mask : {None}, budget : {Budget(1, 1, 2), Budget(2, 5, 2)}]
    \cup [kind : {"plan"}, steps : MaskPlans, mask : {Cloth}, budget : {Budget(1, 1, 2), Budget(3, 5, 2)}]
    \cup [kind : {"plan"}, steps : NestPlans, mask : {None}, budget : {Budget(1, 5, 2)}]
    \cup [kind : {"plan"}, steps : DeepPlans, mask : {None}, budget : {Budget(1, 1, 2), Budget(2, 5, 3)}]
    \cup [kind : {"plan"}, steps : MaskPlans, mask : {None, Torn}, budget : {Budget(3, 5, 2)}]

PlanOf(ask) ==
    [pages |-> Sheet, sets |-> Sets, steps |-> ask.steps, mask |-> ask.mask]
\* A card with room for all, and one with room for a tile's own rows of Cloth
\* but not for all of them.
Card == [binding |-> 200, buffer |-> 10000, groups |-> 100, storage |-> 8, every |-> 16]
Narrow == [Card EXCEPT !.binding = 12]
Screen(format) ==
    [width |-> 5, height |-> 4, format |-> format, pixels |-> [p \in (0..4) \X (0..3) |-> << <<"was">> >>]]
OnScreen == {<<1, 1, 3, 4>>, <<1, 1, 3, 5>>, <<4, 0, 6, 2>>, <<2, 1, 2, 3>>}
PlanHolds(ask) ==
    /\ \A card \in {Card, Narrow} :
          Comp!CutsChangeNothing(PlanOf(ask), << <<0, 0>>, <<1, 0>>, <<0, 1>> >>, <<0, 0, 3, 4>>, card, ask.budget)
    /\ \A rect \in OnScreen : Comp!ShowsInsideOnly(PlanOf(ask), Screen("rgba8unorm"), rect, Card, ask.budget)
    /\ Comp!ShowsInsideOnly(PlanOf(ask), Screen("r32uint"), <<1, 1, 3, 4>>, Card, ask.budget)

-----------------------------------------------------------------------------
(* Masks: every plane of six pixels and some of more.                       *)
Plane(width, height, on(_)) == [p \in Flood!Box(width, height) |-> IF on(p) THEN 255 ELSE 0]
PlanesOf(width, height) ==
    {Plane(width, height, LAMBDA p : p \in on) : on \in SUBSET Flood!Box(width, height)}
Dots == {<<3, 2>>, <<0, 4>>}
Planes ==
    PlanesOf(3, 2) \cup PlanesOf(2, 3)
    \cup {Plane(7, 5, LAMBDA p : p \in Dots), Plane(7, 5, LAMBDA p : p \notin Dots),
          Plane(7, 5, LAMBDA p : p[1] \in 1..5 /\ p[2] \in 1..4), Plane(9, 1, LAMBDA p : p[1] # 4)}
Polygons == {{<<0, 0>>, <<1, 0>>}, {<<1, 0>>, <<1, 1>>}, {<<0, 1>>}}
Combines == {"replace", "add", "subtract", "intersect"}
Acts ==
    [combine : Combines,
     polygons : {<<q>> : q \in Polygons} \cup {<<>>, <<{<<0, 0>>, <<1, 0>>}, {<<1, 0>>, <<1, 1>>}>>}]
Inner == {<<a, b>> : a \in Acts, b \in {act \in Acts : Len(act.polygons) = 1}}
Group(combine, steps) == [combine |-> combine, steps |-> steps]
MaskAsks ==
    [kind : {"selection"}, mask : Planes,
     finish : [grow : -2..2, feather : {0, 1, 4, 6, 9, 16, 40}, antiAlias : BOOLEAN]]
    \cup [kind : {"distances"}, mask : Planes, from : {0, 255}, reach : {0, 1, 2, 3, 9}]
    \cup {[kind |-> "region", steps |-> <<a, Group(c, i)>>] :
             a \in {act \in Acts : act.combine = "add"}, c \in Combines, i \in Inner}
    \cup {[kind |-> "region", steps |-> <<Group("add", i), a, Group("subtract", <<a>>)>>] : a \in Acts, i \in Inner}

\* Warps: meshes of one or two cells dragged any way, and moved, turned over
\* or enlarged whole, through windows on, off and across them.
View(left, top, width, height) == [at |-> <<left, top>>, size |-> <<width, height>>]
Views == {View(0, 0, 4, 3), View(-2, -1, 4, 4), View(1, 0, 2, 2), View(-8, -8, 2, 16), View(7, 0, 2, 1), View(0, 0, 0, 2)}
EndsOf == {<<0, 0>>, <<5, 3>>, <<16, 0>>, <<16, 24>>, <<-9, 17>>, <<24, 24>>}
Dragged == {[columns |-> 1, rows |-> 1, source |-> <<a, b, c, d>>, destination |-> <<a, b, c, d>>] :
              a \in EndsOf, b \in EndsOf, c \in EndsOf, d \in EndsOf}
Strip == [columns |-> 2, rows |-> 1, source |-> <<>>,
          destination |-> <<<<0, 0>>, <<12, 4>>, <<24, 0>>, <<0, 16>>, <<12, 20>>, <<24, 16>>>>]
Ample == [bytes |-> 4000, groups |-> 9]
Little == [bytes |-> 47, groups |-> 1]
Seen(width, height, held) ==
    [texels |-> [p \in Flood!Box(width, height) |-> 1 + p[1] + 10 * p[2]], held |-> held]
SomeMaps ==
    {Flood!AffineMap(a, b, c, -b, a, f) : a \in {256, 128, -256}, b \in {0, 100}, c \in {0, 256, -200}, f \in {0, 512, 77}}
WarpAsks ==
    [kind : {"mesh"}, mesh : Dragged \cup {Strip}, window : {View(-2, -1, 7, 6), View(1, 1, 2, 2), View(7, 0, 2, 1)},
     room : {Ample}]
    \cup [kind : {"mesh"}, mesh : {Strip, [Strip EXCEPT !.columns = 0], [Strip EXCEPT !.rows = 2]}, window : Views,
          room : {Ample, Little}]
    \cup [kind : {"warp"}, columns : 1..2, rows : 1..2, pitch : {8, 11, 16}, scale : {-1, 1, 2, 3} \X {-2, 1},
          move : {<<0, 0>>, <<2, -1>>}, at : {<<0, 0>>, <<-1, 1>>}, held : {11, 12}, window : Views, room : {Ample}]
    \cup [kind : {"window of one"}, map : SomeMaps \cup {None}, window : {View(-2, -2, 6, 6)}, inner : Views, room : {Ample, Little}]

WarpHolds(ask) ==
    CASE ask.kind = "mesh" -> Flood!MeshPaintsTheFirst(ask.mesh, ask.window, ask.room)
      [] ask.kind = "warp" ->
           Flood!WarpIsItsMap(ask.columns, ask.rows, ask.pitch, ask.scale, ask.move, ask.at, Seen(4, 3, ask.held),
                              ask.window, ask.room)
      [] ask.kind = "window of one" -> Flood!WindowIsItsPart(Seen(4, 3, 12), ask.map, ask.window, ask.inner, ask.room)

MaskHolds(ask) ==
    CASE ask.kind = "selection" -> Flood!SelectionIsFinished(ask.mask, ask.finish)
      [] ask.kind = "distances" -> Flood!DistancesAreWhole(ask.mask, ask.from, ask.reach)
      [] ask.kind = "region" -> Flood!RegionIsItsSteps(ask.steps, Flood!Box(2, 2))

-----------------------------------------------------------------------------
(* Floods: every wall over nine pixels of four tiles, a maze of eight       *)
(* tiles, a door of every width.                                            *)
Field(across, down, box, colour(_)) ==
    [colours |-> [p \in Flood!Box(2 * across, 2 * down) |-> colour(p)], across |-> across, down |-> down,
     inside |-> box]
Walled(walls, box) == Field(2, 2, box, LAMBDA p : IF p \in walls THEN 5 ELSE IF p = <<3, 3>> THEN 2 ELSE 1)
Holes == {<<1, 3>>, <<3, 0>>, <<5, 3>>, <<7, 0>>}
Maze == Field(4, 2, <<0, 0, 8, 4>>, LAMBDA p : IF p[1] % 2 = 1 /\ p \notin Holes THEN 5 ELSE 1)
Door(width) == Field(4, 3, <<0, 0, 8, 6>>, LAMBDA p : IF p[1] = 4 /\ p[2] \notin 2..1 + width THEN 5 ELSE 1)
Walls == SUBSET ((1..3) \X (0..2))
FloodAsks ==
    [kind : {"flood"}, seed : {<<1, 2>>}, tolerance : {0, 1},
     picture : {Walled(walls, <<0, 0, 4, 4>>) : walls \in Walls}
               \cup {Walled(walls, <<1, 0, 4, 3>>) : walls \in {w \in Walls : <<1, 2>> \notin w}}]
    \cup [kind : {"flood"}, seed : {<<0, 0>>}, tolerance : {0}, picture : {Maze}]
    \cup [kind : {"gap"}, picture : {Maze} \cup {Door(width) : width \in 0..3}, seed : {<<0, 0>>, <<2, 2>>, <<2, 3>>},
          gap : 0..4]
    \cup [kind : {"finish"}, filled : {f \in SUBSET ((1..3) \X (1..3)) : <<2, 2>> \in f}, expand : 0..2,
          antiAlias : BOOLEAN, inside : {<<0, 0, 6, 6>>, <<1, 1, 4, 5>>}]

\* Presses on and off boxes about the canvas's origin.
Spots(n) == [p \in (-5..4) \X (-4..3) |-> ((p[1] + 5) * n + (p[2] + 4) * (n + 1)) % 3]
PressAsks ==
    [kind : {"press"}, n : 1..3, extent : {<<-3, -2, 2, 1>>, <<-4, -3, -1, 0>>, <<1, 0, 4, 3>>, <<0, 0, 0, 2>>, <<-1, -1, 0, 0>>},
     press : {<<-3, -2>>, <<-1, -1>>, <<0, 0>>, <<1, -2>>, <<3, 2>>, <<-4, -1>>}, tolerance : 0..1]
PressHolds(ask) == Flood!FillLandsWhereItReads(Spots(ask.n), ask.extent, ask.press, ask.tolerance)

FloodHolds(ask) ==
    CASE ask.kind = "flood" -> Flood!FloodIsJoined(ask.picture, ask.seed, ask.tolerance)
      [] ask.kind = "gap" -> Flood!GapIsClosed(ask.picture, ask.seed, 0, ask.gap)
      [] ask.kind = "press" -> PressHolds(ask)
      [] ask.kind = "finish" -> Flood!CropLosesNothing(ask.filled, ask.inside, ask.expand, ask.antiAlias)

-----------------------------------------------------------------------------
(* A cel's pixels: two tiles by two, one never drawn, in drawings of few    *)
(* colours and alphas, under masks that reach past its sides.               *)
Palette == << <<10, 20, 30, 255>>, <<10, 20, 30, 90>>, <<200, 100, 50, 255>>, <<10, 20, 30, 0>>,
              <<0, 0, 0, 0>>, <<200, 100, 50, 3>> >>
Pixel(n) == [b \in 0..3 |-> Palette[n][b + 1]]
Drawing(n) ==
    [p \in 1..2 |-> [s \in 0..1 |-> [q \in (0..1) \X (0..1) |->
        Pixel(((((p * 7 + s * 3 + q[1] * 5 + q[2]) * n) \div 3) % 6) + 1)]]]
Cels ==
    {[x0 |-> -1, y0 |-> 0, columns |-> 2, rows |-> 2, tiles |-> <<At(1, 0), At(2, 1), None, At(1, 1)>>],
     [x0 |-> 0, y0 |-> -1, columns |-> 1, rows |-> 3, tiles |-> <<At(2, 0), At(1, 0), At(2, 1)>>]}
CelMask(left, top, width, height, n) ==
    [left |-> left, top |-> top, width |-> width, height |-> height, held |-> height,
     bytes |-> [p \in (0..width - 1) \X (0..height - 1) |-> <<255, 0, 128, 255, 255>>[((p[1] * n + p[2] * 2) % 5) + 1]]]
CelMasks == {CelMask(-1, 0, 3, 3, 1), CelMask(0, 1, 2, 4, 2), CelMask(-3, -1, 7, 2, 4)}
Takes(verb, value, threshold) ==
    [bytes |-> Len(value), base |-> IF verb = "alpha" THEN 3 ELSE 0, stride |-> 1, takesEmpty |-> verb = "alpha",
     selector |-> None, threshold |-> threshold, incoming |-> [value |-> value]]
Selects(keeps) == [names |-> {<<10, 20, 30>>}, keeps |-> keeps]
Verbs ==
    {Takes("colour", <<1, 2, 3>>, 0), Takes("alpha", <<0>>, 0), Takes("alpha", <<255>>, 91)}
    \cup {[Takes("alpha", <<0>>, 0) EXCEPT !.selector = Selects(keeps)] : keeps \in BOOLEAN}
Undoes(verb, step, count) ==
    [verb EXCEPT !.incoming = [recipe |-> [i \in 1..64 |-> i], step |-> step, count |-> count]]
Gradients ==
    [shape : {"line", "circle"}, from : {<<0, 0>>, <<3, 9>>}, to : {<<0, 0>>, <<8, 4>>, <<-7, 6>>},
     start : {[b \in 0..3 |-> b * 7]}, end : {[b \in 0..3 |-> 20 - b * 5]}]
CelAsks ==
    [kind : {"verb"}, drawing : 1..6, cel : Cels, mask : {None} \cup CelMasks, verb : Verbs,
     cut : {<<1, 2>>, <<2, 1>>, <<2, 3>>}, align : {1, 3}]
    \cup [kind : {"recipe"}, drawing : {2, 5}, cel : Cels, mask : {None} \cup CelMasks,
          verb : {Undoes(Takes("alpha", <<0>>, 0), 1, 24), Undoes(Takes("colour", <<1, 2, 3>>, 0), 2, 5),
                  Undoes(Takes("alpha", <<0>>, 0), 3, 6), Undoes(Takes("colour", <<1, 2, 3>>, 0), 0, 30)},
          cut : {<<1, 2>>, <<2, 3>>}, align : {2}]
    \cup [kind : {"fits"}, cel : Cels, mask : {None} \cup CelMasks, align : {1, 2},
          verb : {Takes("alpha", <<0>>, 0)} \cup {Undoes(Takes("colour", <<1, 2, 3>>, 0), s, 8) : s \in 0..3},
          room : {40, 64, 90, 91, 92, 130, 136, 180, 200}]
    \cup [kind : {"lift"}, drawing : 1..6, cel : Cels, mask : CelMasks, whole : BOOLEAN,
          cut : {<<1, 2>>, <<2, 1>>, <<2, 3>>}, page : {1, 3}]
    \cup [kind : {"ink"}, drawing : 1..12, cel : Cels, cut : {<<1, 2>>, <<2, 1>>}]
    \cup [kind : {"gradient"}, gradient : Gradients, at : (-2..3) \X (-1..3)]

CelHolds(ask) ==
    CASE ask.kind = "verb" ->
           /\ Cel!VerbIsOneWalk(Drawing(ask.drawing), ask.cel, ask.mask, ask.verb, ask.cut[1], ask.cut[2], ask.align)
           /\ Cel!UndoRestores(Drawing(ask.drawing), ask.cel, ask.mask, ask.verb, ask.cut, <<2, 2>>, ask.align)
      [] ask.kind = "recipe" ->
           Cel!VerbIsOneWalk(Drawing(ask.drawing), ask.cel, ask.mask, ask.verb, ask.cut[1], ask.cut[2], ask.align)
      [] ask.kind = "fits" ->
           Cel!PassesFit(Drawing(1), ask.cel, ask.mask, ask.verb,
                         [Card EXCEPT !.binding = ask.room], ask.align)
      [] ask.kind = "lift" ->
           Cel!LiftLandsBack(Drawing(ask.drawing), ask.cel, ask.mask, ask.whole, ask.cut[1], ask.cut[2], ask.page)
      [] ask.kind = "ink" -> Cel!InkIsBound(Drawing(ask.drawing), ask.cel, ask.cut[1], ask.cut[2])
      [] ask.kind = "gradient" -> Cel!GradientIsNearest(ask.gradient, CelMask(0, 0, 3, 3, 1), ask.at)

-----------------------------------------------------------------------------
(* The dabs: strokes on two pages, plain, round, bitmap and second dabs     *)
(* over papers, one use after another on one plan; shapes and papers of     *)
(* every size by themselves.                                                *)
Stroke(column, row, page, slot) == [column |-> column, row |-> row, at |-> At(page, slot)]
Strokes ==
    <<<<>>, <<Stroke(0, 0, 1, 0)>>, <<Stroke(-1, 0, 1, 0), Stroke(0, 0, 2, 0), Stroke(0, 1, 1, 1)>>,
      <<Stroke(1, 0, 2, 1), Stroke(0, 0, 1, 1), Stroke(0, 1, 2, 0)>>>>
Table(name) == [name |-> name, length |-> 2]
Texture(id, side) == [id |-> id, side |-> side]
Plain == [kind |-> "square"]
Round(reach, roundness, scale) ==
    [kind |-> "round", reach |-> reach, roundness |-> roundness, scale |-> scale,
     coverage |-> Table(1), pile |-> Table(2)]
Tip(reach, roundness, texture) ==
    [kind |-> "tip", reach |-> reach, roundness |-> roundness, texture |-> texture]
Dabbed(region, shape, second, evening, density) ==
    [region |-> region, erase |-> shape.kind = "round", second |-> second, ink |-> 7, opacity |-> 200,
     evening |-> evening, shape |-> shape, density |-> density]
DabLists ==
    <<<<Dabbed(<<-3, -3, 5, 5>>, Plain, FALSE, None, 3), Dabbed(<<0, 0, 1, 3>>, Plain, TRUE, Table(3), None)>>,
      <<Dabbed(<<-1, 0, 2, 2>>, Round(6, <<1, 2>>, <<4, 1>>), FALSE, Table(3), 5),
        Dabbed(<<0, 0, 3, 3>>, Round(9, <<1, 1>>, <<2, 1>>), TRUE, None, 5),
        Dabbed(<<1, 1, 1, 4>>, Plain, FALSE, None, None)>>,
      <<Dabbed(<<-2, 0, 2, 4>>, Tip(6, <<1, 1>>, Texture(4, 3)), FALSE, None, 2),
        Dabbed(<<0, 1, 4, 3>>, Tip(9, <<1, 2>>, Texture(5, 2)), FALSE, None, None)>>,
      <<Dabbed(<<0, 0, 2, 2>>, Tip(5, <<1, 1>>, Texture(6, 4)), TRUE, None, None)>>,
      <<Dabbed(<<0, 0, 2, 2>>, Round(5, <<1, 1>>, <<64, 1>>), FALSE, None, None)>>,
      [n \in 1..5 |-> Dabbed(<<0, 0, IF n > 3 THEN 3 ELSE 2, 2>>, Plain, FALSE, None, None)]>>
Papers == <<None, [texture |-> Texture(7, 3), scale |-> <<1, 2>>, height |-> TRUE],
            [texture |-> Texture(4, 3), scale |-> <<5, 3>>, height |-> FALSE],
            [texture |-> Texture(7, 3), scale |-> <<33, 1>>, height |-> TRUE]>>
Seconds == <<None, [mode |-> "multiply", density |-> 9], [mode |-> "hue", density |-> 9]>>
Use(tiles, dabs, paper, second, cut, align) ==
    [tiles |-> Strokes[tiles], dabs |-> DabLists[dabs], paper |-> Papers[paper], second |-> Seconds[second],
     cut |-> cut, align |-> align, most |-> 130]
Uses ==
    {Use(3, 1, 1, 2, <<1, 3>>, 2), Use(4, 2, 2, 2, <<2, 2>>, 4), Use(3, 3, 3, 1, <<2, 3>>, 4),
     Use(2, 4, 2, 2, <<1, 1>>, 2), Use(2, 5, 1, 1, <<1, 1>>, 2), Use(4, 1, 4, 1, <<1, 2>>, 2),
     Use(2, 1, 2, 3, <<1, 1>>, 4), Use(2, 3, 1, 1, <<1, 1>>, 2), Use(1, 1, 1, 1, <<1, 1>>, 2),
     Use(4, 3, 2, 1, <<2, 1>>, 8), Use(4, 6, 1, 1, <<2, 3>>, 2), Use(2, 2, 3, 2, <<1, 1>>, 2)}
Untouched ==
    [plane \in {"planes", "view", "levels"} |-> [page \in 1..2 |-> [slot \in 0..1 |->
       [p \in (0..1) \X (0..1) |-> <<>>]]]]
Rects == {[x0 |-> 0, y0 |-> 0, columns |-> 1, rows |-> 1], [x0 |-> -1, y0 |-> 0, columns |-> 2, rows |-> 2]}
Pictured(rect, n) ==
    [p \in (rect.x0 * 2..(rect.x0 + rect.columns) * 2 - 1) \X (rect.y0 * 2..(rect.y0 + rect.rows) * 2 - 1) |->
       (40 + (p[1] * n * 17 + p[2] * 29) * (p[1] + n)) % 97]
BlurStroke ==
    [n \in 1..20 |-> LET column == ((n - 1) % 5) - 2
                         row == ((n - 1) \div 5) - 2
                     IN Stroke(column, row, IF column = -2 THEN 2 ELSE 1,
                               IF column = -2 THEN row + 2 ELSE 4 * (column + 1) + row + 2)]
WideStroke == [n \in 1..49 |-> Stroke(((n - 1) % 7) - 3, ((n - 1) \div 7) - 3, 1, n - 1)]
PictureOf(n) ==
    [page \in 1..2 |-> [slot \in 0..48 |-> [p \in (0..1) \X (0..1) |->
       (page * 91 + slot * (n + 7) + p[1] * 53 + p[2] * 19) % 251]]]
Blurs(region, radius, shape, second, density) ==
    [dab |-> Dabbed(region, shape, second, None, density), radius |-> radius]
BlurDabs ==
    {Blurs(<<0, 0, 1, 1>>, 1, Plain, FALSE, None), Blurs(<<1, 0, 2, 1>>, 1, Plain, FALSE, 3),
     Blurs(<<-1, -1, 1, 1>>, 1, Round(4, <<1, 1>>, <<2, 1>>), FALSE, None),
     Blurs(<<-1, 0, 2, 1>>, 1, Plain, FALSE, None), Blurs(<<0, 0, 1, 1>>, 1, Plain, TRUE, None),
     Blurs(<<2, 0, 1, 1>>, 1, Plain, FALSE, None), Blurs(<<0, 0, 1, 1>>, 2, Plain, FALSE, None)}
BlurUse(tiles, dabs, paper, route, perPass, align) ==
    [tiles |-> tiles, dabs |-> dabs, paper |-> Papers[paper], route |-> route, perPass |-> perPass,
     align |-> align, device |-> [Card EXCEPT !.binding = 4000]]
BlurPairs ==
    {<<>>, <<Blurs(<<0, 0, 1, 1>>, 1, Plain, FALSE, None), Blurs(<<2, 0, 3, 1>>, 1, Plain, FALSE, None)>>,
     <<Blurs(<<0, 0, 1, 1>>, 1, Plain, FALSE, None), Blurs(<<-1, -1, 1, 1>>, 1, Round(4, <<1, 1>>, <<2, 1>>), FALSE, None)>>,
     <<Blurs(<<-1, 0, 2, 1>>, 1, Plain, FALSE, None), Blurs(<<1, 0, 2, 1>>, 1, Plain, FALSE, 3)>>,
     <<Blurs(<<0, 0, 1, 1>>, 1, Plain, TRUE, None), Blurs(<<0, 0, 1, 1>>, 1, Plain, FALSE, None)>>}
BlurUses ==
    {BlurUse(BlurStroke, dabs, paper, route, 2, 4) :
       dabs \in {<<dab>> : dab \in BlurDabs} \cup BlurPairs, paper \in {1, 3}, route \in {"strips", "passes"}}
    \cup {BlurUse(BlurStroke, <<dab>>, paper, "strips", 1, 2) : dab \in BlurDabs, paper \in {1, 4}}
    \cup {BlurUse(WideStroke, <<Blurs(<<0, 0, 2, 1>>, 2, Plain, FALSE, None)>>, 1, route, 1, 2) : route \in {"strips", "passes"}}
CelTiles == [at \in {<<-1, 0>>, <<0, 0>>, <<1, 1>>} |-> [p \in (0..1) \X (0..1) |-> 60 + at[1] * 9 + p[1] * 40 + p[2]]]
CelStrokes ==
    {SubSeq(BlurStroke, n, n + 6) : n \in {1, 5, 9}}
    \cup {<<Stroke(0, 1, 2, 0), Stroke(0, -1, 1, 3), Stroke(-1, 0, 1, 1), Stroke(1, 1, 2, 5)>>, <<Stroke(0, 0, 3, 0)>>, <<>>}
Colours(does) == [kind |-> "colour", does |-> does]
BlursBy(x, y) == [kind |-> "blur", radius |-> <<x, y>>, inside |-> None]
Kept97 == [v \in 0..97 |-> IF v < 40 THEN 0 ELSE v]
Turned97 == [v \in 0..97 |-> 97 - v]
ChainOps ==
    {<<>>, <<Colours(Kept97)>>, <<BlursBy(0, 0)>>, <<BlursBy(1, 0), Colours(Turned97)>>,
     <<Colours(Kept97), BlursBy(1, 1), Colours(Turned97), BlursBy(0, 1)>>, <<BlursBy(2, 1)>>}
DabAsks ==
    [kind : {"pile"}, uses : UNION {[1..n -> Uses] : n \in 1..2}]
    \cup [kind : {"shape"},
          shape : {Round(reach, <<p, 2>>, scale) : reach \in 1..40, p \in 1..2, scale \in {<<1, 1>>, <<4, 1>>, <<64, 1>>, <<1, 3>>}}
                  \cup {Tip(reach, <<p, 3>>, Texture(4, side)) : reach \in 1..40, p \in 1..3, side \in {1, 3, 4}}]
    \cup [kind : {"planes"}, device : [storage : 1..12, every : 2..14], most : {1, 2, 9}]
    \cup [kind : {"blur"}, rect : Rects, n : 1..2, inside : {None, <<0, 0, 2, 1>>, <<-1, 1, 2, 3>>, <<1, 0, 1, 2>>},
          radius : {<<0, 0>>, <<1, 0>>, <<0, 2>>, <<1, 1>>, <<2, 1>>, <<3, 1>>, <<1, 2>>}, route : {"strips", "passes"},
          groups : {1, 9}]
    \cup [kind : {"strips"}, width : 1..5, height : 1..5, radius : {<<1, 0>>, <<0, 1>>, <<2, 0>>, <<0, 2>>}]
    \cup [kind : {"brush"}, n : {2}, use : BlurUses]
    \cup [kind : {"settle"}, n : 1..2, tiles : CelStrokes, opacity : {0, 100, 255}, mask : {None} \cup CelMasks,
          most : {<<1, 1>>, <<1, 2>>, <<2, 3>>, <<2, 7>>}]
    \cup [kind : {"cel passes"}, tiles : CelStrokes, mask : {None} \cup CelMasks, binding : {32, 47, 48, 60, 64, 80, 100, 130},
          storage : {2, 3, 4}]
    \cup [kind : {"chain"}, ops : ChainOps, tiles : {{<<0, 0>>}, {<<-1, 0>>, <<0, 1>>, <<1, 0>>}}]
    \cup [kind : {"paper"}, side : 1..9, step : {1, 7, 16, 45, 111, 255}, column : {-3, -1, 0, 1, 5}, local : 0..1]

DabHolds(ask) ==
    CASE ask.kind = "pile" -> Dab!PilesAsLaid(Untouched, ask.uses)
      [] ask.kind = "shape" -> Dab!GeometryFits(ask.shape)
      [] ask.kind = "planes" -> Dab!PilePagesFit(ask.device, ask.most)
      [] ask.kind = "blur" ->
           Dab!BlurIsItsPasses(Pictured(ask.rect, ask.n), ask.rect, ask.radius, ask.inside, ask.route,
                               [Card EXCEPT !.binding = 600, !.groups = ask.groups])
      [] ask.kind = "strips" -> Dab!StripsFit(<<0, 0, ask.width, ask.height>>, ask.radius)
      [] ask.kind = "brush" -> Dab!BlursAsPainted(PictureOf(ask.n), ask.use)
      [] ask.kind = "settle" ->
           Dab!FinishIsPixelByPixel(PictureOf(ask.n), CelTiles, ask.tiles, ask.opacity, ask.mask, ask.most)
      [] ask.kind = "cel passes" ->
           Dab!CelPassesFit(ask.tiles, ask.mask, [Card EXCEPT !.binding = ask.binding, !.storage = ask.storage])
      [] ask.kind = "chain" ->
           Dab!ChainReachesNoFurther(LAMBDA x, y : (40 + (x * 17 + y * 29) * (x + 3)) % 97, ask.tiles, ask.ops,
                                     [Card EXCEPT !.binding = 9000])
      [] ask.kind = "paper" -> Dab!PaperIsCarried(ask.side, ask.step, ask.column, ask.local)

-----------------------------------------------------------------------------
(* Each input answered by one step.                                         *)
Converting == [kind |-> "sound in pieces"]

LawsInit ==
    /\ Init
    /\ answered = FALSE
    /\ \/ input = Converting
       \/ input \in Codec!Asks
       \/ input \in Sound!Asks
       \/ input \in MixAsks
       \/ input \in PenAsks
       \/ input \in MovieAsks
       \/ input \in PageAsks
       \/ input \in PlanAsks
       \/ input \in MaskAsks
       \/ input \in WarpAsks
       \/ input \in FloodAsks
       \/ input \in PressAsks
       \/ input \in CelAsks
       \/ input \in DabAsks

Kind == input.kind
MixKinds == {"join", "window", "envelope", "output"}
PenKinds == {"pose", "counter", "axis", "lean", "reports", "scales"}
MovieKinds == {"flat", "checked", "clock", "description"}
PageKinds == {"runs", "device", "write", "texture"}
MaskKinds == {"selection", "distances", "region"}
WarpKinds == {"mesh", "warp", "window of one"}
FloodKinds == {"flood", "gap", "finish", "press"}
CelKinds == {"verb", "recipe", "fits", "lift", "ink", "gradient"}
DabKinds == {"pile", "shape", "paper", "planes", "blur", "strips", "brush", "settle", "cel passes", "chain"}
KernelKinds == PageKinds \cup {"plan"} \cup MaskKinds \cup WarpKinds \cup FloodKinds \cup CelKinds \cup DabKinds
SoundKinds == {"start", "bare", "movie", "wav", "packets", "byte"}
CodecKinds == {"table", "tree", "literals", "block", "parse", "frame"}

Feeds == input = Converting /\ Next /\ UNCHANGED <<input, answered>>
Answers(kinds) == Kind \in kinds /\ ~answered /\ answered' = TRUE /\ UNCHANGED <<input, r, heard>>
Codes == Answers(CodecKinds)
Sounds == Answers(SoundKinds)
Mixes == Answers(MixKinds)
Reports == Answers(PenKinds)
Films == Answers(MovieKinds)
Draws == Answers(KernelKinds)

\* None of these waits for anything: a call made returns.
LawsNext == Feeds \/ Codes \/ Sounds \/ Mixes \/ Reports \/ Films \/ Draws
LawsSpec == LawsInit /\ [][LawsNext]_<<input, answered, r, heard>> /\ WF_<<input, answered, r, heard>>(LawsNext)

KernelHolds(ask) ==
    CASE ask.kind \in PageKinds -> PagesHold(ask)
      [] ask.kind = "plan" -> PlanHolds(ask)
      [] ask.kind \in MaskKinds -> MaskHolds(ask)
      [] ask.kind \in WarpKinds -> WarpHolds(ask)
      [] ask.kind \in FloodKinds -> FloodHolds(ask)
      [] ask.kind \in CelKinds -> CelHolds(ask)
      [] ask.kind \in DabKinds -> DabHolds(ask)

-----------------------------------------------------------------------------
(* Each ask is answered in the end, and its answer is as it must be.  (The  *)
(* laws are stated of what comes in the end, where TLC works them out once  *)
(* for an ask.)                                                             *)

(* What the zstd port's encoder writes its decoders read back: its tables   *)
(* fill their space, its trees are whole whatever their height, its matches *)
(* copy from within the window, its decoders agree however they go about    *)
(* it, and a frame reads back alone, behind another, and never cut short.   *)
CodecReadsBack == <>(Kind \in CodecKinds => answered /\ Codec!Holds(input))

(* A sound starts where its file says, a movie's is its chunks in order as  *)
(* far as the file holds them, a WAV's its data's whole frames, every       *)
(* piece keeps its place whatever its rate or damage, and G.711 climbs.     *)
SoundIsTheFiles == <>(Kind \in SoundKinds => answered /\ Sound!Holds(input))

(* A block of the mix joins the one before it whatever its place, the       *)
(* window of a source is the source, and an envelope stays between its keys *)
(* (bus.rs).                                                                *)
MixIsItsWindow == <>(Kind \in MixKinds => answered /\ MixHolds(input))

(* What a pen reports reads back as the pose it was, an axis keeps its      *)
(* range and its reports lie inside what arrived (report.rs, hid_axis.rs);  *)
(* a picture made into a movie's planes comes back, its clocks never drift, *)
(* and a sound description that is read is not noise (colour.rs,            *)
(* movie_pcm.rs).                                                           *)
ReadingsHold ==
    /\ <>(Kind \in PenKinds => answered /\ PenHolds(input))
    /\ <>(Kind \in MovieKinds => answered /\ MovieHolds(input))

(* Work cut to what a device takes - into runs of pages, passes, tiles and  *)
(* levels, rounds of a flood, generations of a distance - leaves what one   *)
(* pass over everything would; an undo finds the pixels it is the undo of   *)
(* (dispatch.rs, pages.rs, composite, mask, flood and cel_pixel).           *)
KernelsAgree == <>(Kind \in KernelKinds => answered /\ KernelHolds(input))
=============================================================================
