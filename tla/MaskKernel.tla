----------------------------- MODULE MaskKernel -----------------------------
(***************************************************************************)
(* A coverage mask on the GPU (kernels/mask): the selection's hard mask    *)
(* folded from its steps over bit planes (region.rs), then finished in     *)
(* passes that each read one plane and put another - grown or shrunk a     *)
(* generation a pixel, feathered by a distance relaxed a generation at a   *)
(* time, softened at its edge (mod.rs, mask.wgsl).                         *)
(*                                                                         *)
(* A plane is a function of the pixels <<x, y>> of its box; a distance is  *)
(* in chamfer units, 3 across a side and 4 across a corner. Q is the       *)
(* feather's fixed point, 256 in the code. A polygon is the set of pixels  *)
(* whose centres it holds: where its edges cross a row is region.wgsl's.   *)
(*                                                                         *)
(* And the warp of the picture a selection lifts (kernels/mesh, warp,      *)
(* shared/resample): each pixel of a window read through the map of the    *)
(* mesh's triangle that paints it. A point of a mesh is in Q-ths of a      *)
(* pixel, a map's entries in MapOne-ths; only the nearest and the whole    *)
(* read are modelled, not the blend and the vote.                          *)
(*                                                                         *)
(* And a bucket fill's reach (kernels/flood/mod.rs, flood.wgsl): a plane   *)
(* of what may fill, spread into from the seed round after round - a       *)
(* workgroup a tile, each reading one plane and putting the other - until  *)
(* a look at the last rounds' flags finds one that moved nothing; a fill   *)
(* that closes gaps floods the same way past its gap from every barrier    *)
(* and takes back as much; the finish, over the box it can reach; and the  *)
(* picture a fill and the eyedropper read (flood/picture.rs): what a plan  *)
(* shows over a box on the canvas, on the tiles the box meets.             *)
(*                                                                         *)
(* A picture is [colours, across, down, inside]: a colour for each pixel   *)
(* of a grid of across by down tiles, and the box it covers, [left, top,   *)
(* right, bottom). A colour is one channel. What a plan shows is a         *)
(* function of the canvas's pixels, 0 where nothing is laid.               *)
(***************************************************************************)
EXTENDS Integers, FiniteSetsExt, SequencesExt

CONSTANTS
  Q,       \* the feather's and a point's fixed point, 256
  None,
  Canvas,  \* how far from the canvas's origin a point and a window reach, 2^15
  Side,    \* a flood's tile, 128
  Rounds   \* a flood's rounds between two looks, 8

Box(width, height) == (0..width - 1) \X (0..height - 1)
Width(box) == Max({p[1] : p \in box}) + 1
Height(box) == Max({p[2] : p \in box}) + 1

Sides(p) == {<<p[1] - 1, p[2]>>, <<p[1] + 1, p[2]>>, <<p[1], p[2] - 1>>, <<p[1], p[2] + 1>>}
Around(p) == (p[1] - 1..p[1] + 1) \X (p[2] - 1..p[2] + 1)

\* A byte past the box is 0.
ByteAt(plane, p) == IF p \in DOMAIN plane THEN plane[p] ELSE 0

-----------------------------------------------------------------------------
(* The passes: mask.wgsl                                                   *)

Far == 60000

Grown(bytes) ==
  [p \in DOMAIN bytes |->
     IF bytes[p] # 0 THEN bytes[p]
     ELSE IF \E s \in Sides(p) : ByteAt(bytes, s) # 0 THEN 255 ELSE 0]

Shrunk(bytes) ==
  [p \in DOMAIN bytes |-> IF \E s \in Sides(p) : ByteAt(bytes, s) = 0 THEN 0 ELSE bytes[p]]

Softened(bytes, insideOnly) ==
  [p \in DOMAIN bytes |->
     LET around == MapThenSumSet(LAMBDA s : ByteAt(bytes, s), Sides(p))
         softened == (3 * bytes[p] + around + 3) \div 7
     IN IF insideOnly THEN Min({softened, bytes[p]}) ELSE softened]

OnEdge(box, p) ==
  p[1] = 0 \/ p[2] = 0 \/ p[1] + 1 = Width(box) \/ p[2] + 1 = Height(box)

\* `border` is how far the box's edge lies, None where it is no barrier.
Seeded(bytes, zeroWhen, border) ==
  [p \in DOMAIN bytes |->
     LET distance == IF bytes[p] = zeroWhen THEN 0 ELSE Far
     IN IF border # None /\ OnEdge(DOMAIN bytes, p) THEN Min({distance, border}) ELSE distance]

StepTo(p, q) == IF p = q THEN 0 ELSE IF p[1] # q[1] /\ p[2] # q[2] THEN 4 ELSE 3

Relaxed(distances) ==
  [p \in DOMAIN distances |->
     Min({distances[q] + StepTo(p, q) : q \in Around(p) \intersect DOMAIN distances})]

\* Rounded, whole at the ramp and past it.
Feathered(bytes, distances, ramp) ==
  [p \in DOMAIN bytes |->
     IF bytes[p] = 0 THEN 0
     ELSE IF distances[p] * Q >= ramp THEN 255
     ELSE (2 * distances[p] * Q * 255 + ramp) \div (2 * ramp)]

-----------------------------------------------------------------------------
(* A run of passes: two byte planes and two distance planes, put in turn   *)

\* `at` is the byte plane the next pass reads, None the mask itself;
\* `distancesAt` the distance plane.
RunsFrom == [at |-> None, distancesAt |-> 0]

Begun(mask) ==
  [places |-> RunsFrom, bytes |-> [n \in 0..1 |-> <<>>], distances |-> [n \in 0..1 |-> <<>>],
   mask |-> mask]

ReadBytes(held) == IF held.places.at = None THEN held.mask ELSE held.bytes[held.places.at]
NextBytes(held) == IF held.places.at = None THEN 0 ELSE 1 - held.places.at

PutBytes(held, plane) ==
  LET to == NextBytes(held)
  IN [held EXCEPT !.places.at = to, !.bytes[to] = plane]

\* One pass of `knobs` [ramp, insideOnly, zeroWhen, border].
RunStep(held, step, knobs) ==
  LET read == held.places.distancesAt
  IN CASE step = "grow" -> PutBytes(held, Grown(ReadBytes(held)))
       [] step = "shrink" -> PutBytes(held, Shrunk(ReadBytes(held)))
       [] step = "soften" -> PutBytes(held, Softened(ReadBytes(held), knobs.insideOnly))
       [] step = "seed" ->
            [held EXCEPT !.distances[read] = Seeded(ReadBytes(held), knobs.zeroWhen, knobs.border)]
       [] step = "relax" ->
            [held EXCEPT !.places.distancesAt = 1 - read,
                         !.distances[1 - read] = Relaxed(held.distances[read])]
       [] step = "feather" ->
            PutBytes(held, Feathered(ReadBytes(held), held.distances[read], knobs.ramp))

Run(mask, steps, knobs) ==
  LET held == FoldLeft(LAMBDA each, step : RunStep(each, step, knobs), Begun(mask), steps)
  IN [bytes |-> IF held.places.at = None THEN None ELSE held.bytes[held.places.at],
      distances |-> held.distances[held.places.distancesAt]]

Times(n, step) == [k \in 1..n |-> step]
Longer(box) == Max({Width(box), Height(box)})

\* Mutant: a generation fewer than the ramp needs.
GenerationsShort(feather, box) ==
  Min({Max({((feather + Q - 1) \div Q) - 2, 0}), Longer(box)})

\* The generations that settle every distance the ramp tells apart.
Generations(feather, box) ==
  Min({Max({((feather + Q - 1) \div Q) - 1, 0}), Longer(box)})

\* `finish` [grow, feather (Q), antiAlias], as buildSelectionMask: None where
\* nothing runs, its mask finished as it is.
Selection(mask, finish) ==
  LET way == IF finish.grow > 0 THEN Times(finish.grow, "grow") ELSE Times(-finish.grow, "shrink")
      relaxes == Times(Generations(finish.feather, DOMAIN mask), "relax")
      feathers == IF finish.feather = 0 THEN <<>> ELSE <<"seed">> \o relaxes \o <<"feather">>
      softens == IF finish.antiAlias THEN <<"soften">> ELSE <<>>
      knobs == [ramp |-> 3 * finish.feather, insideOnly |-> TRUE, zeroWhen |-> 0, border |-> 3]
      steps == way \o feathers \o softens
  IN IF steps = <<>> THEN None ELSE Run(mask, steps, knobs).bytes

\* A fill's mask finished, None where nothing runs.
Fill(mask, expand, antiAlias) ==
  LET steps == Times(expand, "grow") \o (IF antiAlias THEN <<"soften">> ELSE <<>>)
      knobs == [ramp |-> 0, insideOnly |-> FALSE, zeroWhen |-> 0, border |-> None]
  IN IF steps = <<>> THEN None ELSE Run(mask, steps, knobs).bytes

Distances(mask, zeroWhen, generations) ==
  LET relaxes == Times(Min({generations, Longer(DOMAIN mask)}), "relax")
      knobs == [ramp |-> 0, insideOnly |-> FALSE, zeroWhen |-> zeroWhen, border |-> None]
  IN Run(mask, <<"seed">> \o relaxes, knobs).distances

-----------------------------------------------------------------------------
(* The hard mask: region.rs                                                *)

\* The plane an act's polygons are joined in; the rest one a nesting level.
Union == 0

\* The passes that fold `steps` into plane `into`, from nothing. A step is
\* [combine, polygons] or [combine, steps] for a whole selection, whose own
\* passes `inner` has, one level in.
LaidBy(steps, into, inner) ==
  LET draws(polygon) == <<[pass |-> "toggle", polygon |-> polygon], [pass |-> "scan", plane |-> Union]>>
      operand(n) ==
        IF "polygons" \in DOMAIN steps[n]
        THEN [passes |-> <<[pass |-> "clear", plane |-> Union]>>
                           \o FlattenSeq([m \in DOMAIN steps[n].polygons |-> draws(steps[n].polygons[m])]),
              plane |-> Union]
        ELSE [passes |-> inner[n], plane |-> into + 1]
      folds(n) ==
        operand(n).passes
          \o <<[pass |-> "fold", combine |-> steps[n].combine, into |-> into, operand |-> operand(n).plane]>>
  IN <<[pass |-> "clear", plane |-> into]>> \o FlattenSeq([n \in DOMAIN steps |-> folds(n)])

\* Two levels deep: a selection in a selection.
Innermost(steps, into) == LaidBy(steps, into, [n \in DOMAIN steps |-> <<>>])
RegionPasses(steps) ==
  LaidBy(steps, 1, [n \in DOMAIN steps |-> IF "polygons" \in DOMAIN steps[n] THEN <<>>
                                          ELSE Innermost(steps[n].steps, 2)])

Folded(combine, inside, hit) ==
  CASE combine = "replace" -> hit
    [] combine = "add" -> inside \union hit
    [] combine = "subtract" -> inside \ hit
    [] combine = "intersect" -> inside \intersect hit

\* Mutant: a scan leaves the parity it read for the next polygon.
PassOverKeeping(held, pass) ==
  CASE pass.pass = "clear" -> [held EXCEPT !.planes[pass.plane] = {}]
    [] pass.pass = "toggle" -> [held EXCEPT !.toggles = SymDiff(@, pass.polygon)]
    [] pass.pass = "scan" -> [held EXCEPT !.planes[pass.plane] = @ \union held.toggles]
    [] pass.pass = "fold" ->
         [held EXCEPT !.planes[pass.into] = Folded(pass.combine, @, held.planes[pass.operand])]

\* A pass over the bit planes, each the set of its pixels; `toggles` the
\* parity of the polygon not yet scanned.
PassOver(held, pass) ==
  CASE pass.pass = "clear" -> [held EXCEPT !.planes[pass.plane] = {}]
    [] pass.pass = "toggle" -> [held EXCEPT !.toggles = SymDiff(@, pass.polygon)]
    [] pass.pass = "scan" ->
         [held EXCEPT !.planes[pass.plane] = @ \union held.toggles, !.toggles = {}]
    [] pass.pass = "fold" ->
         [held EXCEPT !.planes[pass.into] = Folded(pass.combine, @, held.planes[pass.operand])]

\* The planes start as a buffer does, the deepest one nested two in.
RegionMask(steps) ==
  FoldLeft(PassOver, [planes |-> [n \in 0..2 |-> {}], toggles |-> {}], RegionPasses(steps)).planes[1]

-----------------------------------------------------------------------------
(* The mesh: its triangles, the pixels each paints, the map of each         *)

Abs(n) == IF n < 0 THEN -n ELSE n
Sign(n) == IF n < 0 THEN -1 ELSE 1
CeilDiv(a, b) == -((-a) \div b)

MapOne == 64 * Q        \* 2^20
MapBound == 8 * MapOne  \* what an entry of a, b, d, e stays under, 2^31
PointOne == 4 * Q       \* where a pixel's centre lands is in these, 2^16

\* A value in halves of a Q-th to Q-ths, a half away from zero; none past
\* the canvas's reach.
Quantized(v) ==
  LET whole == (Abs(v) + 1) \div 2
  IN IF whole >= Canvas * Q THEN None ELSE IF v < 0 THEN -whole ELSE whole

\* `mesh` [columns, rows, source, destination], points row after row.
QuantizedPoints(mesh, points) ==
  LET each == [n \in DOMAIN points |-> <<Quantized(points[n][1]), Quantized(points[n][2])>>]
  IN IF \/ mesh.columns = 0 \/ mesh.rows = 0
        \/ Len(points) # (mesh.columns + 1) * (mesh.rows + 1)
        \/ \E n \in DOMAIN each : None \in ToSet(each[n])
     THEN None ELSE each

\* Row, column, then (TL, TR, BL) before (TR, BR, BL).
Corners(mesh) ==
  [n \in 1..2 * mesh.columns * mesh.rows |->
     LET cell == (n - 1) \div 2
         across == mesh.columns + 1
         topLeft == (cell \div mesh.columns) * across + (cell % mesh.columns) + 1
     IN IF n % 2 = 1 THEN <<topLeft, topLeft + 1, topLeft + across>>
        ELSE <<topLeft + 1, topLeft + across + 1, topLeft + across>>]

Cross(u, v) == u[1] * v[2] - v[1] * u[2]
From(p, q) == <<q[1] - p[1], q[2] - p[2]>>

Triangles(mesh) ==
  LET points == QuantizedPoints(mesh, mesh.destination)
      corners == Corners(mesh)
      triangle(at) ==
        LET e1 == From(points[at[1]], points[at[2]])
            e2 == From(points[at[1]], points[at[3]])
        IN [d0 |-> points[at[1]], e1 |-> e1, e2 |-> e2, den |-> Cross(e1, e2)]
  IN IF points = None THEN None ELSE [n \in DOMAIN corners |-> triangle(corners[n])]

\* Mutant: a triangle's last pixels are past its box.
PastFloored(v) == v \div Q

\* The pixel past a corner's.
Past(v) == CeilDiv(v, Q)

\* The pixels of `window` [at, size] that may hold a centre of it, or none.
WithinWindow(triangle, window) ==
  LET span(axis) ==
        LET ends == {triangle.d0[axis], triangle.d0[axis] + triangle.e1[axis], triangle.d0[axis] + triangle.e2[axis]}
            low == Max({Min(ends) \div Q, window.at[axis]})
            high == Min({Past(Max(ends)), window.at[axis] + window.size[axis]})
        IN IF low < high THEN <<low, high - low>> ELSE None
  IN IF None \in {span(1), span(2)} THEN None
     ELSE [at |-> <<span(1)[1], span(2)[1]>>, size |-> <<span(1)[2], span(2)[2]>>]

\* A pixel's centre is in where all three of its sums have den's sign, or
\* are 0.
MeshHolds(triangle, x, y) ==
  LET q == From(triangle.d0, <<(2 * x + 1) * (Q \div 2), (2 * y + 1) * (Q \div 2)>>)
      n1 == Cross(q, triangle.e2)
      n2 == Cross(triangle.e1, q)
      n0 == triangle.den - n1 - n2
      onSide(n) == IF triangle.den < 0 THEN n <= 0 ELSE n >= 0
  IN onSide(n0) /\ onSide(n1) /\ onSide(n2)

InReach(from, length) == length > 0 /\ -Canvas <= from /\ from + length <= Canvas
GroupsOf(size) == <<CeilDiv(size[1], 8), CeilDiv(size[2], 8)>>

\* Mutant: the last dispatch to hold a centre keeps it.
PaintedLast(owner, order) == order

\* atomicMin: the least order, whichever comes first.
Painted(owner, order) == IF owner = None THEN order ELSE Min({owner, order})

\* Each pixel of the window to the triangle that paints it, None where none
\* does: a dispatch a triangle with area, over its box. `room` [bytes,
\* groups] is what a binding holds and a dispatch reaches.
Owners(mesh, window, room) ==
  LET triangles == Triangles(mesh)
      clear == [p \in Box(window.size[1], window.size[2]) |-> None]
      boxed == [n \in DOMAIN triangles |->
                  IF triangles[n].den = 0 THEN None ELSE WithinWindow(triangles[n], window)]
      sizes == {window.size} \union {boxed[n].size : n \in {m \in DOMAIN triangles : boxed[m] # None}}
      own(owners, n) ==
        LET box == boxed[n]
        IN IF box = None THEN owners
           ELSE [p \in {q \in DOMAIN owners :
                          /\ q[1] + window.at[1] \in box.at[1]..box.at[1] + box.size[1] - 1
                          /\ q[2] + window.at[2] \in box.at[2]..box.at[2] + box.size[2] - 1
                          /\ MeshHolds(triangles[n], q[1] + window.at[1], q[2] + window.at[2])} |->
                   Painted(owners[p], n)] @@ owners
  IN IF \/ ~InReach(window.at[1], window.size[1]) \/ ~InReach(window.at[2], window.size[2])
        \/ triangles = None
     THEN None
     ELSE IF \/ 4 * window.size[1] * window.size[2] > room.bytes
             \/ \E size \in sizes : Max(ToSet(GroupsOf(size))) > room.groups
     THEN None
     ELSE FoldLeft(own, clear, [n \in DOMAIN triangles |-> n])

DivRound(n, d) == (2 * n + d) \div (2 * d)
RoundShift(x, one) == (x + one \div 2) \div one

\* An affine map, none past its range: c and f are in theirs for any point
\* in reach.
AffineMap(a, b, c, d, e, f) ==
  IF \E n \in {a, b, d, e} : Abs(n) >= MapBound THEN None
  ELSE [a |-> a, b |-> b, c |-> c, d |-> d, e |-> e, f |-> f]

\* Mutant: the map of a triangle turned over keeps its sign.
ScaledUnsigned(n, den) == DivRound(n * MapOne, Abs(den))

\* n / den, the sign den's.
Scaled(n, den) == DivRound(n * MapOne * Sign(den), Abs(den))

\* Each triangle's map from the destination to the source, whose corner is
\* at `sourceAt` in MapOne-ths: None for one with no area.
Affines(mesh, sourceAt) ==
  LET source == QuantizedPoints(mesh, mesh.source)
      triangles == Triangles(mesh)
      corners == Corners(mesh)
      map(triangle, at) ==
        LET s0 == source[at[1]]
            f1 == From(s0, source[at[2]])
            f2 == From(s0, source[at[3]])
            row(axis) ==
              LET along == Scaled(triangle.e2[2] * f1[axis] - triangle.e1[2] * f2[axis], triangle.den)
                  down == Scaled(triangle.e1[1] * f2[axis] - triangle.e2[1] * f1[axis], triangle.den)
              IN <<along, down, s0[axis] * (MapOne \div Q)
                                 - RoundShift(along * triangle.d0[1] + down * triangle.d0[2], Q) - sourceAt[axis]>>
        IN IF triangle.den = 0 THEN None
           ELSE AffineMap(row(1)[1], row(1)[2], row(1)[3], row(2)[1], row(2)[2], row(2)[3])
  IN IF \/ source = None \/ triangles = None \/ \E n \in {1, 2} : Abs(sourceAt[n]) >= Canvas * MapOne THEN None
     ELSE [n \in DOMAIN corners |-> map(triangles[n], corners[n])]

-----------------------------------------------------------------------------
(* The warp: a window of a picture read through its maps                    *)

Copies(map) ==
  /\ map.a = MapOne /\ map.e = MapOne /\ map.b = 0 /\ map.d = 0
  /\ map.c % MapOne = 0 /\ map.f % MapOne = 0

\* The pixel whose word (x, y) takes: moved whole, or the one its centre
\* lands in.
Landed(map, x, y) ==
  LET numerator(a, b, c) == a * (2 * x + 1) + b * (2 * y + 1) + 2 * c
      nearest(n) == RoundShift(RoundShift(n - MapOne, (2 * MapOne) \div PointOne), PointOne)
  IN IF Copies(map) THEN <<x + map.c \div MapOne, y + map.f \div MapOne>>
     ELSE <<nearest(numerator(map.a, map.b, map.c)), nearest(numerator(map.d, map.e, map.f))>>

\* Mutant: a window's pixels counted from its own corner.
PlacedAtCorner(window, p) == p

\* A window's pixel in the output its maps measure from.
Placed(window, p) == <<window.at[1] + p[1], window.at[2] + p[2]>>

\* `picture` [texels, held], `held` the pixels its buffer holds. A pixel is
\* nothing where no triangle owns it and where its owner's map lands nothing.
Warp(picture, maps, owners, window, room) ==
  LET warped(p) ==
        LET map == IF owners = None THEN 1 ELSE owners[p]
        IN IF map = None THEN 0
           ELSE IF maps[map] = None THEN 0
           ELSE ByteAt(picture.texels, Landed(maps[map], Placed(window, p)[1], Placed(window, p)[2]))
  IN IF \/ picture.held < Cardinality(DOMAIN picture.texels)
        \/ window.size[1] = 0 \/ window.size[2] = 0
        \/ Max({4 * window.size[1] * window.size[2], 64 * Len(maps), 4 * Cardinality(DOMAIN picture.texels)}) > room.bytes
        \/ Max(ToSet(GroupsOf(window.size))) > room.groups
     THEN None
     ELSE [p \in Box(window.size[1], window.size[2]) |-> warped(p)]

WarpOne(picture, map, window, room) == Warp(picture, <<map>>, None, window, room)

WarpMesh(mesh, picture, sourceAt, window, room) ==
  LET maps == Affines(mesh, sourceAt)
      owners == Owners(mesh, window, room)
  IN IF maps = None \/ owners = None THEN None ELSE Warp(picture, maps, owners, window, room)

-----------------------------------------------------------------------------
(* Laws of the masks and the warp                                           *)

\* The chamfer distance between pixels of a box, which every path between
\* them keeps to.
Chamfer(p, q) ==
  LET dx == IF p[1] > q[1] THEN p[1] - q[1] ELSE q[1] - p[1]
      dy == IF p[2] > q[2] THEN p[2] - q[2] ELSE q[2] - p[2]
  IN 3 * Max({dx, dy}) + Min({dx, dy})

Exact(mask, zeroWhen, border) ==
  LET seeded == Seeded(mask, zeroWhen, border)
  IN [p \in DOMAIN mask |-> Min({Far} \union {seeded[q] + Chamfer(p, q) : q \in DOMAIN mask})]

Grow(n, mask) == FoldLeft(LAMBDA each, k : Grown(each), mask, [k \in 1..n |-> k])
Shrink(n, mask) == FoldLeft(LAMBDA each, k : Shrunk(each), mask, [k \in 1..n |-> k])

\* A selection is finished by the passes, in the planes they take turns in
\* and with no more generations than the ramp needs, as buildSelectionMask
\* finishes it: grown or shrunk, ramped by the whole chamfer distance of what
\* that left, softened.
SelectionIsFinished(mask, finish) ==
  LET moved == IF finish.grow > 0 THEN Grow(finish.grow, mask) ELSE Shrink(-finish.grow, mask)
      ramped == IF finish.feather = 0 THEN moved
                ELSE Feathered(moved, Exact(moved, 0, 3), 3 * finish.feather)
      softened == IF finish.antiAlias THEN Softened(ramped, TRUE) ELSE ramped
      got == Selection(mask, finish)
  IN IF finish.grow = 0 /\ finish.feather = 0 /\ ~finish.antiAlias THEN got = None
     ELSE got = softened

\* A distance relaxed `generations` times is the whole one where a path of so
\* few steps reaches, and no nearer anywhere (mod.rs distances).
DistancesAreWhole(mask, zeroWhen, generations) ==
  \E got \in {Distances(mask, zeroWhen, generations)}, whole \in {Exact(mask, zeroWhen, None)} :
    \A p \in DOMAIN mask :
      /\ got[p] >= whole[p]
      /\ whole[p] <= 3 * generations => got[p] = whole[p]

\* A selection as containsPoint reads it: the last step first.
Holds(steps, p, held(_, _)) ==
  FoldLeft(LAMBDA inside, step :
             LET hit == IF "polygons" \in DOMAIN step
                        THEN \E n \in DOMAIN step.polygons : p \in step.polygons[n]
                        ELSE held(step.steps, p)
             IN CASE step.combine = "replace" -> hit
                  [] step.combine = "add" -> inside \/ hit
                  [] step.combine = "subtract" -> inside /\ ~hit
                  [] step.combine = "intersect" -> inside /\ hit,
           FALSE, steps)

HoldsInner(steps, p) == Holds(steps, p, LAMBDA inner, q : FALSE)

\* The bit planes leave set exactly the pixels the selection holds, however
\* its steps nest: no polygon's parity and no inner selection's plane is
\* left to the next (region.rs laid).
RegionIsItsSteps(steps, box) ==
  RegionMask(steps) = {p \in box : Holds(steps, p, HoldsInner)}

\* The least triangle, by the mesh's order, on whose side of all three edges
\* a pixel's centre lies.
FirstToHold(mesh, p) ==
  LET points == [n \in DOMAIN mesh.destination |-> <<Quantized(mesh.destination[n][1]), Quantized(mesh.destination[n][2])>>]
      centre == <<(2 * p[1] + 1) * (Q \div 2), (2 * p[2] + 1) * (Q \div 2)>>
      sides(at) == {Cross(From(points[at[k]], points[at[(k % 3) + 1]]), From(points[at[k]], centre)) : k \in 1..3}
      flat(at) == Cross(From(points[at[1]], points[at[2]]), From(points[at[1]], points[at[3]])) = 0
      holds(at) == ~flat(at) /\ ((\A n \in sides(at) : n >= 0) \/ (\A n \in sides(at) : n <= 0))
      holding == {n \in DOMAIN Corners(mesh) : holds(Corners(mesh)[n])}
  IN IF holding = {} THEN None ELSE Min(holding)

\* A pixel is painted by the first triangle of the grid that holds its centre
\* (mesh.wgsl), wherever the window lies: no dispatch's box leaves one out.
\* `mesh` has points in reach.
MeshPaintsTheFirst(mesh, window, room) ==
  LET owners == Owners(mesh, window, room)
  IN IF \E n \in {1, 2} : ~InReach(window.at[n], window.size[n]) THEN owners = None
     ELSE owners # None =>
            owners = [p \in Box(window.size[1], window.size[2]) |-> FirstToHold(mesh, <<window.at[1] + p[1], window.at[2] + p[2]>>)]

\* A mesh moved, turned over or enlarged by whole numbers shows each pixel
\* the source's own that its centre lands in, whatever part of it the
\* window is; a mesh at rest is a copy. `scale` is not 0, `move` in pixels,
\* the source's corner at `sourceAt` in pixels.
WarpIsItsMap(columns, rows, pitch, scale, move, sourceAt, picture, window, room) ==
  LET point(n) == <<pitch * ((n - 1) % (columns + 1)), pitch * ((n - 1) \div (columns + 1))>>
      source == [n \in 1..(columns + 1) * (rows + 1) |-> <<point(n)[1] + 2 * Q * sourceAt[1], point(n)[2] + 2 * Q * sourceAt[2]>>]
      mesh == [columns |-> columns, rows |-> rows, source |-> source,
               destination |-> [n \in DOMAIN source |-> <<scale[1] * source[n][1] + 2 * Q * move[1],
                                                           scale[2] * source[n][2] + 2 * Q * move[2]>>]]
      got == WarpMesh(mesh, picture, <<sourceAt[1] * MapOne, sourceAt[2] * MapOne>>, window, room)
      landed(x, axis) == LET n == (2 * (x - move[axis]) + 1) * Sign(scale[axis])
                         IN (n \div (2 * Abs(scale[axis]))) - sourceAt[axis]
      shown(p) ==
        LET at == <<window.at[1] + p[1], window.at[2] + p[2]>>
        IN IF FirstToHold(mesh, at) = None THEN 0 ELSE ByteAt(picture.texels, <<landed(at[1], 1), landed(at[2], 2)>>)
  IN got # None => got = [p \in Box(window.size[1], window.size[2]) |-> shown(p)]

\* One map's window is its part of the whole.
WindowIsItsPart(picture, map, window, inner, room) ==
  LET whole == WarpOne(picture, map, window, room)
      part == WarpOne(picture, map, inner, room)
  IN whole # None /\ part # None =>
       \A p \in DOMAIN part :
         LET at == <<p[1] + inner.at[1] - window.at[1], p[2] + inner.at[2] - window.at[2]>>
         IN at \in DOMAIN whole => part[p] = whole[at]

-----------------------------------------------------------------------------
(* The picture a flood fills                                               *)

Inside(picture) ==
  LET box == picture.inside IN (box[1]..box[3] - 1) \X (box[2]..box[4] - 1)

TilesOf(picture) == (0..picture.across - 1) \X (0..picture.down - 1)
TilePixels(tile) ==
  (tile[1] * Side..tile[1] * Side + Side - 1) \X (tile[2] * Side..tile[2] * Side + Side - 1)

Near(a, b, tolerance) == IF a > b THEN a - b <= tolerance ELSE b - a <= tolerance

-----------------------------------------------------------------------------
(* The flood                                                               *)

\* What may fill, and the seed filled whatever it reads as; None where the
\* box or the seed is off the picture.
Begin(picture, seed, tolerance) ==
  IF \/ picture.inside[3] > picture.across * Side
     \/ picture.inside[4] > picture.down * Side
     \/ seed \notin Inside(picture)
  THEN None
  ELSE [fillable |-> {p \in Inside(picture) :
                        Near(picture.colours[p], picture.colours[seed], tolerance)},
        filled |-> {seed}]

Ways == {<<1, 0>>, <<-1, 0>>, <<0, 1>>, <<0, -1>>}

\* Where `way` leads from p, p where nothing there may fill.
Entered(p, way, fill) ==
  LET side == <<p[1] + way[1], p[2] + way[2]>> IN IF side \in fill THEN side ELSE p

Spreads(seeds, fill) == seeds \union {Entered(p, way, fill) : p \in seeds, way \in Ways}

\* Mutant: a tile's workgroup that reads nothing beside it.
RoundAlone(tile, fillable, filled) ==
  LET pixels == TilePixels(tile)
      fill == fillable \intersect pixels
  IN FoldLeft(LAMBDA seen, k : Spreads(seen, fill), filled \intersect pixels,
              [k \in 1..(Side * Side) |-> k])

\* What a tile's workgroup leaves: what had filled in it, and beside it
\* across its sides, spread through it until nothing in it moves.
RoundOver(tile, fillable, filled) ==
  LET pixels == TilePixels(tile)
      fill == fillable \intersect pixels
      across == {p \in fill : Sides(p) \intersect (filled \ pixels) # {}}
  IN FoldLeft(LAMBDA seen, k : Spreads(seen, fill), (filled \intersect pixels) \union across,
              [k \in 1..(Side * Side) |-> k])

Round(picture, fillable, filled) ==
  LET put == UNION {RoundOver(tile, fillable, filled) : tile \in TilesOf(picture)}
  IN {p \in fillable : p \in put}

\* The rounds between two looks: the planes put in turn, the flags raised.
Look(picture, fillable, held) ==
  LET round(each, k) ==
        LET from == each.planes[each.at]
            to == Round(picture, fillable, from)
        IN [at |-> 3 - each.at,
            planes |-> [each.planes EXCEPT ![3 - each.at] = to],
            moved |-> Append(each.moved, to # from)]
  IN FoldLeft(round, [held EXCEPT !.moved = <<>>], [k \in 1..Rounds |-> k])

Still(held) == \E k \in DOMAIN held.moved : ~held.moved[k]

\* Looks until one finds a round that moved nothing. No flood takes more
\* looks than it has pixels.
Spread(picture, fillable, filled) ==
  LET start == [at |-> 1, planes |-> <<filled, {}>>, moved |-> <<>>]
      looks[k \in 0..(Cardinality(fillable) + 1)] ==
        IF k = 0 THEN start
        ELSE LET held == looks[k - 1]
             IN IF Still(held) THEN held ELSE Look(picture, fillable, held)
      done == looks[Cardinality(fillable) + 1]
  IN done.planes[done.at]

Region(picture, seed, tolerance) ==
  LET begun == Begin(picture, seed, tolerance)
  IN IF begun = None THEN None ELSE Spread(picture, begun.fillable, begun.filled)

-----------------------------------------------------------------------------
(* A crop of a plane of bits as a mask of bytes, and back to the grid      *)

Cropped(bits, crop) ==
  [p \in Box(crop[3] - crop[1], crop[4] - crop[2]) |->
     IF <<crop[1] + p[1], crop[2] + p[2]>> \in bits THEN 255 ELSE 0]

OnCrop(p, crop) == <<p[1] - crop[1], p[2] - crop[2]>>

-----------------------------------------------------------------------------
(* The gap close                                                           *)

Halved(gap, k) == gap \div (2 ^ k)

\* Mutant: the halved gap's pixels against the distance's chamfer units.
FloodGapInPixels(gap, seedDistance) ==
  LET far == {k \in 0..gap : Halved(gap, k) = 0 \/ seedDistance > Halved(gap, k)}
  IN 3 * Halved(gap, Min(far))

\* The gap halved until the seed lies past 3 of it from what may not fill:
\* the threshold.
FloodGap(gap, seedDistance) ==
  LET far == {k \in 0..gap : Halved(gap, k) = 0 \/ seedDistance > 3 * Halved(gap, k)}
  IN 3 * Halved(gap, Min(far))

ByDistance(fillable, distances, crop, kept) ==
  {p \in fillable : distances[OnCrop(p, crop)] \in kept}

GapClosed(picture, seed, tolerance, gap) ==
  LET begun == Begin(picture, seed, tolerance)
      crop == picture.inside
      closed(fillable) ==
        LET barriers == Distances(Cropped(fillable, crop), 0, gap)
            erodePast == FloodGap(gap, barriers[OnCrop(seed, crop)])
            eroded == ByDistance(fillable, barriers, crop, Nat \ (0..erodePast))
            flooded == Spread(picture, eroded, begun.filled)
            grown == Distances(Cropped(flooded, crop), 255, gap)
        IN ByDistance(fillable, grown, crop, 0..erodePast)
  IN IF begun = None THEN None ELSE closed(begun.fillable)

-----------------------------------------------------------------------------
(* The finish                                                              *)

\* The box of what has filled, its last pixels included.
Bounds(filled) ==
  [left |-> Min({p[1] : p \in filled}), right |-> Max({p[1] : p \in filled}),
   top |-> Min({p[2] : p \in filled}), bottom |-> Max({p[2] : p \in filled})]

\* Mutant: a crop the anti-alias ramp's last pixel lies past.
CropAtExpand(filled, inside, expand, antiAlias) ==
  LET bounds == Bounds(filled)
  IN <<Max({bounds.left - expand, inside[1]}), Max({bounds.top - expand, inside[2]}),
       Min({bounds.right + expand + 1, inside[3]}), Min({bounds.bottom + expand + 1, inside[4]})>>

\* That grown by what the finish reaches, cut at the picture's box.
Crop(filled, inside, expand, antiAlias) ==
  LET bounds == Bounds(filled)
      reach == expand + (IF antiAlias THEN 1 ELSE 0)
  IN <<Max({bounds.left - reach, inside[1]}), Max({bounds.top - reach, inside[2]}),
       Min({bounds.right + reach + 1, inside[3]}), Min({bounds.bottom + reach + 1, inside[4]})>>

Finish(filled, inside, expand, antiAlias) ==
  LET crop == Crop(filled, inside, expand, antiAlias)
      cropped == Cropped(filled, crop)
  IN [crop |-> crop,
      mask |-> IF expand = 0 /\ ~antiAlias THEN cropped ELSE Fill(cropped, expand, antiAlias)]

-----------------------------------------------------------------------------
(* The picture on the canvas: picture.rs                                    *)

\* The composite's tiles over the grid the box [left, top, right, bottom)
\* meets, at tile column and row `grid`; nothing past the box. None where it
\* holds no pixel.
Shown(shows, extent) ==
  LET grid == <<extent[1] \div Side, extent[2] \div Side>>
      across == ((extent[3] - 1) \div Side) + 1 - grid[1]
      down == ((extent[4] - 1) \div Side) + 1 - grid[2]
      at(p) == <<p[1] + grid[1] * Side, p[2] + grid[2] * Side>>
      in(p) == p[1] \in extent[1]..extent[3] - 1 /\ p[2] \in extent[2]..extent[4] - 1
  IN IF extent[1] >= extent[3] \/ extent[2] >= extent[4] THEN None
     ELSE [grid |-> grid,
           picture |-> [colours |-> [p \in Box(across * Side, down * Side) |-> IF in(at(p)) THEN shows[at(p)] ELSE 0],
                        across |-> across, down |-> down,
                        inside |-> <<extent[1] - grid[1] * Side, extent[2] - grid[2] * Side,
                                     extent[3] - grid[1] * Side, extent[4] - grid[2] * Side>>]]

\* Where a press lands on the grid, or none off it.
OnGrid(shown, p) ==
  LET at == <<p[1] - shown.grid[1] * Side, p[2] - shown.grid[2] * Side>>
  IN IF at \in DOMAIN shown.picture.colours THEN at ELSE None

\* Mutant: a fill's mask lies at its crop's own corner of the grid.
OnCanvasUngridded(shown, finished) ==
  [at |-> <<finished.crop[1], finished.crop[2]>>, bytes |-> finished.mask]

\* A fill finished on the picture, as a mask on the canvas.
OnCanvas(shown, finished) ==
  [at |-> <<shown.grid[1] * Side + finished.crop[1], shown.grid[2] * Side + finished.crop[2]>>,
   bytes |-> finished.mask]

\* The colour picked at a pixel, None where nothing is laid; no pixel past
\* the last is.
Pick(shows, p) ==
  LET shown == Shown(shows, <<p[1], p[2], p[1] + 1, p[2] + 1>>)
      colour == shown.picture.colours[<<p[1] % Side, p[2] % Side>>]
  IN IF colour = 0 THEN None ELSE colour

-----------------------------------------------------------------------------
(* Laws of the fills                                                       *)

\* The pixels joined to those of `seeds` through `fill`.
Joined(seeds, fill) ==
  LET seen[k \in 0..Cardinality(fill)] ==
        IF k = 0 THEN seeds ELSE LET before == seen[k - 1] IN Spreads(before, fill)
  IN seen[Cardinality(fill)]

\* A flood fills the pixels 4-joined to the seed through those within the
\* tolerance, no more and no fewer, however its tiles and looks fall
\* (flood.wgsl "one set however it is found").
FloodIsJoined(picture, seed, tolerance) ==
  LET may == {p \in Inside(picture) : Near(picture.colours[p], picture.colours[seed], tolerance)}
  IN Region(picture, seed, tolerance) = Joined({seed}, may)

\* A gap close fills what _gapCloseFloodRegion does by whole distances, and
\* never past what may fill; with no gap it is the plain flood.
GapIsClosed(picture, seed, tolerance, gap) ==
  LET crop == picture.inside
      may == {p \in Inside(picture) : Near(picture.colours[p], picture.colours[seed], tolerance)}
      threshold == \* the widest halving the seed survives
        LET from == Exact(Cropped(may, crop), 0, None)[OnCrop(seed, crop)]
            widths == {Halved(gap, k) : k \in 0..gap}
        IN 3 * Max({0} \union {width \in widths : from > 3 * width})
      got == GapClosed(picture, seed, tolerance, gap)
  IN \E barriers \in {Exact(Cropped(may, crop), 0, None)} :
       \E flooded \in {Joined({seed}, {p \in may : barriers[OnCrop(p, crop)] > threshold})} :
         \E grown \in {Exact(Cropped(flooded, crop), 255, None)} :
           /\ got = {p \in may : grown[OnCrop(p, crop)] <= threshold}
           /\ seed \in got
           /\ gap = 0 => got = Region(picture, seed, tolerance)

\* A fill finished over its crop is the fill finished over the whole picture:
\* the crop leaves out only pixels the finish leaves nothing on
\* (flood/mod.rs "cropped to its box grown by what the finish reaches").
CropLosesNothing(filled, inside, expand, antiAlias) ==
  LET done == Finish(filled, inside, expand, antiAlias)
      crop == done.crop
      cropped == (crop[1]..crop[3] - 1) \X (crop[2]..crop[4] - 1)
      whole == Cropped(filled, inside)
      finished == IF expand = 0 /\ ~antiAlias THEN whole ELSE Fill(whole, expand, antiAlias)
  IN [p \in DOMAIN whole |->
        LET at == <<p[1] + inside[1], p[2] + inside[2]>>
        IN IF at \in cropped THEN done.mask[OnCrop(at, crop)] ELSE 0] = finished

\* A bucket pressed on the canvas fills, there, the pixels joined to the
\* press by its colour within the box shown, wherever the box's tiles fall
\* (picture.rs "one picture, made by one road"), and the eyedropper picks of
\* a pixel what shows there.
FillLandsWhereItReads(shows, extent, press, tolerance) ==
  LET shown == Shown(shows, extent)
      box == (extent[1]..extent[3] - 1) \X (extent[2]..extent[4] - 1)
      on == OnGrid(shown, press)
      filled == IF on = None THEN None ELSE Region(shown.picture, on, tolerance)
      laid == OnCanvas(shown, Finish(filled, shown.picture.inside, 0, FALSE))
      may == {p \in box : Near(shows[p], shows[press], tolerance)}
  IN /\ box = {} => shown = None
     /\ box # {} /\ press \in box =>
          {<<laid.at[1] + p[1], laid.at[2] + p[2]>> : p \in {q \in DOMAIN laid.bytes : laid.bytes[q] # 0}}
            = Joined({press}, may)
     /\ box # {} /\ press \notin box => filled = None
     /\ Pick(shows, press) = IF shows[press] = 0 THEN None ELSE shows[press]
=============================================================================
