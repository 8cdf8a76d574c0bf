----------------------------- MODULE Composite -----------------------------
(***************************************************************************)
(* The row composite (kernels/composite/mod.rs and composite.wgsl): a plan *)
(* of rows, folders and clipping groups, walked bottom to top over output  *)
(* tiles. The device binds few pages a pass and a pass holds few levels of *)
(* the stack, so the plan is cut: a copied row is parted by page, any      *)
(* other pose's by groups of output tiles, a row reading too many pages    *)
(* under one tile has its tiles gathered onto a page of their own, the     *)
(* steps become batches, and the output tiles chunks, the stack and the    *)
(* mask's rows waiting in one work buffer between them.                    *)
(*                                                                         *)
(* A pixel is what it is made of: a level of the stack is the sequence of  *)
(* the layers laid on it, a layer naming its step, the stored texels it    *)
(* shows and the mask's bytes it is covered by. Two walks give one byte    *)
(* when they lay the same layers. TileSide is 128 in the code. A step is a *)
(* record of its kind: "row" [set, map, masked], "mark" [map], "solid"     *)
(* [rect], "open", "opaque", "close", "atop". A map is R1's in half pixels:*)
(* x' = (ax + by + c)/2, y' = (dx + ey + f)/2, or a homography.            *)
(***************************************************************************)
EXTENDS KernelPages

CONSTANT TileSide, Depth

Texels == TileSide * TileSide
Corner(tile) == <<tile[1] * TileSide, tile[2] * TileSide>>
TileBox(tile) == LET at == Corner(tile) IN <<at[1], at[2], at[1] + TileSide, at[2] + TileSide>>
Pixels(tile) == LET box == TileBox(tile) IN (box[1]..box[3] - 1) \X (box[2]..box[4] - 1)
TexelOf(x, y) == ((y % TileSide) * TileSide) + (x % TileSide)

-----------------------------------------------------------------------------
(* R1's map                                                                *)

\* How far past where its corners land a pixel reads, in pixels.
Slack == 1

Moved(dx, dy) == [a |-> 2, b |-> 0, c |-> -2 * dx, d |-> 0, e |-> 2, f |-> -2 * dy, affine |-> TRUE]

IsCopy(map) ==
  /\ map.affine /\ map.a = 2 /\ map.e = 2 /\ map.b = 0 /\ map.d = 0
  /\ map.c % 2 = 0 /\ map.f % 2 = 0

FloorHalf(v) == v \div 2
CeilHalf(v) == -((-v) \div 2)

\* The source pixels the pixels of `box` can read, or None - unbounded.
Reads(map, box) ==
  IF IsCopy(map)
  THEN <<box[1] + map.c \div 2, box[2] + map.f \div 2, box[3] + map.c \div 2, box[4] + map.f \div 2>>
  ELSE IF ~map.affine THEN None
  ELSE LET us == {map.a * x + map.b * y + map.c : x \in {box[1], box[3]}, y \in {box[2], box[4]}}
           vs == {map.d * x + map.e * y + map.f : x \in {box[1], box[3]}, y \in {box[2], box[4]}}
       IN <<FloorHalf(Min(us) - 2 * Slack), FloorHalf(Min(vs) - 2 * Slack),
            CeilHalf(Max(us) + 2 * Slack), CeilHalf(Max(vs) + 2 * Slack)>>

\* The source pixels one pixel reads: resample.wgsl's, as far as its map may
\* reach - a homography's far from its neighbours'.
Footprint(map, x, y) ==
  IF map.affine
  THEN LET box == Reads(map, <<x, y, x + 1, y + 1>>)
       IN (box[1]..box[3] - 1) \X (box[2]..box[4] - 1)
  ELSE {<<x * x, y>>}

-----------------------------------------------------------------------------
(* A row's tile set                                                        *)

TileAt(set, column, row) ==
  LET c == column - set.x0
      r == row - set.y0
  IN IF c \in 0..(set.columns - 1) /\ r \in 0..(set.rows - 1)
     THEN set.tiles[r * set.columns + c + 1] ELSE None

\* The set's stored tiles under the pixels of `box`, or all of them for None,
\* each [place, at], row after row.
PlacedUnder(set, box) ==
  LET left == IF box = None THEN set.x0 ELSE Max({box[1] \div TileSide, set.x0})
      top == IF box = None THEN set.y0 ELSE Max({box[2] \div TileSide, set.y0})
      right == IF box = None THEN set.x0 + set.columns
               ELSE Min({(box[3] - 1) \div TileSide + 1, set.x0 + set.columns})
      bottom == IF box = None THEN set.y0 + set.rows
                ELSE Min({(box[4] - 1) \div TileSide + 1, set.y0 + set.rows})
      across == Less(right, left)
      tile(n) == <<left + ((n - 1) % across), top + ((n - 1) \div across)>>
      placed(n) == [place |-> tile(n), at |-> TileAt(set, tile(n)[1], tile(n)[2])]
  IN SelectSeq([n \in 1..(across * Less(bottom, top)) |-> placed(n)],
               LAMBDA each : each.at # None)

\* Mutant: the gathered tiles laid one after another with no gaps.
PlacedClose(page, places) ==
  LET x0 == Min({place[1] : place \in ToSet(places)})
      y0 == Min({place[2] : place \in ToSet(places)})
  IN [x0 |-> x0, y0 |-> y0, columns |-> Len(places), rows |-> 1,
      tiles |-> [n \in DOMAIN places |-> [page |-> page, slot |-> n - 1]]]

\* The tile set of `places` at slot after slot of `page`.
PlacedOn(page, places) ==
  LET xs == {place[1] : place \in ToSet(places)}
      ys == {place[2] : place \in ToSet(places)}
      x0 == Min(xs)
      y0 == Min(ys)
      columns == Max(xs) - x0 + 1
      rows == Max(ys) - y0 + 1
      at(n) == <<x0 + ((n - 1) % columns), y0 + ((n - 1) \div columns)>>
  IN [x0 |-> x0, y0 |-> y0, columns |-> columns, rows |-> rows,
      tiles |-> [n \in 1..(columns * rows) |->
                   IF at(n) \in ToSet(places)
                   THEN [page |-> page, slot |-> (CHOOSE s \in 1..Len(places) : places[s] = at(n)) - 1]
                   ELSE None]]

-----------------------------------------------------------------------------
(* The plan is asked whether it can be walked                              *)

MaskedMap(step) ==
  IF step.kind = "mark" \/ (step.kind = "row" /\ step.masked) THEN step.map ELSE None

After(step, depth) ==
  CASE step.kind \in {"open", "opaque"} -> depth + 1
    [] step.kind \in {"close", "atop"} -> depth - 1
    [] OTHER -> depth

\* A mask's plane holds its box.
HoldsItsBox(mask) == Len(mask.bytes) >= mask.width * mask.height

\* Depth after each step, -1 from the first close of nothing or set there is
\* none of.
Walkable(plan) ==
  LET next(depth, step) ==
        IF depth < 0 \/ (step.kind = "row" /\ step.set \notin DOMAIN plan.sets) THEN -1
        ELSE After(step, depth)
  IN /\ FoldLeft(next, 0, plan.steps) = 0
     /\ IF plan.mask = None THEN \A k \in DOMAIN plan.steps : MaskedMap(plan.steps[k]) = None
        ELSE HoldsItsBox(plan.mask)

-----------------------------------------------------------------------------
(* The steps as the passes take them: [step, name, pages, live]            *)

\* The pages output tile `tile` reads of the row, in the order met.
PagesRead(plan, step, tile) ==
  LET under == PlacedUnder(plan.sets[step.set], Reads(step.map, TileBox(tile)))
      adds(pages, each) == IF each.at.page \in ToSet(pages) THEN pages ELSE Append(pages, each.at.page)
  IN FoldLeft(adds, <<>>, under)

Laying(plan, k, pages, live) ==
  [step |-> plan.steps[k], name |-> k, pages |-> pages, live |-> live]

PagesIn(reads) == UNION {ToSet(reads[t]) : t \in DOMAIN reads}

\* A copied row once a page: a pixel reads one tile of it.
Parted(plan, k, reads) ==
  LET pages == SetToSortSeq(PagesIn(reads), <)
  IN [p \in DOMAIN pages |->
        Laying(plan, k, <<pages[p]>>, {t \in DOMAIN reads : pages[p] \in ToSet(reads[t])})]

Joins(group, read, perPass) == Cardinality(ToSet(group.pages) \union ToSet(read)) <= perPass

\* Any other pose once a group of output tiles: a tile joins the first group
\* whose pages and its own a pass binds, or starts one.
Grouped(plan, k, reads, perPass) ==
  LET places(groups, t) ==
        LET fitting == {g \in DOMAIN groups : Joins(groups[g], reads[t], perPass)}
            fresh(group) == SelectSeq(reads[t], LAMBDA page : page \notin ToSet(group.pages))
        IN IF reads[t] = <<>> THEN groups
           ELSE IF fitting = {} THEN Append(groups, Laying(plan, k, reads[t], {t}))
           ELSE [groups EXCEPT ![Min(fitting)].pages = @ \o fresh(groups[Min(fitting)]),
                               ![Min(fitting)].live = @ \union {t}]
  IN FoldLeft(places, <<>>, [t \in DOMAIN reads |-> t])

Lay(plan, tiles, perPass) ==
  LET reads(step) == [t \in DOMAIN tiles |-> PagesRead(plan, step, tiles[t])]
      laid(k) == LET step == plan.steps[k]
                 IN IF step.kind # "row" THEN <<Laying(plan, k, <<>>, DOMAIN tiles)>>
                    ELSE IF IsCopy(step.map) THEN Parted(plan, k, reads(step))
                    ELSE Grouped(plan, k, reads(step), perPass)
  IN IF \E k \in DOMAIN plan.steps :
          plan.steps[k].kind = "row" /\ ~(PagesIn(reads(plan.steps[k])) \subseteq DOMAIN plan.pages)
     THEN None
     ELSE FlattenSeq([k \in DOMAIN plan.steps |-> laid(k)])

-----------------------------------------------------------------------------
(* The passes                                                              *)

\* The levels a step reads and writes, lowest and highest.
Reach(step, depth) ==
  CASE step.kind \in {"open", "opaque"} -> <<depth, depth + 1>>
    [] step.kind \in {"close", "atop"} -> <<depth - 1, depth>>
    [] OTHER -> <<depth, depth>>

\* Mutant: the levels begin at the depth, so what closes reads none under it.
BaseAtDepth(depth, high, levels) == Max({depth, Less(high + 1, levels)})

\* Half the levels a pass holds under the depth, but none so low that the
\* step's highest is past the top.
BaseAround(depth, high, levels) == Max({Less(depth, levels \div 2), Less(high + 1, levels)})

CutSteps(laid, perPass, levels) ==
  LET begins(index, base, depth) ==
        [begin |-> index, end |-> index, base |-> base, depthIn |-> depth, depthOut |-> depth,
         high |-> depth, pages |-> <<>>]
      takes(made, index) ==
        LET each == laid[index]
            batch == made.batch
            low == Reach(each.step, made.depth)[1]
            high == Reach(each.step, made.depth)[2]
            outside == low < batch.base \/ high >= batch.base + levels
            full == Cardinality(ToSet(batch.pages) \union ToSet(each.pages)) > perPass
            base == IF outside THEN BaseAround(made.depth, high, levels) ELSE batch.base
            into == IF full \/ outside THEN begins(index, base, made.depth) ELSE batch
            binds == SelectSeq(each.pages, LAMBDA page : page \notin ToSet(into.pages))
        IN [batches |-> IF full \/ outside
                        THEN Append(made.batches,
                               [batch EXCEPT !.end = index, !.depthOut = made.depth])
                        ELSE made.batches,
            batch |-> [into EXCEPT !.high = Max({@, high}), !.pages = @ \o binds],
            depth |-> After(each.step, made.depth)]
      made == FoldLeft(takes, [batches |-> <<>>, batch |-> begins(1, 0, 0), depth |-> 0],
                       [index \in DOMAIN laid |-> index])
  IN Append(made.batches, [made.batch EXCEPT !.end = Len(laid) + 1, !.depthOut = made.depth])

Levels(batch) == batch.high + 1 - batch.base

\* Mutant: the mask's rows its tiles lie on, wherever the maps land them.
BandUnderTiles(mask, maps, tiles) ==
  LET ys == {Corner(tile)[2] : tile \in tiles}
      row(y) == Min({Max({y - mask.at[2], 0}), mask.height})
  IN <<row(Min(ys)), row(Max(ys) + TileSide)>>

\* The rows of the mask's box, [from, to), that the steps laid under it read
\* over `tiles`; every row under a homography.
ReadBand(mask, maps, tiles) ==
  LET xs == {Corner(tile)[1] : tile \in tiles}
      ys == {Corner(tile)[2] : tile \in tiles}
      box == <<Min(xs), Min(ys), Max(xs) + TileSide, Max(ys) + TileSide>>
      read == {Reads(map, box) : map \in maps}
      row(y) == Min({Max({y - mask.at[2], 0}), mask.height})
      top == Min({each[2] : each \in read})
      bottom == Max({each[4] : each \in read})
  IN IF None \in read THEN <<0, mask.height>>
     ELSE IF read = {} THEN <<0, 0>>
     ELSE IF top >= bottom THEN <<0, 0>>
     ELSE <<row(top), row(bottom)>>

\* The rows a run of `tiles' is given of the mask.
BandOf(plan, laid, tiles) ==
  LET maps == {MaskedMap(laid[k].step) : k \in DOMAIN laid} \ {None}
  IN IF plan.mask = None THEN <<0, 0>> ELSE ReadBand(plan.mask, maps, ToSet(tiles))

-----------------------------------------------------------------------------
(* What a pass lays: composite.wgsl                                        *)

\* A level never put holds what no level is.
Junk == <<<<"junk">>>>

\* The texels a row shows at (x, y): those of its step's pages that the pass
\* binds.
RowShows(plan, batch, each, x, y) ==
  LET set == plan.sets[each.step.set]
      texel(source) ==
        LET at == TileAt(set, source[1] \div TileSide, source[2] \div TileSide)
        IN IF \/ at = None
              \/ at.page \notin Min(ToSet(each.pages))..Max(ToSet(each.pages))
              \/ PageTable(batch.pages, DOMAIN plan.pages)[at.page] = None
           THEN 0 ELSE plan.pages[at.page][at.slot][TexelOf(source[1], source[2])]
  IN {texel(source) : source \in Footprint(each.step.map, x, y)} \ {0}

\* The mask's bytes that cover the step at (x, y), read of the rows the pass
\* was given; All where it is laid under none.
All == {<<>>}

Cover(mask, band, words, step, x, y) ==
  IF MaskedMap(step) = None THEN All
  ELSE LET column(source) == source[1] - mask.at[1]
           row(source) == source[2] - (mask.at[2] + band[1])
           inside == {source \in Footprint(step.map, x, y) :
                        column(source) \in 0..(mask.width - 1) /\ row(source) \in 0..(band[2] - band[1] - 1)}
       IN {words[row(source) * mask.width + column(source)] : source \in inside} \ {0}

InRect(rect, x, y) == x \in rect[1]..(rect[3] - 1) /\ y \in rect[2]..(rect[4] - 1)

\* A layer on a level, none where nothing shows.
OnTop(level, layer, shows) == IF shows THEN Append(level, layer) ELSE level

Level(stack, level) == IF level \in DOMAIN stack THEN stack[level] ELSE Junk

\* The stack after a step at depth `top`, given what it shows and its cover.
Laid(stack, top, each, shown, cover) ==
  LET step == each.step
      puts(level, value) == IF level \in DOMAIN stack THEN [stack EXCEPT ![level] = value] ELSE stack
      held == Level(stack, top)
      under == Level(stack, top - 1)
  IN CASE step.kind \in {"row", "solid", "mark"} ->
            puts(top, OnTop(held, <<step.kind, each.name, shown, cover>>, shown # {} /\ cover # {}))
       [] step.kind = "open" -> puts(top + 1, <<>>)
       [] step.kind = "opaque" -> puts(top + 1, <<<<"opaque", held>>>>)
       [] step.kind = "close" -> puts(top - 1, Append(under, <<"close", each.name, held>>))
       [] step.kind = "atop" -> puts(top - 1, <<<<"atop", held, under>>>>)

Shown(plan, batch, each, x, y, live) ==
  CASE each.step.kind = "row" -> IF live THEN RowShows(plan, batch, each, x, y) ELSE {}
    [] each.step.kind = "solid" -> IF InRect(each.step.rect, x, y) THEN {1} ELSE {}
    [] OTHER -> {1}

-----------------------------------------------------------------------------
(* The walk                                                                *)

\* One pass over a run of output tiles: the work buffer after it. A level
\* has a place a texel of each tile, the picture waits past the kept levels,
\* and the mask's rows past it.
Pass(plan, laid, batch, place, work) ==
  LET count == Len(place.tiles)
      planeSize == count * Texels
      levelAt(level, t, texel) == level * planeSize + (t - 1) * Texels + texel
      maskWords == [at \in Nat |-> work[place.maskAt + at]]
      registers == batch.base..batch.base + Levels(batch) - 1
      loaded(t, texel) ==
        [level \in registers |->
           IF batch.begin = 1 /\ place.first THEN (IF level = 0 THEN <<>> ELSE Junk)
           ELSE IF level <= batch.depthIn THEN work[levelAt(level, t, texel)] ELSE Junk]
      steps == [n \in 1..(batch.end - batch.begin) |-> batch.begin + n - 1]
      walked(t, texel) ==
        LET x == Corner(place.tiles[t])[1] + (texel % TileSide)
            y == Corner(place.tiles[t])[2] + (texel \div TileSide)
            lays(made, index) ==
              LET each == laid[index]
                  live == place.offset + t \in each.live
              IN [top |-> After(each.step, made.top),
                  stack |-> Laid(made.stack, made.top, each,
                                 Shown(plan, batch, each, x, y, live),
                                 Cover(plan.mask, place.band, maskWords, each.step, x, y))]
            stack == FoldLeft(lays, [top |-> batch.depthIn, stack |-> loaded(t, texel)], steps).stack
        IN IF ~place.last THEN stack
           ELSE [stack EXCEPT ![0] = IF InRect(place.extent, x, y) THEN @ ELSE <<>>]
      left == [t \in 1..count |-> [texel \in 0..(Texels - 1) |-> walked(t, texel)]]
      puts(at) ==
        LET level == at \div planeSize
            value == Level(left[((at % planeSize) \div Texels) + 1][at % Texels],
                           IF place.last THEN 0 ELSE level)
        IN IF place.last THEN (IF level = place.kept THEN value ELSE work[at])
           ELSE IF level \in batch.base..batch.depthOut THEN value ELSE work[at]
  IN [at \in DOMAIN work |-> IF at < place.maskAt THEN puts(at) ELSE work[at]]

\* A run's passes over `tiles` from the first batch to the last, and the
\* picture they leave: a value for each texel of each tile.
RunPasses(plan, laid, batches, tiles, run, kept, extent) ==
  LET mine == SubSeq(tiles, run.first, run.last)
      band == BandOf(plan, laid, mine)
      width == IF plan.mask = None THEN 0 ELSE plan.mask.width
      outAt == kept * Texels * Len(mine)
      maskAt == outAt + Texels * Len(mine)
      fresh == [at \in 0..(maskAt + (band[2] - band[1]) * width - 1) |->
                  IF at < maskAt THEN Junk ELSE plan.mask.bytes[band[1] * width + at - maskAt + 1]]
      place(index) ==
        [tiles |-> mine, offset |-> run.first - 1, first |-> index = 1, last |-> index = Len(batches),
         kept |-> kept, maskAt |-> maskAt, band |-> band, extent |-> extent]
      work == FoldLeft(LAMBDA held, index : Pass(plan, laid, batches[index], place(index), held),
                       fresh, [index \in DOMAIN batches |-> index])
  IN [t \in DOMAIN mine |-> [texel \in 0..(Texels - 1) |-> work[outAt + (t - 1) * Texels + texel]]]

\* The levels a pass keeps for the next, one pass keeping none.
Kept(batches) ==
  Max({0} \union {batches[b].depthOut + 1 : b \in 1..(Len(batches) - 1)})

\* A tile's share of a pass reserves the mask's rows it lies on; a pose that
\* reads more of them than a binding then has room for is refused.
WalkLaid(plan, laid, tiles, extent, device, budget) ==
  LET batches == CutSteps(laid, budget.pages, budget.levels)
      kept == Kept(batches)
      band == IF plan.mask = None THEN 0 ELSE plan.mask.width * TileSide
      most == TilesAPass(device, (kept + 1) * Texels + band, 0)
      chunk == Min({most, budget.tiles, Max({Len(tiles), 1})})
      rows == [t \in DOMAIN tiles |-> IF plan.mask = None THEN None ELSE tiles[t][2]]
      runs == Runs([t \in DOMAIN tiles |-> None], rows, 1, chunk)
      banded(r) == LET given == BandOf(plan, laid, SubSeq(tiles, runs[r].first, runs[r].last))
                   IN IF plan.mask = None THEN 0 ELSE (given[2] - given[1]) * plan.mask.width
      size == chunk * (kept + 1) * Texels + Max({0} \union {banded(r) : r \in DOMAIN runs})
  IN IF most = None THEN None
     ELSE IF size > BindingRoom(device) THEN None
     ELSE FlattenSeq([r \in DOMAIN runs |->
                        RunPasses(plan, laid, batches, tiles, runs[r], kept, extent)])

\* What a texel left by a copy is stored as: the texel it copied.
StoredAs(value) == IF value = <<>> THEN 0 ELSE CHOOSE texel \in value[1][3] : TRUE

Everywhere == <<-1000, -1000, 1000, 1000>>

\* `places` of a tile set, each copied whole: a page of them.
Copied(plan, set, places, device, budget) ==
  LET step == [kind |-> "row", set |-> 1, map |-> Moved(0, 0), masked |-> FALSE]
      copying == [plan EXCEPT !.sets = <<set>>, !.steps = <<step>>, !.mask = None]
      laid == Lay(copying, places, budget.pages)
      left == WalkLaid(copying, laid, places, Everywhere, device, budget)
  IN IF left = None THEN None
     ELSE [slot \in 0..(Len(places) - 1) |->
        [texel \in 0..(Texels - 1) |-> StoredAs(left[slot + 1][texel])]]

\* Each step reading more pages under its one output tile than a pass binds
\* reads that tile's stored tiles gathered on a page past the plan's.
Gathered(plan, laid, tiles, device, budget) ==
  LET held == TilesAPass(device, Texels, 0)
      gathers(made, each) ==
        LET tile == tiles[CHOOSE t \in each.live : TRUE]
            set == plan.sets[each.step.set]
            under == PlacedUnder(set, Reads(each.step.map, TileBox(tile)))
            places == [n \in DOMAIN under |-> under[n].place]
            page == Len(made.plan.pages) + 1
            copied == Copied(plan, set, places, device, budget)
        IN IF made = None THEN None
           ELSE IF Len(each.pages) <= budget.pages THEN [made EXCEPT !.laid = Append(@, each)]
           ELSE IF Len(places) > held \/ copied = None THEN None
           ELSE [plan |-> [made.plan EXCEPT
                             !.pages = Append(@, copied),
                             !.sets = Append(@, PlacedOn(page, places))],
                 laid |-> Append(made.laid,
                            [each EXCEPT !.pages = <<page>>, !.step.set = Len(made.plan.sets) + 1])]
  IN FoldLeft(gathers, [plan |-> plan, laid |-> <<>>], laid)

\* `plan` composited over the output `tiles`, nothing outside `extent`: a
\* value for each texel of each tile, or None.
Walk(plan, tiles, extent, device, budget) ==
  LET laid == Lay(plan, tiles, budget.pages)
      made == IF laid = None THEN None ELSE Gathered(plan, laid, tiles, device, budget)
  IN IF ~CutBy(MostPages, budget.pages, budget.tiles) \/ budget.levels \notin 2..Depth \/ ~Walkable(plan)
     THEN None
     ELSE IF made = None THEN None
     ELSE WalkLaid(made.plan, made.laid, tiles, extent, device, budget)

StorageFormats == {"bgra8unorm", "rgba8unorm"}

\* Mutant: any edges in order.
RectInOrder(surface, rect) == rect[1] < rect[3] /\ rect[2] < rect[4]

\* A rectangle of the surface, which the pass can store to.
ShowsOn(surface, rect) ==
  /\ rect[1] < rect[3] /\ rect[2] < rect[4] /\ rect[3] <= surface.width /\ rect[4] <= surface.height
  /\ surface.format \in StorageFormats

\* A surface's rectangle composited: the tiles it lies on, and of each the
\* pixels inside it; the rest of the surface is left.
Show(plan, surface, rect, device, budget) ==
  LET tiles == SetToSortSeq((rect[1] \div TileSide..CeilDiv(rect[3], TileSide) - 1)
                              \X (rect[2] \div TileSide..CeilDiv(rect[4], TileSide) - 1),
                            LAMBDA s, t : s[2] < t[2] \/ (s[2] = t[2] /\ s[1] < t[1]))
      shown == Walk(plan, tiles, rect, device, budget)
      tileOf(pixel) == CHOOSE t \in DOMAIN tiles : pixel \in Pixels(tiles[t])
  IN IF ~ShowsOn(surface, rect) THEN None
     ELSE IF shown = None THEN None
     ELSE [pixel \in DOMAIN surface.pixels |->
             IF InRect(rect, pixel[1], pixel[2])
             THEN shown[tileOf(pixel)][TexelOf(pixel[1], pixel[2])] ELSE surface.pixels[pixel]]

-----------------------------------------------------------------------------
(* Laws                                                                    *)

\* The plan walked at (x, y) with every page bound, every level held and the
\* whole mask given.
Direct(plan, x, y) ==
  LET shows(step) ==
        IF step.kind = "solid" THEN IF InRect(step.rect, x, y) THEN {1} ELSE {}
        ELSE IF step.kind # "row" THEN {1}
        ELSE {LET at == TileAt(plan.sets[step.set], source[1] \div TileSide, source[2] \div TileSide)
              IN IF at = None THEN 0 ELSE plan.pages[at.page][at.slot][TexelOf(source[1], source[2])] :
                source \in Footprint(step.map, x, y)} \ {0}
      bytes == [at \in Nat |-> plan.mask.bytes[at + 1]]
      rows == IF plan.mask = None THEN <<0, 0>> ELSE <<0, plan.mask.height>>
      lays(made, k) ==
        LET each == [step |-> plan.steps[k], name |-> k]
        IN [top |-> After(each.step, made.top),
            stack |-> Laid(made.stack, made.top, each, shows(each.step),
                           Cover(plan.mask, rows, bytes, each.step, x, y))]
  IN FoldLeft(lays, [top |-> 0, stack |-> [level \in 0..Len(plan.steps) |-> <<>>]],
              [k \in DOMAIN plan.steps |-> k]).stack[0]

\* A device whose binding holds every level of every tile and the whole mask.
RoomForAll(plan, tiles, device) ==
  LET mask == IF plan.mask = None THEN 0 ELSE plan.mask.width * Max({plan.mask.height, TileSide * Len(tiles)})
  IN (Len(plan.steps) + 2) * Texels * Len(tiles) + mask <= BindingRoom(device)

\* Whatever pages, tiles and levels a pass takes, every output pixel has
\* laid on it, in the plan's order, what the plan lays there with everything
\* bound at once. A plan that does not close what it opens, or whose mask is
\* short, is refused, and one a device has the room for all of is not
\* (composite/mod.rs "so the cuts change no value").
CutsChangeNothing(plan, tiles, extent, device, budget) ==
  LET left == Walk(plan, tiles, extent, device, budget)
  IN IF ~Walkable(plan) THEN left = None
     ELSE IF left = None THEN ~RoomForAll(plan, tiles, device)
     ELSE /\ Len(left) = Len(tiles)
          /\ \A t \in DOMAIN tiles : \A pixel \in Pixels(tiles[t]) :
               left[t][TexelOf(pixel[1], pixel[2])]
                 = IF InRect(extent, pixel[1], pixel[2]) THEN Direct(plan, pixel[1], pixel[2]) ELSE <<>>

\* A surface shows the plan inside its rectangle and is left as it was
\* elsewhere - an atlas's other panels - and nothing is shown on a rectangle
\* of which a pixel is not the surface's (composite/mod.rs show).
ShowsInsideOnly(plan, surface, rect, device, budget) ==
  LET after == Show(plan, surface, rect, device, budget)
      across == (rect[1]..(rect[3] - 1)) \X (rect[2]..(rect[4] - 1))
  IN IF after = None
     THEN \/ ~Walkable(plan) \/ across = {} \/ ~(across \subseteq DOMAIN surface.pixels)
          \/ surface.format \notin StorageFormats
     ELSE /\ across \subseteq DOMAIN after
          /\ after = [pixel \in DOMAIN surface.pixels |->
                       IF pixel \in across THEN Direct(plan, pixel[1], pixel[2])
                       ELSE surface.pixels[pixel]]

=============================================================================
