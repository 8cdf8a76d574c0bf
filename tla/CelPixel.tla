------------------------------ MODULE CelPixel ------------------------------
(***************************************************************************)
(* The passes over a cel's stored pixels (kernels/cel_pixel): the colour   *)
(* verbs that overwrite a channel of the pixels taking part and give back  *)
(* a recipe of what those held (mod.rs, cel_pixel.wgsl), the lift of what  *)
(* a selection holds (lift.rs, lift.wgsl), the scan for ink (ink.rs,       *)
(* ink.wgsl) - and the stamp that lays a lifted picture or a mask's colour *)
(* as tiles of its own (dab/stamp.rs, stamp.wgsl).                         *)
(*                                                                         *)
(* A tile is Side pixels across and down; a pixel is its four bytes, red,  *)
(* green, blue and alpha at 0..3; a stored tile the function of its        *)
(* pixels. A cel is [x0, y0, columns, rows, tiles], a mask [left, top,     *)
(* width, height, held, bytes], held the rows its plane has. A verb is     *)
(* [bytes, base, stride, takesEmpty, selector, threshold, incoming]: the   *)
(* selector None or [names, keeps] with the colours its key names, the     *)
(* incoming [value] or [recipe, step, count]. `align` is where a binding   *)
(* may start, in runs of eight bytes.                                      *)
(***************************************************************************)
EXTENDS KernelPages

CONSTANTS Side, Fine, LastStop, Reach

Square == (0..Side - 1) \X (0..Side - 1)
Texels == Side * Side
TileBytes == 4 * Texels
Div255(n) == (n + 127) \div 255
Total(counts) == FoldLeft(LAMBDA sum, n : sum + n, 0, counts)

-----------------------------------------------------------------------------
(* The walk: the cel's tiles row by row, those it has, and under a mask     *)
(* those its box meets.                                                     *)

Within(tile, from, length) ==
  LET first == tile * Side - from IN first < length /\ first + Side > 0

Holds(mask) == mask.held >= mask.height

Walk(cel, pool, mask) ==
  IF \/ Len(cel.tiles) # cel.columns * cel.rows
     \/ mask # None /\ ~Holds(mask)
     \/ \E at \in ToSet(cel.tiles) \ {None} : at.page \notin pool
  THEN None
  ELSE LET walked(i) == [column |-> cel.x0 + ((i - 1) % cel.columns),
                         row |-> cel.y0 + ((i - 1) \div cel.columns), at |-> cel.tiles[i]]
           meets(tile) == \/ mask = None
                          \/ /\ Within(tile.column, mask.left, mask.width)
                             /\ Within(tile.row, mask.top, mask.height)
       IN SelectSeq([i \in DOMAIN cel.tiles |-> walked(i)], LAMBDA tile : tile.at # None /\ meets(tile))

\* The walk cut into passes: under a mask no pass reaches more tile rows than
\* it takes tiles.
Passes(walk, mask, perPass, most) ==
  Runs([i \in DOMAIN walk |-> walk[i].at.page],
       [i \in DOMAIN walk |-> IF mask = None THEN None ELSE walk[i].row], perPass, most)

\* Mutant: the band ends where the highest tile row starts.
BandShort(mask, rows) ==
  LET boxRow(row) == Max({0, Min({mask.height, row * Side - mask.top})})
  IN [from |-> boxRow(Min(rows)), to |-> boxRow(Max(rows))]

\* The rows of the mask's box that tiles on tile rows `rows` lie on.
Band(mask, rows) ==
  LET boxRow(row) == Max({0, Min({mask.height, row * Side - mask.top})})
  IN [from |-> boxRow(Min(rows)), to |-> boxRow(Max(rows) + 1)]

BandOf(walk, run, mask) ==
  IF mask = None THEN [from |-> 0, to |-> 0]
  ELSE Band(mask, {walk[i].row : i \in run.first..run.last})

\* A tile as a pass is given it: its page's binding, its slot, its index in
\* the walk, and where it lies among the rows of the mask from `from` on.
Entries(walk, run, pool, mask, from) ==
  [n \in 1..run.last - run.first + 1 |->
     LET i == run.first + n - 1
         tile == walk[i]
     IN [k |-> PageTable(run.bound, pool)[tile.at.page], slot |-> tile.at.slot, index |-> i,
         x |-> IF mask = None THEN 0 ELSE tile.column * Side - mask.left,
         y |-> IF mask = None THEN 0 ELSE tile.row * Side - mask.top - from]]

\* The mask's rows copied behind what a pass is given.
Copied(mask, band) ==
  IF mask = None THEN None
  ELSE [p \in (0..mask.width - 1) \X (0..band.to - band.from - 1) |->
          mask.bytes[<<p[1], p[2] + band.from>>]]

TexelOf(store, run, entry, p) == store[run.bound[entry.k]][entry.slot][p]

CoverageOf(rows, entry, p) ==
  IF rows = None THEN 255
  ELSE LET at == <<entry.x + p[1], entry.y + p[2]>> IN IF at \in DOMAIN rows THEN rows[at] ELSE 0

-----------------------------------------------------------------------------
(* A verb                                                                   *)

IsUndo(verb) == "recipe" \in DOMAIN verb.incoming

VerbHolds(verb) ==
  /\ verb.bytes \in 1..3 /\ verb.base + (verb.bytes - 1) * verb.stride <= 3
  /\ verb.threshold <= 255
  /\ IF IsUndo(verb)
     THEN /\ verb.threshold = 0
          /\ verb.incoming.count > 0 =>
               (verb.incoming.count - 1) * verb.incoming.step + verb.bytes <= Len(verb.incoming.recipe)
     ELSE Len(verb.incoming.value) = verb.bytes

\* A pass's incoming bytes and the pixel of the walk they start at: the
\* value, or the recipe of the pixels from `touched[1]` to before `touched[2]`.
Incoming(verb, touched) ==
  CASE ~IsUndo(verb) -> [first |-> 0, bytes |-> verb.incoming.value]
    [] touched = None -> [first |-> 0, bytes |-> <<>>]
    [] OTHER ->
         LET from == touched[1] * verb.incoming.step
             to == IF touched[1] = touched[2] THEN from
                   ELSE (touched[2] - 1) * verb.incoming.step + verb.bytes
         IN [first |-> touched[1], bytes |-> SubSeq(verb.incoming.recipe, from + 1, to)]

ByteAt(verb, i) == verb.base + i * verb.stride
ValueOf(verb, pixel) == [i \in 0..verb.bytes - 1 |-> pixel[ByteAt(verb, i)]]

\* Mutant: a pixel a selector names takes part only where it has ink.
TakesPartInked(verb, pixel, coverage) ==
  /\ coverage # 0
  /\ IF verb.selector # None
     THEN /\ (<<pixel[0], pixel[1], pixel[2]>> \in verb.selector.names) # verb.selector.keeps
          /\ pixel[3] # 0
     ELSE verb.takesEmpty \/ pixel[3] # 0

TakesPart(verb, pixel, coverage) ==
  /\ coverage # 0
  /\ IF verb.selector # None
     THEN (<<pixel[0], pixel[1], pixel[2]>> \in verb.selector.names) # verb.selector.keeps
     ELSE verb.takesEmpty \/ pixel[3] # 0

IncomingAt(incoming, n) == IF n + 1 \in DOMAIN incoming.bytes THEN incoming.bytes[n + 1] ELSE 0

\* A pixel taking part as the pass leaves it, `index` its place in the walk.
Written(verb, incoming, pixel, coverage, index) ==
  LET nth(i) == IF IsUndo(verb) THEN (index - incoming.first) * verb.incoming.step + i ELSE i
      wanted(i) == IF pixel[ByteAt(verb, i)] < verb.threshold THEN 0 ELSE IncomingAt(incoming, nth(i))
      byte(i) == IF IsUndo(verb) \/ coverage = 255 THEN wanted(i)
                 ELSE Div255(wanted(i) * coverage + pixel[ByteAt(verb, i)] * (255 - coverage))
  IN [b \in 0..3 |-> LET of == {i \in 0..verb.bytes - 1 : ByteAt(verb, i) = b}
                     IN IF of = {} THEN pixel[b] ELSE byte(Max(of))]

\* Each row of a tile as its lane finds it: the columns taking part.
RowOf(taking, y) == SelectSeq([x \in 1..Side |-> x - 1], LAMBDA x : <<x, y>> \in taking)

RunStarts(values) == {i \in 2..Len(values) : values[i] # values[i - 1]}

\* Mutant: every row of a tile starts a run of its own.
JoinedApart(rows) ==
  LET step(held, values) ==
        [ranks |-> Append(held.ranks, held.rank), runsAt |-> Append(held.runsAt, held.runs),
         befores |-> Append(held.befores, held.before),
         rank |-> held.rank + Len(values),
         runs |-> IF values = <<>> THEN held.runs
                  ELSE held.runs + Cardinality(RunStarts(values)) + 1,
         before |-> IF values = <<>> THEN held.before ELSE Last(values)]
  IN FoldLeft(step, [ranks |-> <<>>, runsAt |-> <<>>, befores |-> <<>>, rank |-> 0, runs |-> 0, before |-> None],
              rows)

\* The rows' values joined by lane 0: where each row's pixels and runs start
\* in the tile and the value before it, and how many the tile has.
Joined(rows) ==
  LET step(held, values) ==
        [ranks |-> Append(held.ranks, held.rank), runsAt |-> Append(held.runsAt, held.runs),
         befores |-> Append(held.befores, held.before),
         rank |-> held.rank + Len(values),
         runs |-> IF values = <<>> THEN held.runs
                  ELSE held.runs + Cardinality(RunStarts(values))
                         + (IF values[1] = held.before THEN 0 ELSE 1),
         before |-> IF values = <<>> THEN held.before ELSE Last(values)]
  IN FoldLeft(step, [ranks |-> <<>>, runsAt |-> <<>>, befores |-> <<>>, rank |-> 0, runs |-> 0, before |-> None],
              rows)

-----------------------------------------------------------------------------
(* The verbs' two passes over the walk                                      *)

\* What a pass is given: the apply entry's with `starts`, the count entry's
\* without.
GivenPass(verb, walk, run, pool, mask, starts) ==
  LET band == BandOf(walk, run, mask)
  IN [tiles |-> Entries(walk, run, pool, mask, band.from), rows |-> Copied(mask, band),
      incoming |-> Incoming(verb, IF starts = None THEN None
                                  ELSE <<starts[run.first].touched, starts[run.last + 1].touched>>)]

TileRows(store, verb, run, given, entry) ==
  LET texel(p) == TexelOf(store, run, entry, p)
      taking == {p \in (0..Side - 1) \X (0..Side - 1) : TakesPart(verb, texel(p), CoverageOf(given.rows, entry, p))}
      columns == [y \in 1..Side |-> RowOf(taking, y - 1)]
  IN [columns |-> columns,
      values |-> [y \in 1..Side |-> [n \in DOMAIN columns[y] |->
                                       ValueOf(verb, texel(<<columns[y][n], y - 1>>))]]]

\* A pass of the count entry: each of its tiles' two counts, at its place in
\* the walk.
CountPass(store, verb, run, given) ==
  LET counted(entry) ==
        LET joined == Joined(TileRows(store, verb, run, given, entry).values)
        IN [touched |-> joined.rank, runs |-> joined.runs]
      entryOf(i) == CHOOSE entry \in ToSet(given.tiles) : entry.index = i
  IN [i \in {entry.index : entry \in ToSet(given.tiles)} |-> counted(entryOf(i))]

\* Mutant: where each tile's pixels start, counted by its runs.
StartsByRuns(counts) ==
  FoldLeft(LAMBDA starts, count :
             Append(starts, [touched |-> Last(starts).touched + count.runs,
                             runs |-> Last(starts).runs + count.runs]),
           <<[touched |-> 0, runs |-> 0]>>, counts)

\* Where each tile's pixels and runs start among the walk's, and past the
\* last the walk's whole.
Starts(counts) ==
  FoldLeft(LAMBDA starts, count :
             Append(starts, [touched |-> Last(starts).touched + count.touched,
                             runs |-> Last(starts).runs + count.runs]),
           <<[touched |-> 0, runs |-> 0]>>, counts)

\* The runs a pass binds, from where a binding may start.
BoundRuns(starts, run, align) ==
  LET first == (starts[run.first].runs \div align) * align
  IN [first |-> first, last |-> Max({starts[run.last + 1].runs, first + 1}) - 1]

\* A pass of the apply entry: its tiles' new pixels at their places in the
\* walk, and going forward what they held, as values and ranks at their
\* places among the runs it binds.
ApplyPass(store, verb, run, given, starts, align) ==
  LET bound == BoundRuns(starts, run, align)
      first == run.first
      rowsOf(entry) == TileRows(store, verb, run, given, entry)
      written(entry, rows, joined, p) ==
        LET pixel == TexelOf(store, run, entry, p)
            nth == {n \in DOMAIN rows.columns[p[2] + 1] : rows.columns[p[2] + 1][n] = p[1]}
        IN IF nth = {} THEN pixel
           ELSE Written(verb, given.incoming, pixel, CoverageOf(given.rows, entry, p),
                        starts[entry.index].touched + joined.ranks[p[2] + 1] + Max(nth) - 1)
      out(entry) == LET rows == rowsOf(entry)
                        joined == Joined(rows.values)
                    IN [p \in Square |-> written(entry, rows, joined, p)]
      putsRow(entry, rows, joined, y) ==
        LET values == rows.values[y]
            begun == RunStarts(values) \union (IF values = <<>> \/ values[1] = joined.befores[y] THEN {} ELSE {1})
            at(n) == starts[entry.index].runs + joined.runsAt[y]
                       + Cardinality({m \in begun : m < n}) - bound.first
        IN {[at |-> bound.first + at(n), value |-> values[n], rank |-> joined.ranks[y] + n - 1] : n \in begun}
      puts(entry) == LET rows == rowsOf(entry)
                         joined == Joined(rows.values)
                     IN UNION {putsRow(entry, rows, joined, y) : y \in 1..Side}
  IN [out |-> [n \in DOMAIN given.tiles |-> out(given.tiles[n])],
      puts |-> IF IsUndo(verb) THEN {} ELSE UNION {puts(entry) : entry \in ToSet(given.tiles)},
      bound |-> bound]

\* Each tile's runs as a value and a length: to the next run's first pixel,
\* or to the tile's pixels.
Lengths(put, counts, starts) ==
  [i \in DOMAIN counts |->
     [n \in 1..counts[i].runs |->
        LET at == starts[i].runs + n - 1
            to == IF n = counts[i].runs THEN counts[i].touched ELSE put[at + 1].rank
        IN [value |-> put[at].value, length |-> to - put[at].rank]]]

\* The verb over the cel, its passes binding `perPass` pages and taking
\* `most` tiles: the tiles walked, their new pixels, how many took part in
\* each and what those held. None where it is refused.
RunVerb(store, cel, mask, verb, perPass, most, align) ==
  LET pool == DOMAIN store
      walk == Walk(cel, pool, mask)
      tilesOf == [i \in DOMAIN walk |-> <<walk[i].column, walk[i].row>>]
      cut == Passes(walk, mask, perPass, most)
      counts == FoldLeft(LAMBDA held, run :
                           CountPass(store, verb, run, GivenPass(verb, walk, run, pool, mask, None)) @@ held,
                         <<>>, cut)
      counted == [i \in DOMAIN walk |-> counts[i]]
      starts == Starts(counted)
      total == Last(starts).touched
      applied == [r \in DOMAIN cut |->
                    ApplyPass(store, verb, cut[r], GivenPass(verb, walk, cut[r], pool, mask, starts), starts, align)]
      puts == UNION {applied[r].puts : r \in DOMAIN cut}
      put == [at \in 0..Last(starts).runs |->
                IF \E p \in puts : p.at = at THEN CHOOSE p \in puts : p.at = at ELSE [value |-> None, rank |-> 0]]
  IN CASE ~CutBy(MostPages, perPass, most) \/ ~VerbHolds(verb) -> None
       [] walk = None -> None
       [] walk = <<>> -> [tiles |-> <<>>, out |-> <<>>, touched |-> <<>>, runs |-> <<>>]
       [] IsUndo(verb) /\ total > verb.incoming.count -> None
       [] OTHER ->
            [tiles |-> tilesOf, out |-> FlattenSeq([r \in DOMAIN cut |-> applied[r].out]),
             touched |-> [i \in DOMAIN walk |-> counted[i].touched],
             runs |-> IF IsUndo(verb) THEN <<>> ELSE Lengths(put, counted, starts)]

-----------------------------------------------------------------------------
(* What a pass takes of a device                                            *)

PerTile(mask) == IF mask = None THEN 0 ELSE CeilDiv(mask.width, 4) * 4 * Side

EntryBytes == 20

\* Mutant: what a recipe gives a tile is not counted.
MostWalkedBare(device, mask, verb, alignBytes) ==
  LET given == EntryBytes + 8 + PerTile(mask)
      runs == IF IsUndo(verb) THEN 0 ELSE Texels * 8
  IN TilesAPass(device, Max({TileBytes, runs, given}), 4 + alignBytes)

\* The most tiles a pass takes: what a binding holds of a tile at its worst.
\* The selector's tables are no words here.
MostWalked(device, mask, verb, alignBytes) ==
  LET step == IF IsUndo(verb) THEN verb.incoming.step ELSE 0
      given == EntryBytes + 8 + step * Texels + PerTile(mask)
      runs == IF IsUndo(verb) THEN 0 ELSE Texels * 8
  IN TilesAPass(device, Max({TileBytes, runs, given}), 4 + alignBytes)

MostLifted(device, mask, alignBytes) ==
  LET lifted == Side * mask.width * 4
  IN TilesAPass(device, Max({lifted, EntryBytes + PerTile(mask)}), alignBytes)

-----------------------------------------------------------------------------
(* The lift and the ink                                                     *)

Nothing == [b \in 0..3 |-> 0]

\* What the mask takes off the cel, in its box; whole, or its alpha scaled
\* by the coverage.
Lift(store, cel, mask, whole, perPass, most) ==
  LET pool == DOMAIN store
      walk == Walk(cel, pool, mask)
      cut == Passes(walk, mask, perPass, most)
      box == (0..mask.width - 1) \X (0..mask.height - 1)
      kept(pixel, coverage) == [pixel EXCEPT ![3] = IF whole THEN @ ELSE Div255(@ * coverage)]
      taken(run) ==
        LET band == BandOf(walk, run, mask)
            rows == Copied(mask, band)
            gather(entry) ==
              {[at |-> <<entry.x + p[1], band.from + entry.y + p[2]>>,
                pixel |-> kept(TexelOf(store, run, entry, p), CoverageOf(rows, entry, p))] :
                 p \in {q \in Square : /\ CoverageOf(rows, entry, q) # 0
                                       /\ TexelOf(store, run, entry, q)[3] # 0}}
        IN UNION {gather(entry) : entry \in ToSet(Entries(walk, run, pool, mask, band.from))}
      lifted == UNION {taken(run) : run \in ToSet(cut)}
  IN IF ~CutBy(MostPages, perPass, most) \/ walk = None THEN None
     ELSE [rgba |-> [p \in box |-> IF \E l \in lifted : l.at = p
                                   THEN (CHOOSE l \in lifted : l.at = p).pixel ELSE Nothing],
           anything |-> lifted # {}]

\* A tile's ink, its right and bottom past the last; None where it has none:
\* the least column is then past the greatest.
InkOf(tile) ==
  LET inked == {p \in Square : tile[p][3] # 0}
      low(n) == Min({p[n] : p \in inked} \union {Side})
      high(n) == Max({p[n] : p \in inked} \union {0})
  IN IF low(1) > high(1) THEN None ELSE <<low(1), low(2), high(1) + 1, high(2) + 1>>

\* Each walked tile's ink, in the walk's order.
Ink(store, cel, perPass, most) ==
  LET pool == DOMAIN store
      walk == Walk(cel, pool, None)
      cut == Passes(walk, None, perPass, most)
      scanned(run) ==
        LET entries == Entries(walk, run, pool, None, 0)
        IN [n \in DOMAIN entries |->
              [column |-> walk[entries[n].index].column, row |-> walk[entries[n].index].row,
               ink |-> InkOf([p \in Square |-> TexelOf(store, run, entries[n], p)])]]
  IN IF ~CutBy(MostPages, perPass, most) \/ walk = None THEN None
     ELSE FlattenSeq([r \in DOMAIN cut |-> scanned(cut[r])])

-----------------------------------------------------------------------------
(* The stamp                                                                *)

\* Mutant: a box on a tile's edge takes the tile past it.
TilesOfWide(left, top, width, height, firstPage, perPage) ==
  LET x0 == left \div Side
      y0 == top \div Side
      x1 == IF width = 0 THEN x0 ELSE (left + width) \div Side + 1
      y1 == IF height = 0 THEN y0 ELSE (top + height) \div Side + 1
  IN [x0 |-> x0, y0 |-> y0, columns |-> x1 - x0, rows |-> y1 - y0,
      tiles |-> [n \in 1..(x1 - x0) * (y1 - y0) |->
                   [page |-> firstPage + ((n - 1) \div perPage), slot |-> (n - 1) % perPage]]]

\* The tiles a box meets, row after row, `perPage` to a page.
TilesOf(left, top, width, height, firstPage, perPage) ==
  LET x0 == left \div Side
      y0 == top \div Side
      x1 == IF width = 0 THEN x0 ELSE (left + width - 1) \div Side + 1
      y1 == IF height = 0 THEN y0 ELSE (top + height - 1) \div Side + 1
  IN [x0 |-> x0, y0 |-> y0, columns |-> x1 - x0, rows |-> y1 - y0,
      tiles |-> [n \in 1..(x1 - x0) * (y1 - y0) |->
                   [page |-> firstPage + ((n - 1) \div perPage), slot |-> (n - 1) % perPage]]]

\* `source` [left, top, width, height, picture] or [.., mask, colour, whole]
\* as a pixel of a tile of it.
StampPixel(source, at) ==
  LET p == <<at[1] - source.left, at[2] - source.top>>
      inside == p \in (0..source.width - 1) \X (0..source.height - 1)
      byte == IF inside THEN source.mask[p] ELSE 0
      covered == IF source.whole /\ byte # 0 THEN 255 ELSE byte
  IN CASE "picture" \in DOMAIN source -> IF inside THEN source.picture[p] ELSE Nothing
       [] covered = 0 -> Nothing
       [] OTHER -> [b \in 0..3 |-> IF b = 3 THEN covered ELSE source.colour[b]]

\* A stamp: its tiles, and its pages from `firstPage` on, each put by a pass
\* of its own from the stamp's tile it starts at.
Stamp(source, firstPage, perPage) ==
  LET set == TilesOf(source.left, source.top, source.width, source.height, firstPage, perPage)
      count == Len(set.tiles)
      placed(first, slot, p) ==
        LET tile == first + slot
        IN <<(set.x0 + (tile % set.columns)) * Side + p[1], (set.y0 + (tile \div set.columns)) * Side + p[2]>>
      page(n) == LET first == (n - 1) * perPage
                 IN [slot \in 0..Min({perPage, count - first}) - 1 |->
                       [p \in Square |-> StampPixel(source, placed(first, slot, p))]]
  IN [set |-> set, pages |-> [n \in 1..CeilDiv(count, perPage) |-> page(n)]]

-----------------------------------------------------------------------------
(* A fill's gradient over a mask: its ends in 1/Fine of a pixel, its colour *)
(* looked up in LastStop + 1 stops (256 and 1023 in the code).              *)

Reaches(gradient, mask) ==
  /\ \A n \in ToSet(gradient.from \o gradient.to) : n \in -Reach * Fine..Reach * Fine
  /\ \A n \in {mask.left, mask.top, mask.left + mask.width, mask.top + mask.height} : n \in -Reach..Reach

\* Each channel start + round((end - start) * i / LastStop).
StopColour(gradient, i) ==
  [b \in 0..3 |->
     gradient.start[b] + ((2 * (gradient.end[b] - gradient.start[b]) * i + LastStop) \div (2 * LastStop))]

\* The whole part of a square root.
Root(n) == Max({k \in 0..n : k * k <= n})

\* Mutant: a circle's stop rounded down.
StopAtFloor(gradient, at) ==
  LET along == <<gradient.to[1] - gradient.from[1], gradient.to[2] - gradient.from[2]>>
      v == <<at[1] * Fine + (Fine \div 2) - gradient.from[1], at[2] * Fine + (Fine \div 2) - gradient.from[2]>>
      reach == along[1] * along[1] + along[2] * along[2]
      dot == v[1] * along[1] + v[2] * along[2]
      far == v[1] * v[1] + v[2] * v[2]
  IN CASE reach = 0 -> 0
       [] gradient.shape = "line" /\ dot <= 0 -> 0
       [] gradient.shape = "line" /\ dot < reach -> (2 * dot * LastStop + reach) \div (2 * reach)
       [] gradient.shape = "circle" /\ far < reach ->
            Root((4 * LastStop * LastStop * far) \div reach) \div 2
       [] OTHER -> LastStop

\* The stop a pixel's centre takes.
StopAt(gradient, at) ==
  LET along == <<gradient.to[1] - gradient.from[1], gradient.to[2] - gradient.from[2]>>
      v == <<at[1] * Fine + (Fine \div 2) - gradient.from[1], at[2] * Fine + (Fine \div 2) - gradient.from[2]>>
      reach == along[1] * along[1] + along[2] * along[2]
      dot == v[1] * along[1] + v[2] * along[2]
      far == v[1] * v[1] + v[2] * v[2]
  IN CASE reach = 0 -> 0
       [] gradient.shape = "line" /\ dot <= 0 -> 0
       [] gradient.shape = "line" /\ dot < reach -> (2 * dot * LastStop + reach) \div (2 * reach)
       [] gradient.shape = "circle" /\ far < reach ->
            (Root((4 * LastStop * LastStop * far) \div reach) + 1) \div 2
       [] OTHER -> LastStop

-----------------------------------------------------------------------------
(* Laws                                                                     *)

RowMajor(a, b) == a[2] < b[2] \/ (a[2] = b[2] /\ a[1] < b[1])

\* The cel's tiles the mask's box meets, on the canvas's grid, row by row.
TilesMet(cel, mask) ==
  LET at(i) == <<cel.x0 + ((i - 1) % cel.columns), cel.y0 + ((i - 1) \div cel.columns)>>
      in(p) == p[1] \in mask.left..mask.left + mask.width - 1 /\ p[2] \in mask.top..mask.top + mask.height - 1
      met(t) == \E p \in Square : mask = None \/ in(<<t[1] * Side + p[1], t[2] * Side + p[2]>>)
  IN SetToSortSeq({at(i) : i \in {j \in DOMAIN cel.tiles : cel.tiles[j] # None /\ met(at(j))}}, RowMajor)

StoredAt(store, cel, t) ==
  LET at == cel.tiles[(t[2] - cel.y0) * cel.columns + t[1] - cel.x0 + 1]
  IN IF at = None THEN [p \in Square |-> Nothing] ELSE store[at.page][at.slot]

CoveredAt(mask, t, p) ==
  IF mask = None THEN 255
  ELSE LET at == <<t[1] * Side + p[1] - mask.left, t[2] * Side + p[2] - mask.top>>
       IN IF at \in DOMAIN mask.bytes THEN mask.bytes[at] ELSE 0

InOrder == SetToSortSeq(Square, RowMajor)

\* A verb cut into passes as a device takes them leaves what one walk over
\* every pixel does: each taking part written in its turn, and what it held
\* given back a tile at a time as the fewest runs of a value (mod.rs run).
VerbIsOneWalk(store, cel, mask, verb, perPass, most, align) ==
  LET met == TilesMet(cel, mask)
      taking(t) == SelectSeq(InOrder, LAMBDA p : TakesPart(verb, StoredAt(store, cel, t)[p], CoveredAt(mask, t, p)))
      before(n) == Total([i \in 1..n - 1 |-> Len(taking(met[i]))])
      total == before(Len(met) + 1)
      whole == Incoming(verb, <<0, total>>)
      leaves(n) ==
        [p \in Square |->
           LET t == met[n]
               nth == {i \in DOMAIN taking(t) : taking(t)[i] = p}
           IN IF nth = {} THEN StoredAt(store, cel, t)[p]
              ELSE Written(verb, whole, StoredAt(store, cel, t)[p], CoveredAt(mask, t, p), before(n) + Max(nth) - 1)]
      spelt(runs) == FlattenSeq([i \in DOMAIN runs |-> [n \in 1..runs[i].length |-> runs[i].value]])
  IN \E got \in {RunVerb(store, cel, mask, verb, perPass, most, align)} :
       IF IsUndo(verb) /\ total > verb.incoming.count THEN got = None
       ELSE /\ got.tiles = met
            /\ got.touched = [n \in DOMAIN met |-> Len(taking(met[n]))]
            /\ \A n \in DOMAIN met : got.out[n] = leaves(n)
            /\ ~IsUndo(verb) => \A n \in DOMAIN met :
                 /\ spelt(got.runs[n]) = [i \in DOMAIN taking(met[n]) |->
                                            ValueOf(verb, StoredAt(store, cel, met[n])[taking(met[n])[i]])]
                 /\ \A i \in 2..Len(got.runs[n]) : got.runs[n][i].value # got.runs[n][i - 1].value

\* The app's channels: the colour, of pixels with ink; the alpha, of any
\* pixel, or of those a selector names.
IsApps(verb) ==
  \/ verb.bytes = 3 /\ verb.base = 0 /\ verb.stride = 1 /\ ~verb.takesEmpty /\ verb.selector = None
  \/ verb.bytes = 1 /\ verb.base = 3 /\ verb.takesEmpty

\* What a verb of the app's left is put back whole by an undo that replays
\* the recipe its runs spell, on a device that cuts its passes otherwise:
\* the walk finds the same pixels again, in the same order. One pixel short,
\* it is refused.
UndoRestores(store, cel, mask, verb, cut, again, align) ==
  IsApps(verb) =>
    \E left \in {RunVerb(store, cel, mask, verb, cut[1], cut[2], align)} :
      LET spelt(runs) == FlattenSeq([i \in DOMAIN runs |-> FlattenSeq([n \in 1..runs[i].length |->
                           [b \in 1..verb.bytes |-> runs[i].value[b - 1]]])])
          recipe == FlattenSeq([n \in DOMAIN left.runs |-> spelt(left.runs[n])])
          total == Total(left.touched)
          undoing(count) == [verb EXCEPT !.threshold = 0,
                               !.incoming = [recipe |-> SubSeq(recipe, 1, count * verb.bytes),
                                             step |-> verb.bytes, count |-> count]]
          placed(n) == cel.tiles[(left.tiles[n][2] - cel.y0) * cel.columns + left.tiles[n][1] - cel.x0 + 1]
          after == FoldLeft(LAMBDA kept, n : [kept EXCEPT ![placed(n).page][placed(n).slot] = left.out[n]],
                            store, [n \in DOMAIN left.tiles |-> n])
          undone == RunVerb(after, cel, mask, undoing(total), again[1], again[2], align)
      IN /\ undone # None
         /\ \A n \in DOMAIN left.tiles : undone.out[n] = StoredAt(store, cel, left.tiles[n])
         /\ total > 0 => RunVerb(after, cel, mask, undoing(total - 1), again[1], again[2], align) = None

\* No pass of a verb or a lift, cut at the most tiles the device is said to
\* take, binds more of anything than the device's binding holds (most).
PassesFit(store, cel, mask, verb, device, align) ==
  LET most == MostWalked(device, mask, verb, 8 * align)
      walk == Walk(cel, DOMAIN store, mask)
      cut == Passes(walk, mask, 2, most)
      counts == [i \in DOMAIN walk |-> [touched |-> Texels, runs |-> Texels]]
      starts == Starts(counts)
      tiles(run) == run.last - run.first + 1
      band(run) == BandOf(walk, run, mask)
      incoming(run) == Incoming(verb, <<starts[run.first].touched, starts[run.last + 1].touched>>).bytes
      given(run) == tiles(run) * (EntryBytes + 8) + CeilDiv(Len(incoming(run)), 4) * 4
                      + (band(run).to - band(run).from) * (PerTile(mask) \div Side)
      bound(run) == BoundRuns(starts, run, align)
      lifts == MostLifted(device, mask, 8 * align)
  IN /\ most # None => \A run \in ToSet(cut) :
          /\ tiles(run) * TileBytes <= BindingRoom(device)
          /\ given(run) <= BindingRoom(device)
          /\ ~IsUndo(verb) => (bound(run).last - bound(run).first + 1) * 8 <= BindingRoom(device)
     /\ mask # None /\ lifts # None => \A run \in ToSet(Passes(walk, mask, 2, lifts)) :
          (band(run).to - band(run).from) * mask.width * 4 <= BindingRoom(device)

\* What a selection takes off a cel is its box of the drawing and nothing
\* else, however the passes are cut, and the stamp of it lays it back where
\* it lay: on every tile the box meets and no other (lift.rs, stamp.rs).
LiftLandsBack(store, cel, mask, whole, perPass, most, perPage) ==
  LET lifted == Lift(store, cel, mask, whole, perPass, most)
      picture == [left |-> mask.left, top |-> mask.top, width |-> mask.width, height |-> mask.height,
                  picture |-> lifted.rgba]
      stamp == Stamp(picture, 7, perPage)
      boxed(t, p) == <<t[1] * Side + p[1] - mask.left, t[2] * Side + p[2] - mask.top>>
      drawn(t, p) == StoredAt(store, cel, t)[p]
      expected(t, p) ==
        LET coverage == CoveredAt(mask, t, p)
        IN IF coverage = 0 \/ drawn(t, p)[3] = 0 THEN Nothing
           ELSE [drawn(t, p) EXCEPT ![3] = IF whole THEN @ ELSE Div255(@ * coverage)]
      celTiles == {<<cel.x0 + i, cel.y0 + j>> : i \in 0..cel.columns - 1, j \in 0..cel.rows - 1}
      stampTile(n) == <<stamp.set.x0 + ((n - 1) % stamp.set.columns), stamp.set.y0 + ((n - 1) \div stamp.set.columns)>>
      stampPixel(n, p) == LET at == stamp.set.tiles[n] IN stamp.pages[at.page - 7 + 1][at.slot][p]
  IN /\ \A t \in celTiles, p \in Square :
          boxed(t, p) \in DOMAIN lifted.rgba => lifted.rgba[boxed(t, p)] = expected(t, p)
     /\ lifted.anything = \E q \in DOMAIN lifted.rgba : lifted.rgba[q] # Nothing
     /\ \A q \in DOMAIN lifted.rgba : \E n \in DOMAIN stamp.set.tiles, p \in Square : boxed(stampTile(n), p) = q
     /\ \A n \in DOMAIN stamp.set.tiles :
          /\ \E p \in Square : boxed(stampTile(n), p) \in DOMAIN lifted.rgba
          /\ \A p \in Square :
               stampPixel(n, p) = IF stampTile(n) \in celTiles THEN expected(stampTile(n), p) ELSE Nothing

\* Each tile's ink box is the least that holds its pixels with ink.
InkIsBound(store, cel, perPass, most) ==
  LET inks == Ink(store, cel, perPass, most)
      met == TilesMet(cel, None)
      inked(t) == {p \in Square : StoredAt(store, cel, t)[p][3] # 0}
      held(box) == {p \in Square : p[1] \in box[1]..box[3] - 1 /\ p[2] \in box[2]..box[4] - 1}
  IN /\ [n \in DOMAIN inks |-> <<inks[n].column, inks[n].row>>] = met
     /\ \A n \in DOMAIN inks :
          IF inked(met[n]) = {} THEN inks[n].ink = None
          ELSE LET box == inks[n].ink
               IN /\ inked(met[n]) \subseteq held(box)
                  /\ \A side \in 1..2 : /\ \E p \in inked(met[n]) : p[side] = box[side]
                                        /\ \E p \in inked(met[n]) : p[side] + 1 = box[side + 2]

\* A pixel takes the stop nearest where its centre lies between the ends, and
\* the stops run from the start's colour to the end's without turning back
\* (graded, stamp_stop).
GradientIsNearest(gradient, mask, at) ==
  Reaches(gradient, mask) =>
    LET k == StopAt(gradient, at)
        along == <<gradient.to[1] - gradient.from[1], gradient.to[2] - gradient.from[2]>>
        v == <<at[1] * Fine + (Fine \div 2) - gradient.from[1], at[2] * Fine + (Fine \div 2) - gradient.from[2]>>
        reach == along[1] * along[1] + along[2] * along[2]
        dot == v[1] * along[1] + v[2] * along[2]
        far == v[1] * v[1] + v[2] * v[2]
        off == LastStop * dot - k * reach
    IN /\ k \in 0..LastStop
       /\ reach # 0 /\ gradient.shape = "line" =>
            CASE dot <= 0 -> k = 0 [] dot >= reach -> k = LastStop
              [] OTHER -> 2 * off \in -reach..reach
       /\ reach # 0 /\ gradient.shape = "circle" =>
            IF far >= reach THEN k = LastStop
            ELSE /\ 4 * LastStop * LastStop * far < (2 * k + 1) * (2 * k + 1) * reach
                 /\ k > 0 => (2 * k - 1) * (2 * k - 1) * reach <= 4 * LastStop * LastStop * far
       /\ \A b \in 0..3 :
            /\ StopColour(gradient, 0)[b] = gradient.start[b]
            /\ StopColour(gradient, LastStop)[b] = gradient.end[b]
            /\ \A i \in 1..LastStop :
                 LET step == StopColour(gradient, i)[b] - StopColour(gradient, i - 1)[b]
                 IN IF gradient.end[b] >= gradient.start[b] THEN step >= 0 ELSE step <= 0
=============================================================================
