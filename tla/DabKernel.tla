----------------------------- MODULE DabKernel -----------------------------
(***************************************************************************)
(* The dab kernel (kernels/dab/mod.rs, dab.wgsl, pile.wgsl): a stroke's    *)
(* dabs piled on its tiles by passes that read all they lay from one       *)
(* buffer, the plan - and the blur brush's dab (dab/blur.rs), which moves  *)
(* the stroke's picture toward its blur by the box passes of the fx        *)
(* Gaussian (effects/blur/gaussian.rs, three.wgsl).                        *)
(*                                                                         *)
(* A pixel of a pile is the sequence of marks laid on it, a mark what the  *)
(* kernel read of the dab and its tables; a pixel of a blur is one         *)
(* channel. A stroke tile is [column, row, at]. A dab is [region, erase,   *)
(* second, ink, opacity, evening, shape, density]; its shape [kind,        *)
(* reach, roundness, scale, texture, coverage, pile], a texture [id,       *)
(* side], a table [name, length]. The plan's buffer is a function from     *)
(* the word's place. Numbers are as wide as Kept says, 15 in the code.     *)
(***************************************************************************)
EXTENDS CelPixel

CONSTANTS
  Kept,        \* the bits a distance keeps
  Room,        \* the pixels a strip's memory holds, 1024
  Along,       \* the pixels a thread slides along, 64
  MostStrips,  \* the widest box that goes by strips, 56 and 90
  MostInTurn   \* the most workgroups of a dab that goes in turn, 4

Word == 2^(2 * Kept + 2)        \* past a u32's last
One == 2^(Kept + 1)             \* a texel of paper, a tip's stretch: 2^16
ScaleBound == 2^(Kept + 2)
MostPoint == 2 * Kept + 1
MostSide == 2^(Kept - 1)        \* 16384

Rounded(n, d) == (2 * n + d) \div (2 * d)
Bits(n) == Min({b \in 0..30 : n < 2^b})
With(f, x, v) == [n \in DOMAIN f \union {x} |-> IF n = x THEN v ELSE f[n]]
Nowhere == [n \in {} |-> 0]

-----------------------------------------------------------------------------
(* A tip's numbers in integers                                              *)

\* A scale n/d as an integer under the bound and its point.
FixedScale(n, d) ==
  LET point == Max({0} \union {p \in 1..MostPoint : Rounded(n * 2^p, d) < ScaleBound})
  IN [scale |-> Rounded(n * 2^point, d), point |-> point]

\* Mutant: a scale of any point is taken.
GeometryUnrefused(shape) ==
  LET p == shape.roundness[1]
      q == shape.roundness[2]
      round == shape.kind = "round"
      extent == IF round THEN shape.reach ELSE CeilDiv(shape.reach * (p + q), q)
      parts == 2^Less(Bits(extent + Fine), Kept)
      major == IF round THEN CeilDiv(shape.reach, parts) ELSE Rounded(shape.reach, parts)
      guard == IF round THEN major ELSE (shape.reach * (p + q)) \div (q * parts) + 1
      minor == CeilDiv(major * p, q)
      inverse == Rounded(One * q, p)
      entry == IF round THEN FixedScale(shape.scale[1] * parts, shape.scale[2] * Fine)
               ELSE [scale |-> 0, point |-> Kept]
  IN IF minor * inverse + One \div 2 >= Word \/ (~round /\ major = 0) THEN None
     ELSE [parts |-> parts, guard |-> guard, major |-> major, minor |-> minor, inverse |-> inverse,
           scale |-> entry.scale, point |-> entry.point]

\* A round or bitmap tip's reach in 1/Fine of a pixel, its roundness p/q and
\* its entries a pixel, as the record holds them - None where they leave the
\* integers.
Geometry(shape) ==
  LET p == shape.roundness[1]
      q == shape.roundness[2]
      round == shape.kind = "round"
      extent == IF round THEN shape.reach ELSE CeilDiv(shape.reach * (p + q), q)
      parts == 2^Less(Bits(extent + Fine), Kept)
      major == IF round THEN CeilDiv(shape.reach, parts) ELSE Rounded(shape.reach, parts)
      guard == IF round THEN major ELSE (shape.reach * (p + q)) \div (q * parts) + 1
      minor == CeilDiv(major * p, q)
      inverse == Rounded(One * q, p)
      entry == IF round THEN FixedScale(shape.scale[1] * parts, shape.scale[2] * Fine)
               ELSE [scale |-> 0, point |-> Kept]
  IN IF minor * inverse + One \div 2 >= Word \/ (~round /\ major = 0) \/ entry.point < Kept THEN None
     ELSE [parts |-> parts, guard |-> guard, major |-> major, minor |-> minor, inverse |-> inverse,
           scale |-> entry.scale, point |-> entry.point]

\* A distance in 1/Fine of a pixel, shifted.
ShiftedBy(d, parts) == IF parts = 1 THEN d ELSE (d + parts \div 2) \div parts

\* The texel a tip's place u lies past, and how far.
TipTexel(u, radius, side) ==
  LET t == 2 * (u + radius) * side + 2 * radius
  IN [t |-> t, texel |-> t \div (4 * radius), far |-> t % (4 * radius)]

-----------------------------------------------------------------------------
(* The paper                                                                *)

\* Mutant: a texture of any side is taken.
TextureAny(side) == side > 0

TextureHolds(side) == side \in 1..MostSide

\* A pixel's step over paper of scale n/d, in 1/One of a texel.
PaperStep(paper) ==
  LET step == Rounded(One * paper.scale[2], paper.scale[1])
  IN IF step \in 1..Word - 1 THEN step ELSE None

\* Where the centre of pixel x lies.
PaperAt(x, step, side) == (((2 * x + 1) * step) \div 2) % (side * One)

\* The texel before a tile's local pixel and how far past it, carried from
\* the tile's first pixel in a word.
PaperAlong(phase, local, step, side) ==
  LET at == phase + ((local * (step \div One)) % side) * One + local * (step % One)
      before == (at + side * One - One \div 2) % Word
  IN <<(before \div One) % side, (before % One) \div 2>>

-----------------------------------------------------------------------------
(* The plan: head, tiles, lists, records, tables, and the words a use adds; *)
(* the textures at the buffer's top.                                        *)

HeadWords == 7
TileWords == 7
DabWords == 14

\* The n-th word of a texture or a table, told apart by its name.
Entry(name, n) == 1000 * name + n
TextureWords(texture) == [n \in 1..texture.side * texture.side |-> Entry(texture.id, n)]
TableWords(table) == [n \in 1..table.length |-> Entry(table.name, n)]

\* The tiles a dab's region reaches.
Meets(dab, tile) ==
  LET region == dab.region
  IN /\ region[1] < region[3] /\ region[2] < region[4]
     /\ tile.column \in (region[1] \div Side)..((region[3] - 1) \div Side)
     /\ tile.row \in (region[2] \div Side)..((region[4] - 1) \div Side)

TexturesOf(dabs, paper) ==
  LET tips == SelectSeq(dabs, LAMBDA dab : dab.shape.kind = "tip")
  IN [n \in DOMAIN tips |-> tips[n].shape.texture] \o (IF paper = None THEN <<>> ELSE <<paper.texture>>)

\* Mutant: the floor stays where it is.
PlacingOver(textures, placed, floor) ==
  LET place(held, texture) ==
        IF held = None \/ texture.id \in DOMAIN held.placed THEN held
        ELSE LET words == texture.side * texture.side
             IN IF words > held.floor THEN None
                ELSE [placed |-> With(held.placed, texture.id, held.floor - words),
                      floor |-> held.floor, fresh |-> Append(held.fresh, texture)]
  IN FoldLeft(place, [placed |-> placed, floor |-> floor, fresh |-> <<>>], textures)

\* The textures not yet placed, each under the one before; None where one
\* would go under the buffer's start.
Placing(textures, placed, floor) ==
  LET place(held, texture) ==
        IF held = None THEN None
        ELSE IF texture.id \in DOMAIN held.placed THEN held
        ELSE LET words == texture.side * texture.side
             IN IF words > held.floor THEN None
                ELSE [placed |-> With(held.placed, texture.id, held.floor - words),
                      floor |-> held.floor - words, fresh |-> Append(held.fresh, texture)]
  IN FoldLeft(place, [placed |-> placed, floor |-> floor, fresh |-> <<>>], textures)

\* A table placed once, however many dabs read it.
PlaceTable(tables, table) ==
  IF table = None \/ table.name \in DOMAIN tables.placed THEN tables
  ELSE [tables EXCEPT !.placed = With(@, table.name, tables.at + Len(tables.words)),
                      !.words = @ \o TableWords(table)]

ReadTables(dab) ==
  <<dab.evening>> \o (IF dab.shape.kind = "round" THEN <<dab.shape.coverage, dab.shape.pile>> ELSE <<None, None>>)

Record(dab, tables, textures) ==
  LET geometry == IF dab.shape.kind = "square" THEN <<>> ELSE Geometry(dab.shape)
      place(n) == LET table == ReadTables(dab)[n] IN IF table = None THEN None ELSE tables[table.name]
      tip == dab.shape.kind = "tip"
  IN IF geometry = None THEN None
     ELSE dab.region
          \o <<(IF dab.erase THEN 1 ELSE 0) + (IF dab.second THEN 2 ELSE 0), dab.ink, dab.opacity,
               place(1), place(2), place(3),
               IF tip THEN textures[dab.shape.texture.id] ELSE None,
               IF tip THEN dab.shape.texture.side ELSE 0, dab.density, geometry>>

\* A plan's head, its words past it and where its records start; None where
\* a dab or the paper leaves the integers.
Planned(tiles, dabs, paper, second, textures) ==
  LET lists == [i \in DOMAIN tiles |->
                  SelectSeq([n \in DOMAIN dabs |-> n], LAMBDA n : Meets(dabs[n], tiles[i]))]
      step == IF paper = None THEN 0 ELSE PaperStep(paper)
      listsAt == HeadWords + Len(tiles) * TileWords
      firstOf(i) == listsAt + Total([j \in 1..i - 1 |-> Len(lists[j])])
      recordsAt == firstOf(Len(tiles) + 1)
      tables == FoldLeft(PlaceTable,
                         [placed |-> Nowhere, words |-> <<>>, at |-> recordsAt + Len(dabs) * DabWords],
                         FlattenSeq([n \in DOMAIN dabs |-> ReadTables(dabs[n])]))
      records == [n \in DOMAIN dabs |-> Record(dabs[n], tables.placed, textures)]
      phase(at) == IF paper = None THEN 0 ELSE PaperAt(at * Side, step, paper.texture.side)
      tileWords(i) == <<tiles[i].column, tiles[i].row, tiles[i].at.slot, firstOf(i), Len(lists[i]),
                        phase(tiles[i].column), phase(tiles[i].row)>>
  IN IF tiles = <<>> \/ step = None \/ None \in ToSet(records) THEN None
     ELSE [head |-> <<HeadWords>>
                    \o (IF paper = None THEN <<None, 0, 0, FALSE>>
                        ELSE <<textures[paper.texture.id], paper.texture.side, step, paper.height>>)
                    \o (IF second = None THEN <<None, 0>> ELSE <<second.mode, second.density>>),
           frame |-> FlattenSeq([i \in DOMAIN tiles |-> tileWords(i)])
                     \o FlattenSeq([i \in DOMAIN tiles |->
                          [n \in DOMAIN lists[i] |-> recordsAt + (lists[i][n] - 1) * DabWords]])
                     \o FlattenSeq(records) \o tables.words,
           recordsAt |-> recordsAt]

TileAt(plan, index) == plan.head[1] + (index - 1) * TileWords
RecordAt(plan, index) == plan.recordsAt + (index - 1) * DabWords
PlanEnd(plan) == plan.head[1] + Len(plan.frame)

NoPlans == [buffer |-> Nowhere, placed |-> Nowhere, floor |-> 0]

\* Mutant: the head is not counted.
StaysUnderHeadless(plan, floor) == Len(plan.frame) <= floor

StaysUnder(plan, floor) == HeadWords + Len(plan.frame) <= floor

\* The buffer after the fresh textures and then the plan are written.
Laid(buffer, placing, plan) ==
  LET words == plan.head \o plan.frame
      holds(texture, a) == a - placing.placed[texture.id] \in 0..texture.side * texture.side - 1
      word(a) == IF a < Len(words) THEN words[a + 1]
                 ELSE LET of == SelectSeq(placing.fresh, LAMBDA texture : holds(texture, a))
                      IN IF of = <<>> THEN buffer[a]
                         ELSE TextureWords(Last(of))[a - placing.placed[Last(of).id] + 1]
  IN [plans |-> [buffer |-> [a \in DOMAIN buffer \union 0..Len(words) - 1 |-> word(a)], placed |-> placing.placed,
                 floor |-> placing.floor],
      plan |-> plan]

-----------------------------------------------------------------------------
(* The pile: a pass a run of the stroke's tiles, on the pages it binds      *)

BlendsAChannel(mode) ==
  mode \notin {"behind", "darkerColor", "lighterColor", "hue", "saturation", "color", "luminosity"}

OnPages(tiles, pages) == \A tile \in ToSet(tiles) : tile.at.page \in pages

\* The pages of each of the three planes a pass binds, no more than `most`.
PilePages(device, most) ==
  LET widest == BuffersLeft(device, [storage |-> 1, uniform |-> 1]) \div 3
      each == Min({widest, most, MostPages})
      own == [storage |-> 1 + 2 * each, uniform |-> 1]
  IN IF each = 0 THEN None ELSE PagesAPass(device, own, each)

WordAt(memory, a) == IF a \in DOMAIN memory THEN memory[a] ELSE None

\* The four texels of paper about a tile's pixel and how far past the first.
DabPaper(memory, tile, p) ==
  LET side == memory[2]
      x == PaperAlong(memory[tile + 5], p[1], memory[3], side)
      y == PaperAlong(memory[tile + 6], p[2], memory[3], side)
      texel(column, row) == WordAt(memory, memory[1] + (row % side) * side + (column % side))
  IN <<texel(x[1], y[1]), texel(x[1] + 1, y[1]), texel(x[1], y[1] + 1), texel(x[1] + 1, y[1] + 1), x[2], y[2]>>

\* What the record at `at` lays on pixel (x, y), or nothing.
Mark(memory, at, x, y, paper) ==
  LET word(n) == WordAt(memory, at + n)
      table(place) == IF place = None THEN None ELSE WordAt(memory, place + ((x + y) % 2))
      tip == IF word(10) = None THEN None
             ELSE WordAt(memory, word(10) + (y % word(11)) * word(11) + (x % word(11)))
  IN IF x < word(0) \/ x >= word(2) \/ y < word(1) \/ y >= word(3) THEN None
     ELSE [erases |-> word(4) = 1, ink |-> word(5), opacity |-> word(6),
           reads |-> <<table(word(7)), table(word(8)), table(word(9)), tip>>, geometry |-> word(13),
           paper |-> IF memory[1] = None \/ word(12) = None THEN None ELSE <<word(12), memory[4], paper>>]

\* Mutant: a second dab piles on the stroke's own plane.
LayOver(memory, held, at, x, y, paper) ==
  LET mark == Mark(memory, at, x, y, paper)
  IN IF mark = None THEN held ELSE [held EXCEPT !.pixel = Append(@, mark)]

Lay(memory, held, at, x, y, paper) ==
  LET mark == Mark(memory, at, x, y, paper)
  IN IF mark = None THEN held
     ELSE IF memory[at + 4] \div 2 = 1 THEN [held EXCEPT !.level = Append(@, mark)]
     ELSE [held EXCEPT !.pixel = Append(@, mark)]

\* One tile of a pass: `words` its run's start and where the ks are, `n` the
\* tile's place in the run.
PileTile(memory, stores, bound, words, n) ==
  LET index == words[1] + n
      tile == memory[0] + index * TileWords
      page == bound[memory[words[2] + index]]
      slot == memory[tile + 2]
      shown == memory[5] # None
      piled(p) ==
        LET x == memory[tile] * Side + p[1]
            y == memory[tile + 1] * Side + p[2]
            paper == IF memory[1] = None THEN None ELSE DabPaper(memory, tile, p)
        IN FoldLeft(LAMBDA held, m : Lay(memory, held, WordAt(memory, memory[tile + 3] + m - 1), x, y, paper),
                    [pixel |-> stores.planes[page][slot][p],
                     level |-> IF shown THEN stores.levels[page][slot][p] ELSE <<>>],
                    [m \in 1..memory[tile + 4] |-> m])
      pixels == [p \in Square |-> piled(p)]
  IN [planes |-> [stores.planes EXCEPT ![page][slot] = [p \in Square |-> pixels[p].pixel]],
      view |-> [stores.view EXCEPT ![page][slot] =
                  [p \in Square |-> [first |-> pixels[p].pixel,
                                     over |-> IF shown THEN <<memory[5], memory[6], pixels[p].level>> ELSE None]]],
      levels |-> IF shown THEN [stores.levels EXCEPT ![page][slot] = [p \in Square |-> pixels[p].level]]
                 ELSE stores.levels]

\* The words a pile adds to its plan: each tile's k, and from where a binding
\* may start each run's first tile and where the ks are.
PileWords(plan, runs, ks, align) ==
  LET ksAt == PlanEnd(plan)
      at == CeilDiv(ksAt + Len(ks), align) * align
      zeros(count) == [n \in 1..count |-> 0]
  IN ks \o zeros(at - ksAt - Len(ks))
     \o FlattenSeq([r \in DOMAIN runs |-> <<runs[r].first - 1, ksAt>> \o zeros(align - 2)])

-----------------------------------------------------------------------------
(* What the pile promises                                                   *)

\* A pixel's paper straight from the texture.
PaperTexels(paper, x, y) ==
  LET side == paper.texture.side
      step == PaperStep(paper)
      before(v) == (PaperAt(v, step, side) + side * One - One \div 2) % (side * One)
      texel(column, row) == Entry(paper.texture.id, (row % side) * side + (column % side) + 1)
      at(v) == before(v) \div One
      past(v) == (before(v) % One) \div 2
  IN <<texel(at(x), at(y)), texel(at(x) + 1, at(y)), texel(at(x), at(y) + 1), texel(at(x) + 1, at(y) + 1),
       past(x), past(y)>>

MarkOf(dab, x, y, paper) ==
  LET table(n) == LET of == ReadTables(dab)[n] IN IF of = None THEN None ELSE Entry(of.name, 1 + ((x + y) % 2))
      texture == dab.shape.texture
  IN IF x < dab.region[1] \/ x >= dab.region[3] \/ y < dab.region[2] \/ y >= dab.region[4] THEN None
     ELSE [erases |-> dab.erase /\ ~dab.second, ink |-> dab.ink, opacity |-> dab.opacity,
           reads |-> <<table(1), table(2), table(3),
                       IF dab.shape.kind # "tip" THEN None
                       ELSE Entry(texture.id, (y % texture.side) * texture.side + (x % texture.side) + 1)>>,
           geometry |-> IF dab.shape.kind = "square" THEN <<>> ELSE Geometry(dab.shape),
           paper |-> IF paper = None \/ dab.density = None THEN None
                     ELSE <<dab.density, paper.height, PaperTexels(paper, x, y)>>]

Sound(dabs, paper) ==
  /\ \A dab \in ToSet(dabs) : dab.shape.kind # "square" => Geometry(dab.shape) # None
  /\ paper # None => PaperStep(paper) # None

\* The stroke after one use, straight from its dabs.
PiledStraight(stores, use) ==
  LET marks(tile, p, which) ==
        LET x == tile.column * Side + p[1]
            y == tile.row * Side + p[2]
            dabs == SelectSeq(use.dabs, LAMBDA dab : dab.second = which /\ MarkOf(dab, x, y, use.paper) # None)
        IN [n \in DOMAIN dabs |-> MarkOf(dabs[n], x, y, use.paper)]
      tileAt(page, slot) == SelectSeq(use.tiles, LAMBDA tile : tile.at = [page |-> page, slot |-> slot])
      each(store, pixel(_, _, _, _)) ==
        [page \in DOMAIN store |-> [slot \in DOMAIN store[page] |->
           LET tile == tileAt(page, slot)
           IN IF tile = <<>> THEN store[page][slot]
              ELSE [p \in Square |-> pixel(page, slot, tile[1], p)]]]
      plane(page, slot, tile, p) == stores.planes[page][slot][p] \o marks(tile, p, FALSE)
      level(page, slot, tile, p) == stores.levels[page][slot][p] \o marks(tile, p, TRUE)
      shown(page, slot, tile, p) ==
        [first |-> plane(page, slot, tile, p),
         over |-> IF use.second = None THEN None
                  ELSE <<use.second.mode, use.second.density, level(page, slot, tile, p)>>]
  IN [planes |-> each(stores.planes, plane), view |-> each(stores.view, shown),
      levels |-> IF use.second = None THEN stores.levels ELSE each(stores.levels, level)]

\* The textures a plan says are on it lie whole on its buffer.
TexturesStand(plans, textures) ==
  \A texture \in textures : texture.id \in DOMAIN plans.placed =>
    \A n \in 1..texture.side * texture.side :
      WordAt(plans.buffer, plans.placed[texture.id] + n - 1) = Entry(texture.id, n)

\* The words a use takes of a plan that holds it alone.
WordsOf(use) ==
  LET runs == Runs([i \in DOMAIN use.tiles |-> use.tiles[i].at.page], [i \in DOMAIN use.tiles |-> None],
                   use.cut[1], use.cut[2])
      met == Total([i \in DOMAIN use.tiles |-> Len(SelectSeq(use.dabs, LAMBDA dab : Meets(dab, use.tiles[i])))])
      tables == UNION {ToSet(ReadTables(dab)) : dab \in ToSet(use.dabs)} \ {None}
      walked == HeadWords + 8 * Len(use.tiles) + met + DabWords * Len(use.dabs)
                + MapThenSumSet(LAMBDA table : table.length, tables)
  IN CeilDiv(walked, use.align) * use.align + Len(runs) * use.align
     + MapThenSumSet(LAMBDA texture : texture.side * texture.side, ToSet(TexturesOf(use.dabs, use.paper)))

-----------------------------------------------------------------------------
(* What the integers promise                                                *)

\* A shape taken stays in its integers: nothing under the guard leaves Kept
\* bits, the stretch, the tables' entries and a tip's texels leave no word.
GeometryFits(shape) ==
  LET g == Geometry(shape)
      wraps(n) == n < 0 \/ n >= Word
      side == shape.texture.side
  IN g = None \/
     /\ g.guard <= 2^Kept
     /\ \A d \in 0..shape.reach - g.parts : ShiftedBy(d, g.parts) < g.guard
     /\ \A v \in 0..g.minor : ~wraps(v * g.inverse + One \div 2)
     /\ shape.kind = "round" =>
          \A d \in 0..g.major : ~wraps(d * g.scale) /\ g.point >= Kept
     /\ shape.kind = "tip" =>
          \A u \in -g.major..g.major :
            LET at == TipTexel(u, g.major, side)
            IN ~wraps(at.t) /\ at.texel \in 0..side /\ ~wraps(at.far * 2^Kept)

\* The paper carried on from a tile's first pixel lies where it lies there
\* straight from the canvas.
PaperIsCarried(side, step, column, local) ==
  LET before == (PaperAt(column * Side + local, step, side) + side * One - One \div 2) % (side * One)
  IN TextureHolds(side) =>
       PaperAlong(PaperAt(column * Side, step, side), local, step, side)
         = <<before \div One, (before % One) \div 2>>

\* The pages of each plane a pass of the walk binds are as many as the stage
\* leaves past the plan and the run.
PilePagesFit(device, most) ==
  LET each == PilePages(device, most)
      fit(pages) == 3 * pages + 1 <= device.storage /\ 3 * pages + 2 <= device.every
      taken == IF each = None THEN 0 ELSE each
  IN /\ each # None => each > 0 /\ fit(each)
     /\ taken <= most
     /\ taken < Min({most, MostPages}) => ~fit(taken + 1)

-----------------------------------------------------------------------------
(* The box passes: three along the rows, three down the columns, each a     *)
(* radius further out than the next reads. A rectangle is [left, top, right, *)
(* bottom]; a pass's pixels are [first, end) along, lines [line, lines) across. *)

MeanOf(sum, count) == (sum \div count) + (IF (sum % count) * 2 >= count THEN 1 ELSE 0)

\* Where a dispatch keeps its pixels: None, the tiles, or a plane.
Plane(x0, y0, width) == [x0 |-> x0, y0 |-> y0, width |-> width]
PlaneWord(plane, x, y) == (y - plane.y0) * plane.width + x - plane.x0

WayOf(down, r, along, lines, edge, plane) ==
  [k \in 1..(IF r = 0 THEN 0 ELSE 3) |->
     LET past == (3 - k) * r
     IN [down |-> down, radius |-> r, first |-> along[1] - past, end |-> along[2] + past,
         line |-> lines[1], lines |-> lines[2], edge |-> IF k = 1 THEN edge ELSE "none",
         edgeFirst |-> along[1], edgeEnd |-> along[2], to |-> plane]]

BoxPasses(picture, radius, edge) ==
  LET across == <<picture[1], picture[3]>>
      down == <<picture[2], picture[4]>>
      width == picture[3] - picture[1]
      rows == WayOf(FALSE, radius[1], across, down, edge,
                    Plane(picture[1] - 2 * radius[1], picture[2], width + 4 * radius[1]))
      columns == WayOf(TRUE, radius[2], down, across, edge, Plane(picture[1], picture[2] - 2 * radius[2], width))
      all == rows \o columns
  IN [i \in DOMAIN all |->
        [from |-> IF i = 1 THEN None ELSE all[i - 1].to] @@ (IF i = Len(all) THEN [to |-> None] ELSE <<>>)
          @@ all[i]]

Reads(pass) == <<pass.first - pass.radius, pass.end + pass.radius>>

\* The words a plane holds: the rows' passes' or the columns', the larger.
PlaneWords(picture, radius) ==
  LET width == picture[3] - picture[1]
      height == picture[4] - picture[2]
  IN Max({(width + 4 * radius[1]) * height, width * (height + 4 * radius[2])})

\* Mutant: the halo is what the first pass alone reads past.
StripsNarrow(way) ==
  LET along == way[3].end - way[3].first
      halo == 2 * way[1].radius
      run == Min({along, Room - halo})
  IN IF way = <<>> \/ run < 1 THEN None
     ELSE [lines |-> Room \div (run + halo), run |-> run,
           groups |-> <<CeilDiv(along, run), CeilDiv(way[1].lines - way[1].line, Room \div (run + halo))>>]

\* A way's three passes cut into strips of a workgroup each, or none.
Strips(way) ==
  LET along == way[3].end - way[3].first
      halo == Reads(way[1])[2] - Reads(way[1])[1] - along
      run == Min({along, Room - halo})
  IN IF way = <<>> \/ run < 1 THEN None
     ELSE [lines |-> Room \div (run + halo), run |-> run,
           groups |-> <<CeilDiv(along, run), CeilDiv(way[1].lines - way[1].line, Room \div (run + halo))>>]

Group == 8
PassGroups(pass) ==
  <<CeilDiv(CeilDiv(pass.end - pass.first, Along), Group), CeilDiv(pass.lines - pass.line, Group)>>

\* Pixels start to before stop of a line, by one sum slid along them.
Slide(tap, start, stop, r) ==
  LET sum[p \in start..stop - 1] ==
        IF p = start THEN MapThenSumSet(LAMBDA q : tap[q], start - r..start + r)
        ELSE sum[p - 1] + tap[p + r] - tap[p - 1 - r]
  IN [p \in start..stop - 1 |-> MeanOf(sum[p], 2 * r + 1)]

\* A pass a dispatch: each thread a run of a line.
PassPuts(pass, groups, tap) ==
  LET threads == {id \in (0..groups[1] * Group - 1) \X (0..groups[2] * Group - 1) :
                    pass.line + id[2] < pass.lines /\ pass.first + id[1] * Along < pass.end}
      run(id) == LET line == pass.line + id[2]
                     start == pass.first + id[1] * Along
                     slid == Slide([p \in Int |-> tap[line, p]], start, Min({start + Along, pass.end}), pass.radius)
                 IN [at \in {<<line, p>> : p \in DOMAIN slid} |-> slid[at[2]]]
  IN FoldSet(LAMBDA id, puts : run(id) @@ puts, <<>>, threads)

\* A workgroup's three passes over its strip, in the two halves of its room;
\* what its last pass puts, and the pixels of a half it takes.
StripPuts(way, strip, band, strips, load) ==
  LET first == way[1]
      last == way[3]
      put0 == last.first + strip * strips.run
      put1 == Min({put0 + strips.run, last.end})
      line0 == first.line + band * strips.lines
      lines == Min({line0 + strips.lines, first.lines}) - line0
      span0 == put0 - (last.first - first.first) - first.radius
      span == put1 + (first.end - last.end) + first.radius - span0
      at(line, p) == (line - line0) * span + p - span0
      put(half, k) ==
        LET start == put0 - (last.first - way[k].first)
            stop == put1 + (way[k].end - last.end)
            slid(line) == Slide([p \in Int |-> WordAt(half, at(line, p))], start, stop, way[k].radius)
            lineOf(line) == LET puts == slid(line) IN [a \in {at(line, p) : p \in start..stop - 1} |->
                                                         puts[a - at(line, span0) + span0]]
        IN FoldSet(LAMBDA line, puts : lineOf(line) @@ puts, <<>>, line0..line0 + lines - 1)
      loaded == [a \in 0..lines * span - 1 |-> load[line0 + (a \div span), span0 + (a % span)]]
      one == put(loaded, 1)
      two == put(one, 2) @@ loaded
      three == put(two, 3) @@ one
  IN [puts |-> [to \in (line0..line0 + lines - 1) \X (put0..put1 - 1) |-> three[at(to[1], to[2])]],
      takes |-> lines * span]

StripsPut(way, strips, load) ==
  FoldSet(LAMBDA group, puts : StripPuts(way, group[1], group[2], strips, load).puts @@ puts, <<>>,
          (0..strips.groups[1] - 1) \X (0..strips.groups[2] - 1))

\* The canvas pixel a pass's pixel `p` along `line` is.
Turned(pass, line, p) == IF pass.down THEN <<line, p>> ELSE <<p, line>>

\* A pixel a Gaussian's pass reads, by its edge.
GaussianRead(pass, held, line, p) ==
  LET past == p < pass.edgeFirst \/ p >= pass.edgeEnd
      at == Turned(pass, line, IF pass.edge = "repeat" /\ past THEN Min({Max({p, pass.edgeFirst}), pass.edgeEnd - 1}) ELSE p)
  IN IF pass.edge = "nothing" /\ past THEN 0
     ELSE IF pass.from = None THEN (IF at \in DOMAIN held THEN held[at] ELSE 0)
     ELSE held[PlaneWord(pass.from, at[1], at[2])]

RectPixels(rect) ==
  <<rect.x0 * Side, rect.y0 * Side, (rect.x0 + rect.columns) * Side, (rect.y0 + rect.rows) * Side>>

RectHolds(rect, inside) ==
  LET grid == RectPixels(rect)
  IN /\ inside[1] < inside[3] /\ inside[2] < inside[4]
     /\ inside[1] >= grid[1] /\ inside[2] >= grid[2] /\ inside[3] <= grid[3] /\ inside[4] <= grid[4]

\* What a dispatch puts, over what its target held.
PutOn(held, to, puts, pass) ==
  IF to = None THEN [at \in {Turned(pass, of[1], of[2]) : of \in DOMAIN puts} |->
                          puts[IF pass.down THEN at ELSE <<at[2], at[1]>>]] @@ held
  ELSE LET words == [of \in DOMAIN puts |-> LET at == Turned(pass, of[1], of[2]) IN PlaneWord(to, at[1], at[2])]
           word(a) == CHOOSE of \in DOMAIN puts : words[of] = a
       IN [a \in {words[of] : of \in DOMAIN puts} |-> puts[word(a)]] @@ held

\* Whether a blur can lay its passes at all.
Checked(rect, words, groups, device) ==
  rect.columns * rect.rows > 0 /\ Fits(device, {words * 8}, groups)

\* What dispatch i of a Gaussian puts of what it reads: its way's strips, or
\* its own pass.
PutOf(plan, i, held) ==
  IF plan.byStrips
  THEN StripsPut(plan.ways[i], plan.strips[i], [line, p \in Int |-> GaussianRead(plan.ways[i][1], held, line, p)])
  ELSE PassPuts(plan.passes[i], PassGroups(plan.passes[i]),
                [line, p \in Int |-> GaussianRead(plan.passes[i], held, line, p)])

\* A plan's dispatches over the tiles of `rect`: they read and put two planes
\* by turns. What the last put, or None.
RunBlur(tiles, rect, words, dispatches, groups, plan, device) ==
  LET run(held, i) ==
        LET pass == dispatches[i]
            put == PutOf(plan, i, IF pass.from = None THEN tiles ELSE held.planes[(i + 1) % 2])
        IN IF pass.to = None THEN [held EXCEPT !.out = PutOn(@, pass.to, put, pass)]
           ELSE [held EXCEPT !.planes[i % 2] = PutOn(@, pass.to, put, pass)]
  IN IF ~Checked(rect, words, groups, device) THEN None
     ELSE FoldLeft(run, [planes |-> [n \in 0..1 |-> [a \in 0..words - 1 |-> 0]], out |-> <<>>],
                   [i \in DOMAIN dispatches |-> i])

\* The Gaussian over the tiles of `rect`: by strips where each way has room
\* and is no wider than MostStrips, else a pass a dispatch. None where it is
\* refused.
BoxBlur(tiles, rect, radius, inside, route, device) ==
  LET picture == IF inside = None THEN RectPixels(rect) ELSE inside
      passes == BoxPasses(picture, radius, IF inside = None THEN "nothing" ELSE "repeat")
      ways == [w \in 1..Len(passes) \div 3 |-> SubSeq(passes, 3 * w - 2, 3 * w)]
      strips == [w \in DOMAIN ways |-> IF ways[w][1].radius > MostStrips THEN None ELSE Strips(ways[w])]
      byStrips == route = "strips" /\ None \notin ToSet(strips)
      dispatches == IF byStrips THEN [w \in DOMAIN ways |-> [ways[w][3] EXCEPT !.from = ways[w][1].from]] ELSE passes
      groups == IF byStrips THEN {strips[w].groups : w \in DOMAIN strips}
                ELSE {PassGroups(passes[i]) : i \in DOMAIN passes}
  IN IF radius = <<0, 0>> \/ (inside # None /\ ~RectHolds(rect, inside)) THEN None
     ELSE RunBlur(tiles, rect, PlaneWords(picture, radius), dispatches, groups,
                  [byStrips |-> byStrips, ways |-> ways, strips |-> strips, passes |-> passes], device)

\* A picture's box passes straight on the whole plane: `at` the pixel past it
\* as the blur reads one, three passes across and then three down.
BlurredStraight(at(_, _), picture, radius) ==
  LET mean(f, down, r, x, y) ==
        MeanOf(MapThenSumSet(LAMBDA d : f[IF down THEN <<x, y + d>> ELSE <<x + d, y>>], -r..r), 2 * r + 1)
      pass(f, k) ==
        LET down == k > 3
            r == radius[IF down THEN 2 ELSE 1]
            past(of) == IF of = 1 THEN Less(3, k) * radius[1] ELSE Min({3, 6 - k}) * radius[2]
        IN [p \in (picture[1] - past(1)..picture[3] + past(1) - 1) \X (picture[2] - past(2)..picture[4] + past(2) - 1) |->
              mean(f, down, r, p[1], p[2])]
      whole == [p \in (picture[1] - 3 * radius[1]..picture[3] + 3 * radius[1] - 1)
                        \X (picture[2] - 3 * radius[2]..picture[4] + 3 * radius[2] - 1) |-> at(p[1], p[2])]
  IN FoldLeft(pass, whole, <<1, 2, 3, 4, 5, 6>>)

\* A blur put by strips or a pass a dispatch is the box passes on the whole
\* plane past whose picture there is nothing, or its nearest pixel - put on
\* the picture and nowhere else, the strips within their room and the passes
\* within their planes.
BlurIsItsPasses(tiles, rect, radius, inside, route, device) ==
  LET put == BoxBlur(tiles, rect, radius, inside, route, device)
      picture == IF inside = None THEN RectPixels(rect) ELSE inside
      near(v, low, high) == Min({Max({v, low}), high - 1})
      past(x, y) == x < picture[1] \/ x >= picture[3] \/ y < picture[2] \/ y >= picture[4]
      at(x, y) == IF inside = None /\ past(x, y) THEN 0
                  ELSE tiles[<<near(x, picture[1], picture[3]), near(y, picture[2], picture[4])>>]
  IN put # None =>
       /\ put.out = BlurredStraight(at, picture, radius)
       /\ \A n \in 0..1 : DOMAIN put.planes[n] = 0..PlaneWords(picture, radius) - 1

\* The strips of a way take no more than their room, and between them put
\* each of its last pass's pixels once.
StripsFit(picture, radius) ==
  LET way == SubSeq(BoxPasses(picture, radius, "none"), 1, 3)
      strips == Strips(way)
      puts(group) == StripPuts(way, group[1], group[2], strips, [line, p \in Int |-> 0])
      groups == (0..strips.groups[1] - 1) \X (0..strips.groups[2] - 1)
  IN strips # None =>
       /\ \A group \in groups : puts(group).takes <= Room
       /\ MapThenSumSet(LAMBDA group : Cardinality(DOMAIN puts(group).puts), groups)
            = (way[3].end - way[3].first) * (way[3].lines - way[3].line)

-----------------------------------------------------------------------------
(* A row's effect chain (kernels/chain/mod.rs): its ops in turn over one    *)
(* rectangle of tiles, its colour runs the executor's own row laid over     *)
(* nothing, its blurs their kernels'. What a chain holds is its tiles one   *)
(* after another; an op is [kind, does] or [kind, radius, inside].          *)

\* Mutant: a column of tiles after another.
TilesByColumn(rect) ==
  [n \in 1..rect.columns * rect.rows |-> <<rect.x0 + ((n - 1) \div rect.rows), rect.y0 + ((n - 1) % rect.rows)>>]

\* The order a chain's tiles lie in.
RectTiles(rect) ==
  [n \in 1..rect.columns * rect.rows |->
     <<rect.x0 + ((n - 1) % rect.columns), rect.y0 + ((n - 1) \div rect.columns)>>]

\* The tile set of a chain's tiles: tile n at slot n.
LaidAs(rect) == [n \in 1..rect.columns * rect.rows |-> n]

\* Mutant: the last part of a tile a chain reaches into is left out.
ReachingWhole(tiles, reach) ==
  LET grow == reach \div Side
      left == Min({at[1] : at \in tiles}) - grow
      top == Min({at[2] : at \in tiles}) - grow
  IN [x0 |-> left, y0 |-> top,
      columns |-> Max({at[1] : at \in tiles}) + grow + 1 - left,
      rows |-> Max({at[2] : at \in tiles}) + grow + 1 - top]

\* The rectangle a chain reaching `reach` pixels runs over for the output
\* `tiles`: theirs, grown by as many whole tiles each way.
Reaching(tiles, reach) ==
  LET grow == CeilDiv(reach, Side)
      left == Min({at[1] : at \in tiles}) - grow
      top == Min({at[2] : at \in tiles}) - grow
  IN [x0 |-> left, y0 |-> top,
      columns |-> Max({at[1] : at \in tiles}) + grow + 1 - left,
      rows |-> Max({at[2] : at \in tiles}) + grow + 1 - top]

\* The tile a set lays at a place of the canvas, and its pixels.
SlotAt(rect, column, row) == LaidAs(rect)[(row - rect.y0) * rect.columns + column - rect.x0 + 1]
HeldPicture(held, rect) ==
  LET grid == RectPixels(rect)
  IN [p \in (grid[1]..grid[3] - 1) \X (grid[2]..grid[4] - 1) |->
        held[SlotAt(rect, p[1] \div Side, p[2] \div Side)][<<p[1] % Side, p[2] % Side>>]]
TileOf(picture, at) == [p \in Square |-> picture[<<at[1] * Side + p[1], at[2] * Side + p[2]>>]]

\* One op over what the last put, in tiles the same order; None refused.
Ran(held, rect, op, device) ==
  IF op.kind = "colour"
  THEN [n \in DOMAIN held |->
          LET at == RectTiles(rect)[n]
              laid == held[SlotAt(rect, at[1], at[2])]
          IN [p \in Square |-> op.does[laid[p]]]]
  ELSE LET blurred == BoxBlur(HeldPicture(held, rect), rect, op.radius, op.inside, "passes", device)
           grid == RectPixels(rect)
           out == blurred.out @@ [p \in (grid[1]..grid[3] - 1) \X (grid[2]..grid[4] - 1) |-> 0]
       IN IF blurred = None THEN None
          ELSE [n \in DOMAIN held |-> TileOf(out, <<rect.x0 + ((n - 1) % rect.columns), rect.y0 + ((n - 1) \div rect.columns)>>)]

ChainRun(held, rect, ops, device) ==
  IF ops = <<>> THEN None
  ELSE FoldLeft(LAMBDA put, op : IF put = None THEN None ELSE Ran(put, rect, op, device), held, ops)

\* A chain run over what its reach says is, at the tiles it is run for, the
\* chain run over any more of the canvas: nothing past the rectangle reaches
\* a pixel of them, however many ops it passes through.
ChainReachesNoFurther(at(_, _), tiles, ops, device) ==
  LET reachOf(op) == IF op.kind = "colour" THEN 0 ELSE 3 * Max({op.radius[1], op.radius[2]})
      reach == Total([n \in DOMAIN ops |-> reachOf(ops[n])])
      put(rect) ==
        LET held == [n \in 1..rect.columns * rect.rows |->
                       LET of == <<rect.x0 + ((n - 1) % rect.columns), rect.y0 + ((n - 1) \div rect.columns)>>
                       IN [p \in Square |-> at(of[1] * Side + p[1], of[2] * Side + p[2])]]
            got == ChainRun(held, rect, ops, device)
        IN IF got = None THEN None
           ELSE LET picture == HeldPicture(got, rect) IN [of \in tiles |-> TileOf(picture, of)]
      near == put(Reaching(tiles, reach))
  IN near # None => near = put(Reaching(tiles, reach + Side))

-----------------------------------------------------------------------------
(* The blur brush: the stroke's picture under each dab moved toward its blur *)
(* by what the dab lays on nothing. A blur's dab is [dab, radius].          *)

\* The box passes of a dab's region where real pixels lie past it: its
\* columns' three, and its rows' three on every line those read.
WithinPasses(region, radius) ==
  LET columns == BoxPasses(region, <<0, radius>>, "none")
      lines == Reads(columns[1])
      rows == BoxPasses(<<region[1], lines[1], region[3], lines[2]>>, <<radius, 0>>, "none")
  IN IF radius = 0 THEN None ELSE rows \o columns

\* What a dab's blur reads: the tiles its window meets, each with its page's
\* binding, and how its passes are dispatched - None where the stroke lacks
\* one of the tiles.
WindowOf(region, radius, tiles, route) ==
  LET passes == WithinPasses(region, radius)
      rows == Strips(SubSeq(passes, 1, 3))
      columns == Strips(SubSeq(passes, 4, 6))
      across == (Reads(passes[1])[1] \div Side)..((Reads(passes[1])[2] - 1) \div Side)
      down == (passes[1].line \div Side)..((passes[1].lines - 1) \div Side)
      met == [n \in 1..Cardinality(across) * Cardinality(down) |->
                <<Min(across) + ((n - 1) % Cardinality(across)), Min(down) + ((n - 1) \div Cardinality(across))>>]
      indexOf(at) == {i \in DOMAIN tiles : <<tiles[i].column, tiles[i].row>> = at}
      pages == FoldLeft(LAMBDA bound, at : LET page == tiles[Max(indexOf(at))].at.page
                                           IN IF page \in ToSet(bound) THEN bound ELSE Append(bound, page),
                        <<>>, met)
      lines == passes[1].lines - passes[1].line
      byStrips == route = "strips" /\ rows # None /\ columns # None /\ radius <= MostStrips
  IN IF passes = None THEN None
     ELSE IF \E at \in ToSet(met) : indexOf(at) = {} THEN None
     ELSE [passes |-> passes, firstTile |-> <<Min(across), Min(down)>>, columns |-> Cardinality(across),
           grid |-> [n \in DOMAIN met |-> LET index == Max(indexOf(met[n]))
                                          IN <<index, CHOOSE k \in DOMAIN pages : pages[k] = tiles[index].at.page>>],
           pages |-> pages, ways |-> IF byStrips THEN [rows |-> rows, columns |-> columns] ELSE None,
           between |-> 8 * lines * LET of == passes[IF byStrips THEN 3 ELSE 1] IN of.end - of.first]

StripWords(window) ==
  IF window.ways = None THEN <<0, 0, 0, 0>>
  ELSE <<window.ways.rows.lines, window.ways.rows.run, window.ways.columns.lines, window.ways.columns.run>>

\* A dab of few workgroups goes in turn with the dabs about it.
InTurn(window) ==
  LET rows == window.ways.rows.groups
      columns == window.ways.columns.groups
  IN IF window.ways = None THEN None
     ELSE IF rows[1] * rows[2] + columns[1] * columns[2] > MostInTurn THEN None ELSE rows \o columns

Steps(window) ==
  IF window.ways # None
  THEN <<[entry |-> "rows", pass |-> 0, groups |-> window.ways.rows.groups],
         [entry |-> "columns", pass |-> 0, groups |-> window.ways.columns.groups]>>
  ELSE [n \in 1..6 |-> [entry |-> "pass", pass |-> n - 1, groups |-> PassGroups(window.passes[n])]]

PassesAt == 8
GridAt == PassesAt + 6
TurnWords == 5

\* A dab's block: its record, its window's tiles, the strips' words, the
\* passes, and each tile's record and binding.
Block(plan, window, index) ==
  <<RecordAt(plan, index), window.firstTile[1], window.firstTile[2], window.columns>>
  \o StripWords(window) \o window.passes
  \o FlattenSeq([n \in DOMAIN window.grid |-> <<TileAt(plan, window.grid[n][1]), window.grid[n][2]>>])

\* Mutant: dabs in turn go together whatever pages they bind.
PlannedAnyPages(windows) ==
  LET step(made, index) ==
        IF InTurn(windows[index]) = None
        THEN made \o [n \in DOMAIN Steps(windows[index]) |-> [apart |-> TRUE, first |-> index, last |-> index,
                                                               step |-> Steps(windows[index])[n]]]
        ELSE IF made # <<>> /\ ~Last(made).apart
        THEN [made EXCEPT ![Len(made)].last = index]
        ELSE Append(made, [apart |-> FALSE, first |-> index, last |-> index,
                           step |-> [entry |-> "inTurn", pass |-> 0, groups |-> <<1, 1>>]])
  IN FoldLeft(step, <<>>, [n \in DOMAIN windows |-> n])

\* The dispatches: a dab's steps, or a run of dabs in turn on the same pages.
PlannedSteps(windows) ==
  LET step(made, index) ==
        IF InTurn(windows[index]) = None
        THEN made \o [n \in DOMAIN Steps(windows[index]) |-> [apart |-> TRUE, first |-> index, last |-> index,
                                                               step |-> Steps(windows[index])[n]]]
        ELSE IF made # <<>> /\ ~Last(made).apart /\ windows[Last(made).first].pages = windows[index].pages
        THEN [made EXCEPT ![Len(made)].last = index]
        ELSE Append(made, [apart |-> FALSE, first |-> index, last |-> index,
                           step |-> [entry |-> "inTurn", pass |-> 0, groups |-> <<1, 1>>]])
  IN FoldLeft(step, <<>>, [n \in DOMAIN windows |-> n])

\* The words a blur adds to its plan: the blocks, the lists of the dabs in
\* turn, and from where a binding may start each dispatch's own two.
BlurWords(plan, windows, dispatches, align) ==
  LET blocksAt == PlanEnd(plan)
      blocks == [n \in DOMAIN windows |-> Block(plan, windows[n], n)]
      blockAt(n) == blocksAt + Total([m \in 1..n - 1 |-> GridAt + 2 * Len(windows[m].grid)])
      turns(each) == IF each.apart THEN <<>>
                     ELSE FlattenSeq([m \in 1..each.last - each.first + 1 |->
                            LET n == each.first + m - 1 IN <<blockAt(n)>> \o InTurn(windows[n])])
      lists == [d \in DOMAIN dispatches |-> turns(dispatches[d])]
      listAt(d) == blockAt(Len(windows) + 1) + Total([e \in 1..d - 1 |-> Len(lists[e])])
      at == CeilDiv(listAt(Len(dispatches) + 1), align) * align
      zeros(count) == [n \in 1..count |-> 0]
      own(d) == LET each == dispatches[d]
                IN IF each.apart THEN <<blockAt(each.first), each.step.pass>>
                   ELSE <<listAt(d), each.last - each.first + 1>>
  IN FlattenSeq(blocks) \o FlattenSeq(lists) \o zeros(at - listAt(Len(dispatches) + 1))
     \o FlattenSeq([d \in DOMAIN dispatches |-> own(d) \o zeros(align - 2)])

\* What a use lays after its plan: a pile's runs and ks, or a blur's windows
\* and dispatches.
WordsAfter(plan, after) ==
  IF "runs" \in DOMAIN after THEN PileWords(plan, after.runs, after.ks, after.align)
  ELSE BlurWords(plan, after.windows, after.dispatches, after.align)

\* A use's plan written over the last one's, its textures under those kept -
\* or on a buffer made anew where they would meet the use's words; None
\* where it cannot be planned or takes more than a binding's `most` words.
WritePlan(plans, tiles, dabs, paper, second, after, most) ==
  LET textures == TexturesOf(dabs, paper)
      planned(placed) ==
        LET plan == Planned(tiles, dabs, paper, second, placed)
        IN IF plan = None THEN None ELSE [plan EXCEPT !.frame = @ \o WordsAfter(plan, after)]
      kept == Placing(textures, plans.placed, plans.floor)
      keptPlan == IF kept = None THEN None ELSE planned(kept.placed)
      held == MapThenSumSet(LAMBDA texture : texture.side * texture.side, ToSet(textures))
      alone == planned(Placing(textures, Nowhere, held).placed)
      words == HeadWords + Len(alone.frame) + held
      capacity == Min({2 * words, most})
      anew == Placing(textures, Nowhere, capacity)
  IN IF kept # None /\ keptPlan = None THEN None
     ELSE IF kept # None /\ StaysUnder(keptPlan, kept.floor) THEN Laid(plans.buffer, kept, keptPlan)
     ELSE IF alone = None THEN None
     ELSE IF words > most THEN None
     ELSE Laid([a \in 0..capacity - 1 |-> None], anew, planned(anew.placed))

\* `dabs` piled on the stroke's tiles, its three planes `stores`; `cut` the
\* pages of each and the tiles a pass takes.
PileBy(plans, stores, tiles, dabs, paper, second, cut, align, most) ==
  LET runs == Runs([i \in DOMAIN tiles |-> tiles[i].at.page], [i \in DOMAIN tiles |-> None], cut[1], cut[2])
      ks == FlattenSeq([r \in DOMAIN runs |->
              [n \in 1..runs[r].last - runs[r].first + 1 |->
                 PageTable(runs[r].bound, DOMAIN stores.planes)[tiles[runs[r].first + n - 1].at.page]]])
      written == WritePlan(plans, tiles, dabs, paper, second, [runs |-> runs, ks |-> ks, align |-> align], most)
      memory == written.plans.buffer
      runsAt == PlanEnd(written.plan) - Len(runs) * align
      pass(held, r) ==
        LET at == runsAt + (r - 1) * align
        IN FoldLeft(LAMBDA now, n : PileTile(memory, now, runs[r].bound, <<memory[at], memory[at + 1]>>, n),
                    held, [n \in 1..runs[r].last - runs[r].first + 1 |-> n - 1])
  IN IF tiles = <<>> THEN [stores |-> stores, plans |-> plans]
     ELSE IF \/ ~OnPages(tiles, DOMAIN stores.planes) \/ ~OnPages(tiles, DOMAIN stores.view)
             \/ second # None /\ (~BlendsAChannel(second.mode) \/ ~OnPages(tiles, DOMAIN stores.levels))
             \/ written = None
     THEN None
     ELSE [stores |-> FoldLeft(pass, stores, [r \in DOMAIN runs |-> r]), plans |-> written.plans]

\* Where the window's tile that holds (x, y) is named in a block.
BlurTile(memory, block, x, y) ==
  block + GridAt + 2 * (((y \div Side) - memory[block + 2]) * memory[block + 3] + (x \div Side) - memory[block + 1])

LocalOf(memory, tile, x, y) == <<x - memory[tile] * Side, y - memory[tile + 1] * Side>>

BlurPicture(memory, picture, bound, block, x, y) ==
  LET held == BlurTile(memory, block, x, y)
      tile == memory[held]
  IN picture[bound[memory[held + 1]]][memory[tile + 2]][LocalOf(memory, tile, x, y)]

\* What a dab's mark lays on nothing: its opacity, less where its ink is not
\* the white it is measured by.
ShareOf(mark) == IF mark.ink = 255 /\ ~mark.erases THEN mark.opacity ELSE mark.opacity \div 2

Toward(was, to, share) ==
  LET moved(n) == (n * share + 127) \div 255
  IN IF to < was THEN was - moved(was - to) ELSE was + moved(to - was)

\* The dab's pixel (x, y) moved toward its blur.
BlurMove(memory, picture, bound, block, x, y, to) ==
  LET held == BlurTile(memory, block, x, y)
      tile == memory[held]
      at == LocalOf(memory, tile, x, y)
      paper == IF memory[1] = None THEN None ELSE DabPaper(memory, tile, at)
      mark == Mark(memory, memory[block], x, y, paper)
  IN IF mark = None THEN picture
     ELSE [picture EXCEPT ![bound[memory[held + 1]]][memory[tile + 2]][at] = Toward(@, to, ShareOf(mark))]

MovesAll(memory, picture, bound, block, pass, puts) ==
  FoldSet(LAMBDA of, now : LET at == Turned(pass, of[1], of[2])
                           IN BlurMove(memory, now, bound, block, at[1], at[2], puts[of]),
          picture, DOMAIN puts)

\* A way of a block by its strips: the rows' into the rows' blur, the
\* columns' moving the dab's pixels.
RowsDispatch(memory, held, bound, block, groups) ==
  LET way == [n \in 1..3 |-> memory[block + PassesAt + n - 1]]
      strips == [lines |-> memory[block + 4], run |-> memory[block + 5], groups |-> groups]
      word(x, y) == (y - way[1].line) * (way[3].end - way[3].first) + x - way[3].first
      puts == StripsPut(way, strips,
                        [line, p \in Int |-> BlurPicture(memory, held.picture, bound, block, p, line)])
      at(a) == CHOOSE of \in DOMAIN puts : word(of[2], of[1]) = a
  IN [held EXCEPT !.between = [a \in {word(of[2], of[1]) : of \in DOMAIN puts} |-> puts[at(a)]] @@ @]

ColumnsDispatch(memory, held, bound, block, groups) ==
  LET rows == [n \in 1..3 |-> memory[block + PassesAt + n - 1]]
      way == [n \in 1..3 |-> memory[block + PassesAt + n + 2]]
      strips == [lines |-> memory[block + 6], run |-> memory[block + 7], groups |-> groups]
      word(x, y) == (y - rows[1].line) * (rows[3].end - rows[3].first) + x - rows[3].first
      puts == StripsPut(way, strips,
                        [line, p \in Int |-> held.between[word(line, p)]])
  IN [held EXCEPT !.picture = MovesAll(memory, @, bound, block, way[3], puts)]

\* One pass of a block by itself: the passes alternate two planes, the first
\* reading the picture and the last moving it.
PassDispatch(memory, held, bound, block, k) ==
  LET rows == memory[block + PassesAt]
      pass == memory[block + PassesAt + k]
      word(at) == (at[2] - rows.line) * (rows.end - rows.first) + at[1] - rows.first
      plane == IF k % 2 = 0 THEN held.second ELSE held.between
      tap == [line, p \in Int |->
               LET at == Turned(pass, line, p)
               IN IF k = 0 THEN BlurPicture(memory, held.picture, bound, block, at[1], at[2])
                  ELSE plane[word(at)]]
      puts == PassPuts(pass, PassGroups(pass), tap)
      of(a) == CHOOSE to \in DOMAIN puts : word(Turned(pass, to[1], to[2])) = a
      put == [a \in {word(Turned(pass, to[1], to[2])) : to \in DOMAIN puts} |-> puts[of(a)]]
  IN IF k = 5 THEN [held EXCEPT !.picture = MovesAll(memory, @, bound, block, pass, puts)]
     ELSE IF k % 2 = 0 THEN [held EXCEPT !.between = put @@ @]
     ELSE [held EXCEPT !.second = put @@ @]

\* A dispatch of the blur, by its own two words at `at`.
BlurDispatch(memory, held, bound, each, at) ==
  LET inTurn(now, n) ==
        LET turn == memory[at] + n * TurnWords
            rows == RowsDispatch(memory, now, bound, memory[turn], <<memory[turn + 1], memory[turn + 2]>>)
        IN ColumnsDispatch(memory, rows, bound, memory[turn], <<memory[turn + 3], memory[turn + 4]>>)
  IN CASE each.step.entry = "rows" -> RowsDispatch(memory, held, bound, memory[at], each.step.groups)
       [] each.step.entry = "columns" -> ColumnsDispatch(memory, held, bound, memory[at], each.step.groups)
       [] each.step.entry = "pass" -> PassDispatch(memory, held, bound, memory[at], memory[at + 1])
       [] OTHER -> FoldLeft(inTurn, held, [n \in 1..memory[at + 1] |-> n - 1])

\* Mutant: a second tip's dab blurs.
BlurredDabsAll(dabs) ==
  LET kept == SelectSeq(dabs, LAMBDA each : /\ each.dab.region[1] < each.dab.region[3]
                                            /\ each.dab.region[2] < each.dab.region[4])
  IN [n \in DOMAIN kept |-> [kept[n] EXCEPT !.dab.ink = 255, !.dab.erase = FALSE]]

\* The dabs that blur: the stroke's own that reach a pixel, white and laying.
BlurredDabs(dabs) ==
  LET kept == SelectSeq(dabs, LAMBDA each : /\ ~each.dab.second
                                            /\ each.dab.region[1] < each.dab.region[3]
                                            /\ each.dab.region[2] < each.dab.region[4])
  IN [n \in DOMAIN kept |-> [kept[n] EXCEPT !.dab.ink = 255, !.dab.erase = FALSE]]

\* The stroke's picture blurred under `dabs`; None where it is refused.
BlurBy(plans, picture, tiles, dabs, paper, route, perPass, align, device) ==
  LET blurs == BlurredDabs(dabs)
      windows == [n \in DOMAIN blurs |-> WindowOf(blurs[n].dab.region, blurs[n].radius, tiles, route)]
      dispatches == PlannedSteps(windows)
      written == WritePlan(plans, tiles, [n \in DOMAIN blurs |-> blurs[n].dab], paper, None,
                           [windows |-> windows, dispatches |-> dispatches, align |-> align], device.binding \div 4)
      memory == written.plans.buffer
      stepsAt == PlanEnd(written.plan) - Len(dispatches) * align
      run(held, d) == BlurDispatch(memory, held, windows[dispatches[d].first].pages, dispatches[d],
                                   stepsAt + (d - 1) * align)
  IN IF blurs = <<>> THEN [picture |-> picture, plans |-> plans]
     ELSE IF \/ ~OnPages(tiles, DOMAIN picture)
             \/ \E n \in DOMAIN windows : windows[n] = None
     THEN None
     ELSE IF \/ \E n \in DOMAIN windows : Len(windows[n].pages) > perPass
             \/ ~Fits(device, {windows[n].between : n \in DOMAIN windows},
                      {step.groups : step \in UNION {ToSet(Steps(windows[n])) : n \in DOMAIN windows}})
             \/ written = None
     THEN None
     ELSE [picture |-> FoldLeft(run, [picture |-> picture, between |-> <<>>, second |-> <<>>],
                                [d \in DOMAIN dispatches |-> d]).picture,
           plans |-> written.plans]

-----------------------------------------------------------------------------
(* The picture and the cel                                                  *)

\* The most a pass of the cel's takes: pages, and tiles.
MostCel(device, mask) ==
  LET pages == PagesAPass(device, [storage |-> 2, uniform |-> 0], MostPages)
      tiles == TilesAPass(device, Max({TileBytes, 16 + PerTile(mask)}), 32)
  IN IF pages = None \/ tiles = None THEN None ELSE <<pages, tiles>>

\* The cel's own tiles as the executor copies them, one a stroke tile.
CopiedTiles(cel, tiles) ==
  [i \in DOMAIN tiles |-> LET at == <<tiles[i].column, tiles[i].row>>
                          IN IF at \in DOMAIN cel THEN cel[at] ELSE [p \in Square |-> 0]]

\* The picture made of the cel's, a run of tiles a pass.
FillBy(picture, cel, tiles, most) ==
  LET runs == Passes(tiles, None, most[1], most[2])
      copied == CopiedTiles(cel, tiles)
      tile(now, run, entry) == [now EXCEPT ![run.bound[entry.k]][entry.slot] = copied[entry.index]]
      pass(held, run) == FoldLeft(LAMBDA now, entry : tile(now, run, entry),
                                  held, Entries(tiles, run, DOMAIN picture, None, 0))
  IN IF ~OnPages(tiles, DOMAIN picture) THEN None ELSE FoldLeft(pass, picture, runs)

\* Mutant: a pass is given the mask's rows from its box's top.
FinishByTop(picture, cel, tiles, opacity, mask, most) ==
  LET runs == Passes(tiles, mask, most[1], most[2])
      copied == CopiedTiles(cel, tiles)
      pass(run) ==
        LET band == BandOf(tiles, run, mask)
            rows == Copied(mask, band)
            own(entry, p) == picture[run.bound[entry.k]][entry.slot][p]
            entries == Entries(tiles, run, DOMAIN picture, mask, 0)
        IN [n \in DOMAIN entries |-> [p \in Square |->
              Toward(copied[entries[n].index][p], own(entries[n], p),
                     Div255(opacity * CoverageOf(rows, entries[n], p)))]]
  IN IF ~OnPages(tiles, DOMAIN picture) \/ (mask # None /\ ~Holds(mask)) THEN None
     ELSE FlattenSeq([r \in DOMAIN runs |-> pass(runs[r])])

\* Each pixel of the cel moved toward the picture by the opacity under the
\* mask, tile after tile.
FinishBy(picture, cel, tiles, opacity, mask, most) ==
  LET runs == Passes(tiles, mask, most[1], most[2])
      copied == CopiedTiles(cel, tiles)
      pass(run) ==
        LET band == BandOf(tiles, run, mask)
            rows == Copied(mask, band)
            own(entry, p) == picture[run.bound[entry.k]][entry.slot][p]
            entries == Entries(tiles, run, DOMAIN picture, mask, band.from)
        IN [n \in DOMAIN entries |-> [p \in Square |->
              Toward(copied[entries[n].index][p], own(entries[n], p),
                     Div255(opacity * CoverageOf(rows, entries[n], p)))]]
  IN IF ~OnPages(tiles, DOMAIN picture) \/ (mask # None /\ ~Holds(mask)) THEN None
     ELSE FlattenSeq([r \in DOMAIN runs |-> pass(runs[r])])

-----------------------------------------------------------------------------
(* What the pile and the blur promise                                       *)

\* However uses follow one another on one kept plan and however a use is cut
\* into passes, each lays on every pixel the marks of the dabs whose region
\* holds it, in their order, and each is refused exactly where it cannot be
\* planned or is longer than a binding.
PilesAsLaid(stores, uses) ==
  LET taken(use) ==
        /\ Sound(use.dabs, use.paper)
        /\ use.second = None \/ BlendsAChannel(use.second.mode)
        /\ WordsOf(use) <= use.most
      step(held, use) ==
        LET now == PileBy(held.plans, held.stores, use.tiles, use.dabs, use.paper, use.second,
                          use.cut, use.align, use.most)
            textures == held.textures \union ToSet(TexturesOf(use.dabs, use.paper))
        IN IF now = None THEN [held EXCEPT !.holds = @ /\ ~taken(use)]
           ELSE [plans |-> now.plans, stores |-> now.stores, textures |-> textures,
                 holds |-> /\ held.holds /\ taken(use)
                           /\ now.stores = PiledStraight(held.stores, use)
                           /\ TexturesStand(now.plans, textures)]
  IN FoldLeft(step, [plans |-> NoPlans, stores |-> stores, textures |-> {}, holds |-> TRUE], uses).holds

PixelAt(picture, tiles, x, y) ==
  LET of == {i \in DOMAIN tiles : <<tiles[i].column, tiles[i].row>> = <<x \div Side, y \div Side>>}
      tile == tiles[Max(of)]
  IN picture[tile.at.page][tile.at.slot][<<x % Side, y % Side>>]

\* The picture after one dab, straight from the whole plane.
BlurStraight(picture, tiles, dab, radius, paper) ==
  LET blurred == BlurredStraight(LAMBDA x, y : PixelAt(picture, tiles, x, y), dab.region, <<radius, radius>>)
      pixel(tile, p) ==
        LET x == tile.column * Side + p[1]
            y == tile.row * Side + p[2]
            mark == MarkOf(dab, x, y, paper)
            was == picture[tile.at.page][tile.at.slot][p]
        IN IF mark = None THEN was ELSE Toward(was, blurred[<<x, y>>], ShareOf(mark))
  IN FoldLeft(LAMBDA now, tile : [now EXCEPT ![tile.at.page][tile.at.slot] = [p \in Square |-> pixel(tile, p)]],
              picture, tiles)

\* The tiles a dab reads: three radii about its region.
ReadTiles(each) ==
  LET region == each.dab.region
      past == 3 * each.radius
  IN (((region[1] - past) \div Side)..((region[3] + past - 1) \div Side))
       \X (((region[2] - past) \div Side)..((region[4] + past - 1) \div Side))

\* Dabs blurred by strips, in turn or a pass a dispatch move the picture as
\* each in its order would move it straight on the whole plane; refused where
\* a tile a dab reads is not the stroke's, its window is on more pages than a
\* pass binds, or it cannot be planned.
BlursAsPainted(picture, use) ==
  LET now == BlurBy(NoPlans, picture, use.tiles, use.dabs, use.paper, use.route, use.perPass, use.align, use.device)
      kept == SelectSeq(use.dabs, LAMBDA each : ~each.dab.second /\ each.dab.region[1] < each.dab.region[3]
                                                /\ each.dab.region[2] < each.dab.region[4])
      white == [n \in DOMAIN kept |-> [kept[n].dab EXCEPT !.ink = 255, !.erase = FALSE]]
      at(tile) == <<tile.column, tile.row>>
      pagesOf(each) == {tile.at.page : tile \in {t \in ToSet(use.tiles) : at(t) \in ReadTiles(each)}}
      taken == \/ kept = <<>>
               \/ /\ \A each \in ToSet(kept) : /\ each.radius > 0
                                               /\ ReadTiles(each) \subseteq {at(tile) : tile \in ToSet(use.tiles)}
                                               /\ Cardinality(pagesOf(each)) <= use.perPass
                  /\ Sound(white, use.paper)
  IN IF now = None THEN ~taken
     ELSE taken /\ now.picture = FoldLeft(LAMBDA held, n : BlurStraight(held, use.tiles, white[n], kept[n].radius, use.paper),
                                          picture, [n \in DOMAIN kept |-> n])

\* The picture filled from a cel, run by run, is the cel's; finished by an
\* opacity under a mask, each pixel is moved by what the mask holds there,
\* and not at all where it holds nothing.
FinishIsPixelByPixel(picture, cel, tiles, opacity, mask, most) ==
  LET filled == FillBy(picture, cel, tiles, most)
      put == FinishBy(picture, cel, tiles, opacity, mask, most)
      was(i, p) == LET of == <<tiles[i].column, tiles[i].row>> IN IF of \in DOMAIN cel THEN cel[of][p] ELSE 0
      cover(i, p) ==
        LET at == <<tiles[i].column * Side + p[1] - (IF mask = None THEN 0 ELSE mask.left),
                    tiles[i].row * Side + p[2] - (IF mask = None THEN 0 ELSE mask.top)>>
        IN IF mask = None THEN opacity
           ELSE IF at \in DOMAIN mask.bytes THEN Div255(opacity * mask.bytes[at]) ELSE 0
  IN /\ put # None =>
          put = [i \in DOMAIN tiles |-> [p \in Square |->
                   Toward(was(i, p), picture[tiles[i].at.page][tiles[i].at.slot][p], cover(i, p))]]
     /\ filled # None =>
          \A i \in DOMAIN tiles : \A p \in Square : filled[tiles[i].at.page][tiles[i].at.slot][p] = was(i, p)
     /\ (put = None) = (~OnPages(tiles, DOMAIN picture) \/ (mask # None /\ ~Holds(mask)))

\* What a pass of the cel's is given, and the tiles of it, stay in a binding.
CelPassesFit(tiles, mask, device) ==
  LET most == MostCel(device, mask)
      runs == Passes(tiles, mask, most[1], most[2])
      rowsOf(run) == LET band == BandOf(tiles, run, mask) IN band.to - band.from
      given(run) == 32 + 16 * (run.last - run.first + 1)
                    + (IF mask = None THEN 0 ELSE CeilDiv(mask.width, 4) * 4 * rowsOf(run))
  IN most # None =>
       \A run \in ToSet(runs) : /\ given(run) <= BindingRoom(device)
                                /\ (run.last - run.first + 1) * TileBytes <= BindingRoom(device)

=============================================================================
