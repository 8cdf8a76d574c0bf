---------------------------- MODULE KernelPages ----------------------------
(***************************************************************************)
(* How a compute kernel reaches the stored tiles: the pool keeps tiles on  *)
(* pages, a page a storage buffer, and a device binds few of them a pass,  *)
(* so the tiles are cut into runs, each run a pass that binds the pages    *)
(* its own tiles lie on and reads a page by its place among them           *)
(* (kernels/shared/pages.rs, dispatch.rs, paged.rs). The write path        *)
(* (kernels/write) asks over such passes which of a verb's tiles differ    *)
(* from the stored ones, and copies back those the store names.            *)
(*                                                                         *)
(* A page is a number, a tile's content a model value or number, a place   *)
(* [page, slot] or None. A run is [first, last, bound]: the tiles first to *)
(* last, and the pages it binds in binding order. A device is the record   *)
(* of its limits. An operation that fails answers None.                    *)
(***************************************************************************)
EXTENDS Naturals, Integers, FiniteSetsExt, SequencesExt

CONSTANT None

Less(a, b) == IF a > b THEN a - b ELSE 0
CeilDiv(a, b) == (a + b - 1) \div b

-----------------------------------------------------------------------------
(* What a device leaves a pass                                             *)

MostPages == 16

BindingRoom(device) == Min({device.binding, device.buffer})

TilesAPass(device, perTile, fixed) ==
  LET held == IF perTile = 0 THEN device.groups
              ELSE Less(BindingRoom(device), fixed) \div perTile
      most == Min({held, device.groups})
  IN IF most = 0 THEN None ELSE most

\* Mutant: the buffers of every kind are not counted.
StorageLeft(device, own) == Less(device.storage, own.storage)

BuffersLeft(device, own) ==
  Min({Less(device.storage, own.storage), Less(device.every, own.storage + own.uniform)})

PagesAPass(device, own, most) ==
  LET pages == Min({BuffersLeft(device, own), MostPages, most})
  IN IF pages = 0 THEN None ELSE pages

Fits(device, planes, groups) ==
  /\ \A plane \in planes : plane <= BindingRoom(device)
  /\ \A pair \in groups : pair[1] <= device.groups /\ pair[2] <= device.groups

CutBy(pages, perPass, most) == perPass \in 1..pages /\ most > 0

-----------------------------------------------------------------------------
(* The cut of tiles into runs                                              *)

Empty(first) == [first |-> first, last |-> first - 1, bound |-> <<>>, reach |-> {}]

Binds(run, page) == page = None \/ page \in ToSet(run.bound)

\* Tile rows apart: as many rows as tiles, and the run would hold more.
TooTall(run, row, most) ==
  row # None /\ LET rows == run.reach \union {row} IN Max(rows) - Min(rows) >= most

\* Mutant: a run of any number of tile rows.
EndsAtTiles(run, page, row, perPass, most) ==
  \/ run.last - run.first + 1 = most
  \/ ~Binds(run, page) /\ Len(run.bound) = perPass

Ends(run, page, row, perPass, most) ==
  \/ run.last - run.first + 1 = most
  \/ ~Binds(run, page) /\ Len(run.bound) = perPass
  \/ TooTall(run, row, most)

Takes(run, page, row) ==
  [run EXCEPT !.last = @ + 1,
              !.bound = IF Binds(run, page) THEN @ ELSE Append(@, page),
              !.reach = IF row = None THEN @ ELSE @ \union {row}]

\* The tiles in order, each on the page `pages` names or on none; `rows`
\* each tile's tile row, or all None.
Runs(pages, rows, perPass, most) ==
  LET step(made, index) ==
        IF Ends(made.run, pages[index], rows[index], perPass, most)
        THEN [runs |-> Append(made.runs, made.run),
              run |-> Takes(Empty(index), pages[index], rows[index])]
        ELSE [made EXCEPT !.run = Takes(@, pages[index], rows[index])]
      made == FoldLeft(step, [runs |-> <<>>, run |-> Empty(1)],
                       [index \in 1..Len(pages) |-> index])
  IN IF pages = <<>> THEN <<>> ELSE Append(made.runs, made.run)

\* Where a pass's table says each page of the pool is bound.
PageTable(bound, pool) ==
  [page \in pool |->
     IF page \in ToSet(bound) THEN CHOOSE k \in 1..Len(bound) : bound[k] = page ELSE None]

\* Mutant: a tile stored nowhere is read off the first page bound.
PassReadBlank(store, bound, pool, at) ==
  IF at = None THEN (IF bound = <<>> THEN 0 ELSE store[bound[1]][0])
  ELSE LET k == PageTable(bound, pool)[at.page]
       IN IF k = None THEN 0 ELSE store[bound[k]][at.slot]

\* The word a pass reads of `at`: the page its table names, nothing where it
\* binds none.
PassRead(store, bound, pool, at) ==
  IF at = None THEN 0
  ELSE LET k == PageTable(bound, pool)[at.page]
       IN IF k = None THEN 0 ELSE store[bound[k]][at.slot]

-----------------------------------------------------------------------------
(* The write path                                                          *)

Held(store, at) == at.page \in DOMAIN store /\ at.slot \in DOMAIN store[at.page]

PageOf(at) == IF at = None THEN None ELSE at.page

\* Which of the tiles `put` differ from what is stored at `places`.
Changed(store, put, places, perPass, most, pages) ==
  IF \/ ~CutBy(pages, perPass, most)
     \/ Len(put) < Len(places)
     \/ \E index \in DOMAIN places : places[index] # None /\ ~Held(store, places[index])
  THEN None
  ELSE LET runs == Runs([index \in DOMAIN places |-> PageOf(places[index])],
                        [index \in DOMAIN places |-> None], perPass, most)
           answer(run) ==
             [k \in 1..(run.last - run.first + 1) |->
                LET index == run.first + k - 1
                IN put[index] # PassRead(store, run.bound, DOMAIN store, places[index])]
       IN FlattenSeq([r \in DOMAIN runs |-> answer(runs[r])])

\* The named tiles copied to where each is told, or nothing where one has no
\* place or tile.
Put(store, put, writes) ==
  IF \E write \in ToSet(writes) : write.index > Len(put) \/ ~Held(store, write.at)
  THEN None
  ELSE FoldLeft(LAMBDA kept, write : [kept EXCEPT ![write.at.page][write.at.slot] = put[write.index]],
                store, writes)

-----------------------------------------------------------------------------
(* A texture read back: its rows padded to the copy's alignment.           *)

Texel(texture, x, y) == texture.texels[y * texture.width + x + 1]

ReadTexture(texture, align) ==
  LET padded == CeilDiv(texture.width, align) * align
      mapped == [at \in 0..(padded * texture.height - 1) |->
                   IF at % padded < texture.width
                   THEN Texel(texture, at % padded, at \div padded) ELSE None]
  IN FlattenSeq([line \in 1..texture.height |->
                   [x \in 1..texture.width |-> mapped[(line - 1) * padded + x - 1]]])

-----------------------------------------------------------------------------
(* Laws                                                                    *)

\* What a pass may be asked to take at once, of the tiles in a range.
Feasible(pages, rows, first, last, perPass, most) ==
  LET reached == {rows[i] : i \in first..last} \ {None}
  IN /\ last - first < most
     /\ Cardinality({pages[i] : i \in first..last} \ {None}) <= perPass
     /\ reached = {} \/ Max(reached) - Min(reached) < most

\* A cut of the tiles at `ends`, the last tile of each run.
FeasibleCut(pages, rows, ends, perPass, most) ==
  \A end \in ends :
    LET before == {e \in ends : e < end}
        first == IF before = {} THEN 1 ELSE Max(before) + 1
    IN Feasible(pages, rows, first, end, perPass, most)

\* The runs hold every tile once and in order, each is a pass the device
\* takes and binds exactly the pages its own tiles lie on, and no cut of the
\* tiles in their order takes fewer passes (pages.rs "cut into the runs a
\* kernel's passes take").
RunsAreTheFewest(pages, rows, perPass, most) ==
  LET runs == Runs(pages, rows, perPass, most)
      count == Len(pages)
  IN /\ \A r \in DOMAIN runs :
          /\ runs[r].first = (IF r = 1 THEN 1 ELSE runs[r - 1].last + 1)
          /\ runs[r].first <= runs[r].last
          /\ Feasible(pages, rows, runs[r].first, runs[r].last, perPass, most)
          /\ IsInjective(runs[r].bound)
          /\ ToSet(runs[r].bound)
               = {pages[i] : i \in runs[r].first..runs[r].last} \ {None}
     /\ count > 0 => runs[Len(runs)].last = count
     /\ \A ends \in SUBSET (1..count) :
          count \in ends /\ FeasibleCut(pages, rows, ends, perPass, most)
             => Len(runs) <= Cardinality(ends)

\* A pass cut by the counts the device's own limits give never binds more
\* buffers, of either count, nor dispatches more workgroups, nor holds more
\* bytes than the device takes (pages.rs room, dispatch.rs tiles_a_pass).
PassesFitTheDevice(device, own, perTile, pages) ==
  LET perPass == PagesAPass(device, own, MostPages)
      most == TilesAPass(device, perTile, 0)
  IN perPass # None /\ most # None =>
       LET runs == Runs(pages, [i \in DOMAIN pages |-> None], perPass, most)
       IN /\ own.storage + perPass <= device.storage
          /\ own.storage + own.uniform + perPass <= device.every
          /\ \A r \in DOMAIN runs :
               LET tiles == runs[r].last - runs[r].first + 1
               IN Fits(device, {tiles * perTile}, {<<tiles, 1>>})

\* However a smaller device cuts its passes, the write path answers of each
\* tile whether any of it is unlike the one stored - nothing, where none is;
\* and once exactly the changed ones are put in their places, nothing is
\* changed any more (write/mod.rs changed, put).
WriteSettles(store, put, places, perPass, most) ==
  LET answers == Changed(store, put, places, perPass, most, MostPages)
      stored(at) == IF at = None THEN 0 ELSE store[at.page][at.slot]
      told == SelectSeq([i \in DOMAIN places |-> [index |-> i, at |-> places[i]]],
                        LAMBDA write : write.at # None /\ answers[write.index])
      after == Put(store, put, told)
  IN /\ answers = [i \in DOMAIN places |-> put[i] # stored(places[i])]
     /\ (\A i, j \in DOMAIN places : places[i] = places[j] => i = j \/ places[i] = None) =>
          LET again == Changed(after, put, places, perPass, most, MostPages)
          IN \A i \in DOMAIN places : places[i] # None => ~again[i]

\* A texture read back is its texels row after row, whatever padding the
\* copy's rows have (device.rs "rows top to bottom with no padding").
ReadsUnpadded(texture, align) == ReadTexture(texture, align) = texture.texels

=============================================================================
