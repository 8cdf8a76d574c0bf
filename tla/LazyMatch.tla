------------------------------ MODULE LazyMatch ------------------------------
(***************************************************************************)
(* The lazy parser of the native zstd port (compress: encode/lazy) over    *)
(* its two match finders: rows of hashed positions with a tag each, and a  *)
(* binary tree sorted lazily out of hash chains.                           *)
(*                                                                         *)
(* Positions are indices, a byte's offset plus Start, so that 0 is "empty" *)
(* in every table.  Abstractions: the hash is any function of the bytes it *)
(* reads (HashAt), its low bits the tag; prefetches are left out.  A       *)
(* finder f also says whether every hash it took was its position's own    *)
(* (fresh), which is for the properties.                                   *)
(***************************************************************************)
EXTENDS Entropy

CONSTANTS
    Stride,    \* bytes without a match for each byte more a step takes: 256
    Gap,       \* what is put in whole behind a search: 384 positions
    TagValues  \* 256

Start == 2
NotFound == 999999999
Unsorted == 1
Cache == 8
GapFirst == Gap \div 4
GapLast == Gap \div 12
GapHalf == Gap \div 2
SkippingStep == 8

Position(index) == index - Start
Index(position) == position + Start
ByteAt(src, at) == src[at + 1]
Same4(src, a, b) == \A k \in 0..3 : ByteAt(src, a + k) = ByteAt(src, b + k)

\* How many bytes from at repeat those from from, up to end.
Count(src, at, from, end) ==
    LET differ == {k \in 0..end - at - 1 : ByteAt(src, at + k) # ByteAt(src, from + k)}
    IN IF differ = {} THEN end - at ELSE Min(differ)

\* A hash of the bytes it reads, size values wide.
HashAt(src, at, minMatch, size) ==
    SumOf([k \in 0..minMatch - 1 |-> ByteAt(src, at + k) * (k + 1) * 5], 0..minMatch - 1) % size

-----------------------------------------------------------------------------
(* The finder (Finder::new): tables empty.                                  *)
NewFinder(p) ==
    LET rowLog == Most(4, Least(6, p.searchLog))
    IN [windowLog |-> p.windowLog, searchLog |-> p.searchLog, minMatch |-> Most(4, Least(6, p.minMatch)),
        low |-> Start, next |-> Start, skipping |-> FALSE, tree |-> p.tree, fresh |-> TRUE,
        hash |-> [i \in 0..2^p.hashLog - 1 |-> 0], hashLog |-> p.hashLog,
        rowLog |-> rowLog, tags |-> IF p.tree THEN <<>> ELSE [i \in 0..2^p.hashLog - 1 |-> 0],
        cache |-> [i \in 0..Cache - 1 |-> 0],
        log |-> p.chainLog - 1, nodes |-> IF p.tree THEN [i \in 0..2^p.chainLog - 1 |-> 0] ELSE <<>>]

\* The oldest index a match at current may reach.
Lowest(f, current) == IF current - f.low > 2^f.windowLog THEN current - 2^f.windowLog ELSE f.low
EnterBlock(f, start) ==
    LET low == Most(f.low, Index(start) - 2^f.windowLog) IN [f EXCEPT !.low = low, !.next = Most(@, low)]
\* Past a long match only the last positions before the block go in.
SkipLongMatch(f, start) ==
    IF Index(start) > f.next + Gap
    THEN [f EXCEPT !.next = Index(start) - Least(GapHalf, Index(start) - f.next - Gap)] ELSE f

-----------------------------------------------------------------------------
(* Rows.                                                                    *)
Entries(f) == 2^f.rowLog
RowHash(f, src, index) ==
    HashAt(src, Position(index), f.minMatch, TagValues * 2^(f.hashLog - f.rowLog))
Row(f, hash) == (hash \div TagValues) * Entries(f)
TagOf(hash) == hash % TagValues
\* Slot 0 holds the row's head, which goes round the others backwards.
Head0(f, row) == f.tags[row] % Entries(f)
NextSlot(f, row) == IF Head0(f, row) = 1 THEN Entries(f) - 1 ELSE (Head0(f, row) + Entries(f) - 1) % Entries(f)
Enter(f, hash, index) ==
    LET row == Row(f, hash)  slot == NextSlot(f, row)
    IN [f EXCEPT !.tags = [@ EXCEPT ![row] = slot, ![row + slot] = TagOf(hash)], !.hash[row + slot] = index]

FillCache(f, src, limit) ==
    LET ahead == {i \in f.next..f.next + Cache - 1 : Position(i) <= limit}
    IN IF f.tree THEN f
       ELSE [f EXCEPT !.cache = [c \in 0..Cache - 1 |->
                IF \E i \in ahead : i % Cache = c
                THEN RowHash(f, src, CHOOSE i \in ahead : i % Cache = c) ELSE @[c]]]
\* The next hash out of the cache, the one Cache on computed in its place.
Take(f, src, index) ==
    [f EXCEPT !.cache[index % Cache] = RowHash(f, src, index + Cache),
              !.fresh = @ /\ f.cache[index % Cache] = RowHash(f, src, index)]
Cached(f, index) == f.cache[index % Cache]

RECURSIVE Insert(_, _, _, _)
Insert(f, src, from, to) ==
    IF from >= to THEN f ELSE Insert(Enter(Take(f, src, from), Cached(f, from), from), src, from + 1, to)
\* Mutant: the cache is not filled again behind the gap.
UpdateRowsUnfilled(f, src, target) ==
    LET far == target - f.next > Gap
        ready == IF far THEN [Insert(f, src, f.next, f.next + GapFirst) EXCEPT !.next = target - GapLast] ELSE f
    IN [Insert(ready, src, ready.next, target) EXCEPT !.next = target]
UpdateRows(f, src, target) ==
    LET far == target - f.next > Gap
        skipped == [Insert(f, src, f.next, f.next + GapFirst) EXCEPT !.next = target - GapLast]
        ready == IF far THEN FillCache(skipped, src, Position(target) + 1) ELSE f
    IN [Insert(ready, src, ready.next, target) EXCEPT !.next = target]

\* The slots whose tag agrees, newest first, down to the window.
RECURSIVE Candidates(_, _, _, _, _, _)
Candidates(f, row, offsets, attempts, low, found) ==
    LET slot == (Head0(f, row) + Head(offsets)) % Entries(f)
        candidate == f.hash[row + slot]
    IN IF offsets = <<>> \/ attempts = 0 THEN found
       ELSE IF slot = 0 THEN Candidates(f, row, Tail(offsets), attempts, low, found)
       ELSE IF candidate < low THEN found
       ELSE Candidates(f, row, Tail(offsets), attempts - 1, low, Append(found, candidate))

RECURSIVE LongestOf(_, _, _, _, _)
LongestOf(src, ip, end, candidates, best) ==
    LET from == Position(Head(candidates))
        length == Count(src, ip, from, end)
        better == Same4(src, from + best[1] - 3, ip + best[1] - 3) /\ length > best[1]
        now == IF better THEN <<length, ip - from + 3>> ELSE best
    IN IF candidates = <<>> THEN best
       ELSE IF better /\ ip + length = end THEN now
       ELSE LongestOf(src, ip, end, Tail(candidates), now)

\* What a search answers: the finder, the length and the offset.
SearchRows(f, src, ip, end) ==
    LET current == Index(ip)
        low == Lowest(f, current)
        updated == UpdateRows(f, src, current)
        \* Skipping, only the searched positions go in, uncached.
        g == IF f.skipping THEN [f EXCEPT !.next = current] ELSE Take(updated, src, current)
        hash == IF f.skipping THEN RowHash(f, src, current) ELSE Cached(updated, current)
        row == Row(f, hash)
        agree == SelectSeq([k \in 1..Entries(f) |-> k - 1],
                           LAMBDA k : g.tags[row + ((Head0(g, row) + k) % Entries(f))] = TagOf(hash))
        found == Candidates(g, row, agree, 2^Least(f.searchLog, f.rowLog), low, <<>>)
        best == LongestOf(src, ip, end, found, <<3, NotFound>>)
    IN [f |-> [Enter(g, hash, g.next) EXCEPT !.next = @ + 1], length |-> best[1], off |-> best[2]]

-----------------------------------------------------------------------------
(* The tree: a node's smaller and larger child once sorted; before, the     *)
(* next on its hash chain and the unsorted mark.                            *)
TreeMask(f) == 2^f.log - 1
Pair(f, index) == 2 * (index % 2^f.log)
Nowhere == -1
Set(nodes, slot, value) == IF slot = Nowhere THEN nodes ELSE [nodes EXCEPT ![slot] = value]
TreeHash(f, src, at) == HashAt(src, at, f.minMatch, 2^f.hashLog)

RECURSIVE UpdateTree(_, _, _)
UpdateTree(f, src, target) ==
    LET hash == TreeHash(f, src, Position(f.next))
        pair == Pair(f, f.next)
    IN IF f.next >= target THEN [f EXCEPT !.next = target]
       ELSE UpdateTree([f EXCEPT !.hash[hash] = f.next, !.next = @ + 1,
                                 !.nodes = [@ EXCEPT ![pair] = f.hash[hash], ![pair + 1] = Unsorted]], src, target)

\* One step down the tree for ip, hung on its smaller or larger side; past
\* the tree's reach the last side written to is nowhere.
Descend(f, src, ip, w, length, treeLow) ==
    LET from == Position(w.candidate)
        next == Pair(f, w.candidate)
        below == ByteAt(src, from + length) < ByteAt(src, ip + length)
        side == IF below THEN w.smaller ELSE w.larger
        on == IF below THEN next + 1 ELSE next
        nodes == Set(w.nodes, side, w.candidate)
        last == w.candidate <= treeLow
    IN [w EXCEPT !.nodes = nodes,
                 !.smaller = IF below THEN (IF last THEN Nowhere ELSE on) ELSE @,
                 !.larger = IF below THEN @ ELSE IF last THEN Nowhere ELSE on,
                 !.commonSmaller = IF below THEN length ELSE @,
                 !.commonLarger = IF below THEN @ ELSE length,
                 !.candidate = IF last THEN 0 ELSE nodes[on],
                 !.compares = IF last THEN 0 ELSE @ - 1]
Ended(w) == [w EXCEPT !.nodes = Set(Set(@, w.smaller, 0), w.larger, 0)]
Length(src, ip, end, w) ==
    LET common == Least(w.commonSmaller, w.commonLarger)
    IN common + Count(src, ip + common, Position(w.candidate) + common, end)
WalkFrom(f, nodes, current, candidate, compares) ==
    [nodes |-> nodes, candidate |-> candidate, compares |-> compares,
     smaller |-> Pair(f, current), larger |-> Pair(f, current) + 1, commonSmaller |-> 0, commonLarger |-> 0,
     best |-> 0, off |-> NotFound, matchEnd |-> current + 9]

\* Sorting an unsorted index in (insert).
RECURSIVE Sink(_, _, _, _, _, _)
Sink(f, src, current, end, w, treeLow) ==
    LET length == Length(src, Position(current), end, w)
    IN IF w.compares = 0 \/ w.candidate <= Lowest(f, current) THEN Ended(w)
       ELSE IF Position(current) + length = end THEN Ended(w)  \* no way to know which side it is on
       ELSE Sink(f, src, current, end, Descend(f, src, Position(current), w, length, treeLow), treeLow)

\* Down to the end of the unsorted run, reversing it...
RECURSIVE Unsort(_, _, _, _, _, _)
Unsort(f, nodes, candidate, previous, left, limit) ==
    LET pair == Pair(f, candidate)
        unsorted == candidate > limit /\ nodes[pair + 1] = Unsorted
    IN IF unsorted /\ left > 1
       THEN Unsort(f, [nodes EXCEPT ![pair + 1] = previous], nodes[pair], candidate, left - 1, limit)
       ELSE [nodes |-> IF unsorted THEN [nodes EXCEPT ![pair] = 0, ![pair + 1] = 0] ELSE nodes,
             previous |-> previous, left |-> left]
\* ...and back up it, sorting each in.
RECURSIVE SortRun(_, _, _, _, _, _, _)
SortRun(f, src, end, nodes, candidate, left, limit) ==
    LET next == nodes[Pair(f, candidate) + 1]
        w == Sink(f, src, candidate, end,
                  WalkFrom(f, nodes, candidate, nodes[Pair(f, candidate)], left), limit)
    IN IF candidate = 0 THEN nodes ELSE SortRun(f, src, end, w.nodes, next, left + 1, limit)

\* Walking the sorted tree for ip, which takes its place in it.
Better(w, length, current) ==
    4 * (length - w.best) > Highbit(current - w.candidate + 1) - Highbit(w.off)
RECURSIVE WalkTree(_, _, _, _, _, _)
WalkTree(f, src, ip, end, w, treeLow) ==
    LET current == Index(ip)
        length == Length(src, ip, end, w)
        longer == length > w.best
        taken == IF longer
                 THEN [w EXCEPT !.matchEnd = IF length > @ - w.candidate THEN w.candidate + length ELSE @,
                                !.best = IF Better(w, length, current) THEN length ELSE @,
                                !.off = IF Better(w, length, current) THEN current - w.candidate + 3 ELSE @]
                 ELSE w
    IN IF w.compares = 0 \/ w.candidate <= Lowest(f, current) THEN Ended(w)
       ELSE IF longer /\ ip + length = end THEN Ended(taken)
       ELSE WalkTree(f, src, ip, end, Descend(f, src, ip, taken, length, treeLow), treeLow)

SearchTree(f, src, ip, end) ==
    LET current == Index(ip)
        g == UpdateTree(f, src, current)
        hash == TreeHash(f, src, ip)
        treeLow == Most(0, current - TreeMask(f))
        limit == Most(treeLow, Lowest(f, current))
        run == Unsort(g, g.nodes, g.hash[hash], 0, 2^f.searchLog, limit)
        sorted == SortRun(g, src, end, run.nodes, run.previous, run.left, limit)
        w == WalkTree(g, src, ip, end, WalkFrom(g, sorted, current, g.hash[hash], 2^f.searchLog), treeLow)
    IN IF current < f.next THEN [f |-> f, length |-> 0, off |-> NotFound]
       ELSE [f |-> [g EXCEPT !.nodes = w.nodes, !.hash[hash] = current, !.next = w.matchEnd - 8],
             length |-> w.best, off |-> w.off]

Search(f, src, ip, end) == IF f.tree THEN SearchTree(f, src, ip, end) ELSE SearchRows(f, src, ip, end)

-----------------------------------------------------------------------------
(* The parse at depth 2.  A match m is its length, offset base and start;   *)
(* a parse s is where it stands, its two repeat offsets and what it stored. *)

RepeatAt(src, at, offset, end) ==
    IF offset > 0 /\ Same4(src, at, at - offset) THEN Count(src, at + 4, at + 4 - offset, end) + 4 ELSE 0
Worth(m, per) == m.length * per - Highbit(m.off)
At(length, off, start) == [length |-> length, off |-> off, start |-> start]

\* A better match one byte on, and then one more?
Try(f, src, ip, end, m, o1, bar) ==
    LET rep == RepeatAt(src, ip, o1, end)
        m1 == IF rep >= 4 /\ rep * bar.per > Worth(m, bar.per) + 1 THEN At(rep, 1, ip) ELSE m
        s == Search(f, src, ip, end)
        found == s.length >= 4 /\ s.length * 4 - Highbit(s.off) > Worth(m1, 4) + bar.more
    IN [f |-> s.f, found |-> found, m |-> IF found THEN At(s.length, s.off, ip) ELSE m1]
RECURSIVE Deeper(_, _, _, _, _, _, _)
Deeper(f, src, ip, end, limit, m, o1) ==
    LET one == Try(f, src, ip + 1, end, m, o1, [per |-> 3, more |-> 4])
        two == Try(one.f, src, ip + 2, end, one.m, o1, [per |-> 4, more |-> 7])
    IN IF ip >= limit THEN [f |-> f, m |-> m]
       ELSE IF one.found THEN Deeper(one.f, src, ip + 1, end, limit, one.m, o1)
       ELSE IF ip + 1 >= limit THEN [f |-> one.f, m |-> one.m]
       ELSE IF two.found THEN Deeper(two.f, src, ip + 2, end, limit, two.m, o1)
       ELSE [f |-> two.f, m |-> two.m]

\* A match caught up backwards over the bytes it also covers.
RECURSIVE CatchUp(_, _, _, _)
CatchUp(src, m, anchor, prefix) ==
    LET offset == m.off - 3
    IN IF m.start > anchor /\ m.start - offset > prefix
          /\ ByteAt(src, m.start - 1) = ByteAt(src, m.start - offset - 1)
       THEN CatchUp(src, [m EXCEPT !.start = @ - 1, !.length = @ + 1], anchor, prefix)
       ELSE m
Stored(s, src, m) ==
    [s EXCEPT !.literals = @ \o SubSeq(src, s.anchor + 1, m.start),
              !.sequences = Append(@, [lit |-> m.start - s.anchor, off |-> m.off, ml |-> m.length - 3]),
              !.ip = m.start + m.length, !.anchor = m.start + m.length]

\* The second repeat offset, straight after a match.
RECURSIVE Again(_, _, _, _)
Again(s, src, end, limit) ==
    LET rep == RepeatAt(src, s.ip, s.o2, end)
    IN IF s.ip > limit \/ rep = 0 THEN s
       ELSE Again([Stored(s, src, At(rep, 1, s.ip)) EXCEPT !.o1 = s.o2, !.o2 = s.o1], src, end, limit)

RECURSIVE ParseFrom(_, _, _, _, _)
ParseFrom(s, src, end, limit, prefix) ==
    LET rep == RepeatAt(src, s.ip + 1, s.o1, end)
        here == Search(s.f, src, s.ip, end)
        m0 == IF here.length > rep THEN At(here.length, here.off, s.ip) ELSE At(rep, 1, s.ip + 1)
        step == (s.ip - s.anchor) \div Stride + 1
        deep == Deeper(here.f, src, s.ip, end, limit, m0, s.o1)
        m == IF deep.m.off > 3 THEN CatchUp(src, deep.m, s.anchor, prefix) ELSE deep.m
        put == [Stored(s, src, m) EXCEPT !.o2 = IF m.off > 3 THEN s.o1 ELSE @,
                                         !.o1 = IF m.off > 3 THEN m.off - 3 ELSE @,
                                         !.f = deep.f]
        filled == IF deep.f.skipping
                  THEN [put EXCEPT !.f = [FillCache(deep.f, src, limit) EXCEPT !.skipping = FALSE]] ELSE put
    IN IF s.ip >= limit THEN s
       ELSE IF m0.length < 4
       THEN ParseFrom([s EXCEPT !.ip = @ + step, !.f = [here.f EXCEPT !.skipping = step > SkippingStep]],
                      src, end, limit, prefix)
       ELSE ParseFrom(Again(filled, src, end, limit), src, end, limit, prefix)

\* A block: its sequences and literals, the offsets carried on, the finder.
Parse(f, src, start, end, reps) ==
    LET limit == end - 8 - (IF f.tree THEN 0 ELSE Cache)
        prefix == Position(f.low)
        ip == start + (IF start = prefix THEN 1 ELSE 0)
        reach == Index(ip) - Lowest(f, Index(ip))
        kept(o) == IF o > reach THEN 0 ELSE o
        saved(o) == IF o > reach THEN o ELSE 0
        s == ParseFrom([f |-> FillCache([f EXCEPT !.skipping = FALSE], src, limit), ip |-> ip, anchor |-> start,
                        o1 |-> kept(reps[1]), o2 |-> kept(reps[2]), sequences |-> <<>>, literals |-> <<>>],
                       src, end, limit, prefix)
        saved2 == IF saved(reps[1]) # 0 /\ s.o1 # 0 THEN saved(reps[1]) ELSE saved(reps[2])
    IN [f |-> s.f, sequences |-> s.sequences, literals |-> s.literals \o SubSeq(src, s.anchor + 1, end),
        reps |-> <<IF s.o1 # 0 THEN s.o1 ELSE saved(reps[1]), IF s.o2 # 0 THEN s.o2 ELSE saved2>>]
=============================================================================
