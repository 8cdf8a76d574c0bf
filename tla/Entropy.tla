------------------------------ MODULE Entropy ------------------------------
(***************************************************************************)
(* Entropy coding of the native zstd port.  Finite State Entropy (compress:*)
(* bits, fse, encode/stream, encode/fse): the bit streams, the description *)
(* of a table, its spread, and the two states that code bytes with it.     *)
(* Then Huffman-coded literals (huffman, encode/huffman): the tree built   *)
(* from a histogram and capped in depth, its description, the one- and     *)
(* two-symbol decoding tables, and the one or four streams, the four by    *)
(* the plain loop or the fast one.                                         *)
(*                                                                         *)
(* A byte string is a sequence of 0..255, a count -1 a "less than one"     *)
(* symbol, Corrupt a refusal.  A histogram is a function on 0..max.        *)
(* Abstraction: a decoding table is the function from a register's top     *)
(* bits to its cell, not the filled array; a tree is sorted with ties in   *)
(* place, as the code's sort does for fewer than nine counts over 165.     *)
(***************************************************************************)
EXTENDS Integers, Sequences, SequencesExt, FiniteSetsExt

CONSTANT Corrupt  \* a refusal
Least(a, b) == IF a < b THEN a ELSE b
Most(a, b) == IF a > b THEN a ELSE b
CeilDiv(a, b) == (a + b - 1) \div b
Abs(n) == IF n < 0 THEN -n ELSE n
\* v itself, worked out here and not anew at each use.
Once(v) == CHOOSE x \in {v} : x = x

\* bits.rs: the index of the highest set bit.
Highbit(v) == CHOOSE b \in 0..29 : 2^b <= v /\ v < 2^(b + 1)
BitsOf(v, n) == [k \in 1..n |-> (v \div 2^(k - 1)) % 2]
RECURSIVE ValueOf(_)
ValueOf(bits) == IF bits = <<>> THEN 0 ELSE Head(bits) + 2 * ValueOf(Tail(bits))
\* What bits laid lowest first come to in bytes, and a byte string's bit.
BytesOf(bits) ==
    Once([b \in 1..CeilDiv(Len(bits), 8) |-> ValueOf(SubSeq(bits, 8 * b - 7, Least(8 * b, Len(bits))))])
BitAt(src, i) == IF i < 0 \/ i >= 8 * Len(src) THEN 0 ELSE (src[i \div 8 + 1] \div 2^(i % 8)) % 2
FieldAt(src, i, n) == ValueOf([k \in 1..n |-> BitAt(src, i + k - 1)])

-----------------------------------------------------------------------------
(* The encoder's stream: bits laid forward, a 1 above the last; it does not *)
(* fit once its whole bytes come within a register of the room.             *)
Register == 8
CloseStream(bits, room) ==
    LET marked == Append(bits, 1)
    IN IF room <= Register \/ Len(marked) \div 8 >= room - Register THEN <<>> ELSE BytesOf(marked)

(* The decoder's: read from the end, a register at a time.  ptr is the byte *)
(* the register was loaded from, consumed its bits gone, overreads included.*)
NewBits(src) ==
    IF src = <<>> \/ Last(src) = 0 THEN Corrupt
    ELSE [buf |-> src, ptr |-> Most(0, Len(src) - Register),
          consumed |-> 8 - Highbit(Last(src)) + 8 * Most(0, Register - Len(src))]
\* look: the shift wraps in the register, so an overread reads it again.
Look(b, n) ==
    LET start == (64 - b.consumed - n) % 64
    IN ValueOf([k \in 1..n |-> IF start + k > 64 THEN 0 ELSE BitAt(b.buf, 8 * b.ptr + start + k - 1)])
LookFast(b, n) ==
    LET low == 64 - n - (b.consumed % 64)
    IN ValueOf([k \in 1..n |-> IF low + k - 1 < 0 THEN 0 ELSE BitAt(b.buf, 8 * b.ptr + low + k - 1)])
Skip(b, n) == [b EXCEPT !.consumed = @ + n]

Back(b, bytes) == [b EXCEPT !.ptr = @ - bytes, !.consumed = @ - 8 * bytes]
Reload(b) ==
    IF b.consumed > 64 THEN <<b, "overflow">>
    ELSE IF b.ptr >= Register THEN <<Back(b, b.consumed \div 8), "unfinished">>
    ELSE IF b.ptr = 0 THEN <<b, IF b.consumed < 64 THEN "end of buffer" ELSE "completed">>
    ELSE LET whole == b.consumed \div 8
         IN <<Back(b, Least(whole, b.ptr)), IF whole > b.ptr THEN "end of buffer" ELSE "unfinished">>
Reloaded(b) == Reload(b)[1]
ReloadFast(b) ==
    IF b.ptr < Register THEN <<b, "overflow">> ELSE <<Back(b, b.consumed \div 8), "unfinished">>
AtEnd(b) == b.ptr = 0 /\ b.consumed = 64

-----------------------------------------------------------------------------
(* Describing a table: encode/fse.rs describe and fse.rs read_counts.       *)
MinTableLog == 5
MaxTableLog == 12

\* Mutant: the run leaves out a zero.
ZeroRunShort(n) == [k \in 1..(2 * (Most(n - 1, 0) \div 3)) |-> 1] \o BitsOf(Most(n - 1, 0) % 3, 2)
\* The repeat codes for a run of zeros: three to a 0b11, the rest in two bits.
ZeroRun(n) == [k \in 1..(2 * (n \div 3)) |-> 1] \o BitsOf(n % 3, 2)

RECURSIVE DescribeFrom(_, _, _, _, _)
DescribeFrom(norm, s, remaining, afterZero, bits) ==
    LET alphabet == {i \in DOMAIN norm : i >= s}
        live == {i \in alphabet : norm[i] # 0}
        here == IF afterZero /\ live # {} THEN Min(live) ELSE s
        laid == IF afterZero THEN bits \o ZeroRun(here - s) ELSE bits
        threshold == 2^Highbit(remaining)
        most == 2 * threshold - 1 - remaining
        count == norm[here] + 1
        put == IF count >= threshold THEN count + most ELSE count
        width == Highbit(remaining) + 1 - (IF put < most THEN 1 ELSE 0)
    IN IF alphabet = {} \/ remaining <= 1 \/ (afterZero /\ live = {}) THEN bits
       ELSE DescribeFrom(norm, here + 1, remaining - Abs(norm[here]), norm[here] = 0,
                         laid \o BitsOf(put, width))
Describe(norm, log) ==
    BytesOf(DescribeFrom(norm, 0, 2^log + 1, FALSE, BitsOf(log - MinTableLog, 4)))

\* How many 0b11 pairs stand from bit i on.
Pairs(src, i) == CHOOSE n \in 0..400 :
    /\ \A k \in 0..n - 1 : FieldAt(src, i + 2 * k, 2) = 3
    /\ FieldAt(src, i + 2 * n, 2) # 3

RECURSIVE ReadFrom(_, _, _, _, _, _, _)
ReadFrom(src, symbols, counts, s, remaining, afterZero, i) ==
    LET pairs == Pairs(src, i)
        here == IF afterZero THEN s + 3 * pairs + FieldAt(src, i + 2 * pairs, 2) ELSE s
        at == IF afterZero THEN i + 2 * pairs + 2 ELSE i
        threshold == 2^Highbit(remaining)
        most == 2 * threshold - 1 - remaining
        short == FieldAt(src, at, Highbit(remaining))
        long == FieldAt(src, at, Highbit(remaining) + 1)
        count == (IF short < most THEN short ELSE IF long >= threshold THEN long - most ELSE long) - 1
        width == Highbit(remaining) + (IF short < most THEN 0 ELSE 1)
        left == remaining - Abs(count)
        read == [counts EXCEPT ![here] = count]
    IN IF here >= symbols
       THEN [counts |-> counts, symbol |-> here, remaining |-> remaining, at |-> at]
       ELSE IF left <= 1 \/ here + 1 >= symbols
       THEN [counts |-> read, symbol |-> here + 1, remaining |-> left, at |-> at + width]
       ELSE ReadFrom(src, symbols, read, here + 1, left, count = 0, at + width)

\* The counts, their log and the bytes they took; a short header is read padded.
ReadCounts(src, maxSymbol) ==
    LET log == FieldAt(src, 0, 4) + MinTableLog
        read == ReadFrom(src, maxSymbol + 1, [s \in 0..maxSymbol |-> 0], 0, 2^log + 1, FALSE, 4)
        size == CeilDiv(read.at, 8)
    IN IF log > 15 \/ read.remaining # 1 \/ read.symbol > maxSymbol + 1 \/ size > Len(src) THEN Corrupt
       ELSE [counts |-> [s \in 0..read.symbol - 1 |-> read.counts[s]], log |-> log, size |-> size]

-----------------------------------------------------------------------------
(* The spread: both halves lay a table's cells the same way.                *)
Share(counts, s) == Abs(counts[s])
TableStep(size) == size \div 2 + size \div 8 + 3

\* Symbols too rare for a state take the last cells, one each; the others
\* walk the rest in steps.
RareOf(counts) == SelectSeq([s \in 1..Cardinality(DOMAIN counts) |-> s - 1], LAMBDA s : counts[s] = -1)
Laid(counts) ==
    FlattenSeq([s \in 1..Cardinality(DOMAIN counts) |-> [k \in 1..Most(counts[s - 1], 0) |-> s - 1]])
\* Whether the walk is back at the start: what the code asks of the counts.
Fills(counts, log) ==
    LET high == 2^log - 1 - Len(RareOf(counts))
    IN high < 0 \/ Len(Laid(counts)) % (high + 1) = 0

\* Each cell's symbol.  back undoes a step of the walk, which passes over the
\* last cells.
SymbolsOf(counts, log) ==
    LET size == 2^log
        rare == RareOf(counts)
        high == size - 1 - Len(rare)
        laid == Laid(counts)
        back == CHOOSE i \in 1..size : (i * TableStep(size)) % size = 1
        turn(at) == (at * back) % size
        passed(at) == Cardinality({h \in high + 1..size - 1 : turn(h) < turn(at)})
    IN Once([i \in 1..high + 1 |-> laid[1 + turn(i - 1) - passed(i - 1)]] \o Reverse(rare))
\* And its symbol's running count.
Spread(counts, log) ==
    LET symbols == SymbolsOf(counts, log)
    IN Once([at \in 0..2^log - 1 |->
          [symbol |-> symbols[at + 1],
           state |-> Share(counts, symbols[at + 1]) + Cardinality({e \in 1..at : symbols[e] = symbols[at + 1]})]])

(* The decoding table (build): each cell's bits and next state.             *)
Build(counts, log) ==
    IF ~Fills(counts, log) THEN Corrupt
    ELSE LET cells == Spread(counts, log)
         IN [log |-> log,
             fast |-> \A s \in DOMAIN counts : counts[s] < 2^(log - 1),
             cells |-> [at \in 0..2^log - 1 |->
                 LET n == log - Highbit(cells[at].state)
                 IN [symbol |-> cells[at].symbol, bits |-> n, next |-> cells[at].state * 2^n - 2^log]]]

(* The encoding table (Table::build): the states of a symbol in the order   *)
(* of its cells, and the two numbers that find one.                         *)
EncodeTable(norm, log) ==
    LET symbols == SymbolsOf(norm, log)
        before(s) == FoldFunctionOnSet(LAMBDA a, b : a + b, 0, [t \in DOMAIN norm |-> Share(norm, t)],
                                       {t \in DOMAIN norm : t < s})
        bits(s) == IF norm[s] = 0 THEN (log + 1) * 65536 - 2^log
                   ELSE IF Share(norm, s) = 1 THEN log * 65536 - 2^log
                   ELSE LET out == log - Highbit(norm[s] - 1) IN out * 65536 - norm[s] * 2^out
        own(s) == SelectSeq([at \in 1..2^log |-> 2^log + at - 1], LAMBDA v : symbols[v - 2^log + 1] = s)
        states == Once(FlattenSeq([s \in 1..Cardinality(DOMAIN norm) |-> own(s - 1)]))
    IN Once([log |-> log, max |-> Max(DOMAIN norm),
        states |-> [i \in 0..2^log - 1 |-> states[i + 1]],
        bits |-> [s \in DOMAIN norm |-> bits(s)],
        find |-> [s \in DOMAIN norm |-> before(s) - Share(norm, s)]])

\* The first symbol coded takes its smallest state, and no bits.
FirstState(t, s) ==
    LET out == (t.bits[s] + 32768) \div 65536
    IN t.states[(out * 65536 - t.bits[s]) \div 2^out + t.find[s]]
\* The bits a state gives up for a symbol, and where it goes.
OutBits(t, value, s) == (value + t.bits[s]) \div 65536
NextState(t, value, s) == t.states[value \div 2^OutBits(t, value, s) + t.find[s]]
Encoded(t, value, s) == BitsOf(value, OutBits(t, value, s))

\* Two states take turns, from the last symbol back; each one's first symbol
\* costs no bits, and the states are written out last.
RECURSIVE CodeFrom(_, _, _, _, _)
CodeFrom(t, src, i, values, bits) ==
    LET which == IF i % 2 = 1 THEN 1 ELSE 2
    IN IF i = 0 THEN bits \o BitsOf(values[2], t.log) \o BitsOf(values[1], t.log)
       ELSE IF i > Len(src) - 2
       THEN CodeFrom(t, src, i - 1, [values EXCEPT ![which] = FirstState(t, src[i])], bits)
       ELSE CodeFrom(t, src, i - 1, [values EXCEPT ![which] = NextState(t, @, src[i])],
                     bits \o Encoded(t, values[which], src[i]))
Code(src, t, room) ==
    IF Len(src) <= 2 THEN <<>> ELSE CloseStream(CodeFrom(t, src, Len(src), <<0, 0>>, <<>>), room)

(* Decoding: four symbols a reload while the stream lasts, then one at a    *)
(* time until it overflows: the other state then holds the last.            *)
StateSymbol(t, b, at) ==
    [byte |-> t.cells[at].symbol,
     at |-> t.cells[at].next + (IF t.fast THEN LookFast(b, t.cells[at].bits) ELSE Look(b, t.cells[at].bits)),
     bits |-> Skip(b, t.cells[at].bits)]

RECURSIVE DecodeFrom(_, _, _, _, _, _)
DecodeFrom(t, b, one, two, out, room) ==
    LET read == StateSymbol(t, b, one)
        loaded == Reload(read.bits)
    IN IF Len(out) > room - 2 THEN Corrupt
       ELSE IF loaded[2] = "overflow" THEN out \o <<read.byte, t.cells[two].symbol>>
       ELSE DecodeFrom(t, loaded[1], two, read.at, Append(out, read.byte), room)

RECURSIVE DecodeByFours(_, _, _, _, _, _)
DecodeByFours(t, b, one, two, out, room) ==
    LET loaded == Reload(b)
        r1 == StateSymbol(t, loaded[1], one)
        r2 == StateSymbol(t, r1.bits, two)
        r3 == StateSymbol(t, r2.bits, r1.at)
        r4 == StateSymbol(t, r3.bits, r2.at)
    IN IF loaded[2] = "unfinished" /\ Len(out) < room - 3
       THEN DecodeByFours(t, r4.bits, r3.at, r4.at, out \o <<r1.byte, r2.byte, r3.byte, r4.byte>>, room)
       ELSE DecodeFrom(t, loaded[1], one, two, out, room)

Decode(src, t, room) ==
    LET b == NewBits(src)
        b1 == Reloaded(Skip(b, t.log))
        b2 == Reloaded(Skip(b1, t.log))
    IN IF b = Corrupt THEN Corrupt
       ELSE DecodeByFours(t, b2, Look(b, t.log), Look(b1, t.log), <<>>, room)

(* Huffman's weights, read with a table of at most 6.                       *)
DecodeWeights(src, room) ==
    LET read == ReadCounts(src, 255)
        table == Build(read.counts, read.log)
    IN IF read = Corrupt THEN Corrupt
       ELSE IF read.log > 6 THEN Corrupt
       ELSE IF table = Corrupt THEN Corrupt
       ELSE Decode(SubSeq(src, read.size + 1, Len(src)), table, room)

-----------------------------------------------------------------------------
(* Normalizing a histogram to 2^log states: optimal_table_log, normalize,   *)
(* normalize_slowly.                                                        *)
MinLog(total, max) == Least(Highbit(total) + 1, Highbit(max) + 2)
OptimalLog(maxLog, total, max, minus) ==
    LET fromTotal == Highbit(total - 1) - minus  \* under 0 it wraps past every bound
        log == Most(MinLog(total, max), IF fromTotal < 0 THEN maxLog ELSE Least(maxLog, fromTotal))
    IN Most(MinTableLog, Least(MaxTableLog, log))

SumOf(f, S) == FoldFunctionOnSet(LAMBDA a, b : a + b, 0, f, S)
RestToBeat == <<0, 473195, 504333, 520860, 550000, 700000, 750000, 830000>>

\* A count's share of the states, as the 62-bit reciprocal gives it: the
\* product falls a hair short of a whole state unless the total is 2^k.
Scaled(count, total, log) ==
    LET whole == (count * 2^log) \div total
        rest == (count * 2^log) % total
        exact == \E k \in 0..20 : 2^k = total
        short == rest = 0 /\ ~exact
        down == IF short THEN whole - 1 ELSE whole
        up == down < 8 /\ (short \/ (rest * 2^20) > (RestToBeat[down + 1] * total))
    IN IF up THEN down + 1 ELSE down

\* The second method, when rounding took over half of the largest share.
NormalizeSlowly(count, total, log, low) ==
    LET S == DOMAIN count
        threshold == total \div 2^log
        one == (total * 3) \div 2^(log + 1)
        rare == {s \in S : count[s] > 0 /\ count[s] <= threshold}
        poor == {s \in S : count[s] > threshold /\ count[s] <= one}
        left1 == total - SumOf(count, rare \cup poor)
        give1 == 2^log - Cardinality(rare \cup poor)
        lowered == give1 > 0 /\ left1 \div give1 > one
        bar == (left1 * 3) \div (give1 * 2)
        poorer == IF lowered THEN {s \in S \ (rare \cup poor) : count[s] > 0 /\ count[s] <= bar} ELSE {}
        set == rare \cup poor \cup poorer
        rich == {s \in S : count[s] > 0} \ set
        left == total - SumOf(count, set)
        give == 2^log - Cardinality(set)
        base == [s \in S |-> IF count[s] = 0 THEN 0 ELSE IF s \in rare THEN low ELSE 1]
        most == Min({s \in S : \A o \in S : count[o] <= count[s]})
        \* The round goes to the symbols holding a state, lowest first.
        holding == {s \in S : base[s] > 0}
        turns(s) == LET k == Cardinality({h \in holding : h < s})
                        n == Cardinality(holding)
                    IN (give \div n) + (IF k < give % n THEN 1 ELSE 0)
        \* Where a share ends, rounded as the running total is.
        ends(c) == (left + c * (2 * give + 1) - 1) \div (2 * left)
        before(s) == SumOf(count, {r \in rich : r < s})
        weight(s) == ends(before(s) + count[s]) - ends(before(s))
    IN IF give1 = 0 THEN base
       ELSE IF Cardinality(set) = Cardinality(S) THEN [base EXCEPT ![most] = @ + give]
       ELSE IF left = 0
       THEN [s \in S |-> IF s \in holding THEN base[s] + turns(s) ELSE base[s]]
       ELSE IF \E s \in rich : weight(s) < 1 THEN Corrupt
       ELSE [s \in S |-> IF s \in rich THEN weight(s) ELSE base[s]]

Normalize(count, total, log, lowProbability) ==
    LET S == DOMAIN count
        low == IF lowProbability THEN -1 ELSE 1
        threshold == total \div 2^log
        norm == [s \in S |-> IF count[s] = 0 THEN 0 ELSE IF count[s] <= threshold THEN low
                             ELSE Scaled(count[s], total, log)]
        left == 2^log - SumOf([s \in S |-> Abs(norm[s])], S)
        scaled == {s \in S : count[s] > threshold}
        largest == IF scaled = {} THEN 0
                   ELSE Min({s \in scaled : \A o \in scaled : norm[o] <= norm[s]})
    IN IF log < MinTableLog \/ log > MaxTableLog \/ log < MinLog(total, Max(S)) THEN Corrupt
       ELSE IF -left >= norm[largest] \div 2 THEN NormalizeSlowly(count, total, log, low)
       ELSE [norm EXCEPT ![largest] = @ + left]

-----------------------------------------------------------------------------
TableLogMax == 12
FastTableLog == 11
LiteralsLog == 11
WeightsLog == 6

-----------------------------------------------------------------------------
(* The tree (encode/huffman.rs): sort, build_tree, set_max_height, build.   *)

Sorted(count) ==
    LET S == {s \in DOMAIN count : count[s] > 0}
        ahead(s) == {o \in S : count[o] > count[s] \/ (count[o] = count[s] /\ o < s)}
    IN [i \in 1..Cardinality(S) |-> CHOOSE s \in S : Cardinality(ahead(s)) = i - 1]

\* Leaves come first in weights, parents behind them in the order they are
\* made; the lightest of each are the leaf and the inner node to take next.
Lightest(weights, leaf, inner) ==
    IF leaf > 0 /\ (inner > Len(weights) \/ weights[leaf] < weights[inner]) THEN leaf ELSE inner
RECURSIVE Join(_, _, _, _)
Join(weights, leaf, inner, parentOf) ==
    LET one == Lightest(weights, leaf, inner)
        leaf1 == IF one = leaf THEN leaf - 1 ELSE leaf
        inner1 == IF one = leaf THEN inner ELSE inner + 1
        two == Lightest(weights, leaf1, inner1)
        made == Len(weights) + 1
    IN IF made > Len(parentOf) THEN parentOf
       ELSE Join(Append(weights, weights[one] + weights[two]),
                 IF two = leaf1 THEN leaf1 - 1 ELSE leaf1,
                 IF two = leaf1 THEN inner1 ELSE inner1 + 1,
                 [parentOf EXCEPT ![one] = made, ![two] = made])
\* Each leaf's depth under the unlimited tree.
BuildTree(weights) ==
    LET n == Len(weights)
        parentOf == Join(weights, n, n + 1, [i \in 1..2 * n - 1 |-> 0])
        depth[i \in 1..2 * n - 1] == IF i = 2 * n - 1 THEN 0 ELSE depth[parentOf[i]] + 1
    IN [i \in 1..n |-> depth[i]]

\* The depth to spend: the largest that does not cost more than it saves.
RECURSIVE Down(_, _, _)
Down(d, rank, weights) ==
    IF d <= 1 THEN d
    ELSE IF rank[d] # 0 /\ (rank[d - 1] = 0 \/ weights[rank[d]] <= 2 * weights[rank[d - 1]]) THEN d
    ELSE Down(d - 1, rank, weights)
RECURSIVE Up(_, _)
Up(d, rank) == IF d <= TableLogMax /\ rank[d] = 0 THEN Up(d + 1, rank) ELSE d

\* Codes cut short owe the tree room: shallower ones are deepened...
RECURSIVE Deepen(_, _, _, _, _)
Deepen(cost, bits, rank, weights, target) ==
    LET d == Up(Down(Highbit(cost) + 1, rank, weights), rank)
        moved == rank[d]
        rank1 == IF rank[d - 1] = 0 THEN [rank EXCEPT ![d - 1] = moved] ELSE rank
        next == IF moved > 1 /\ bits[moved - 1] = target - d THEN moved - 1 ELSE 0
    IN IF cost <= 0 THEN [cost |-> cost, bits |-> bits, rank |-> rank]
       ELSE Deepen(cost - 2^(d - 1), [bits EXCEPT ![moved] = @ + 1], [rank1 EXCEPT ![d] = next],
                   weights, target)
\* Mutant: what raising the rarer symbols overpaid is kept.
GivesNothingBack(cost, bits, first, n, target) == bits
\* ...and what that overshot is given back.
RECURSIVE GiveBack(_, _, _, _, _)
GiveBack(cost, bits, first, n, target) ==
    LET m == Max({0} \cup {i \in 1..n : bits[i] # target})
        at == IF first = 0 THEN m + 1 ELSE first + 1
    IN IF cost >= 0 THEN bits
       ELSE GiveBack(cost + 1, [bits EXCEPT ![at] = @ - 1], at, IF first = 0 THEN m ELSE n, target)

SetMaxHeight(bits, weights, target) ==
    LET last == Len(bits)
        largest == bits[last]
        over == {i \in 1..last : bits[i] > target}
        owed == SumOf([i \in 1..last |-> 2^(largest - target) - 2^(largest - bits[i])], over)
        cut == [i \in 1..last |-> Least(bits[i], target)]
        n == Max({0} \cup {i \in 1..last : bits[i] < target})
        rank == [d \in 0..TableLogMax + 1 |->
                    IF d = 0 THEN 0 ELSE Max({0} \cup {i \in 1..n : bits[i] = target - d})]
        deep == Deepen(owed \div 2^(largest - target), cut, rank, weights, target)
    IN IF largest <= target THEN bits ELSE GiveBack(deep.cost, deep.bits, deep.rank[1], n, target)

\* A tree: each symbol's bits (0 uncoded) and its canonical value.
BuildTable(count, maxBits) ==
    LET sorted == Sorted(count)
        weights == Once([i \in 1..Len(sorted) |-> count[sorted[i]]])
        depths == SetMaxHeight(BuildTree(weights), weights, maxBits)
        tree == BuildTree(weights)
        log == Least(tree[Len(tree)], maxBits)
        bits == Once([s \in DOMAIN count |->
                         IF count[s] = 0 THEN 0 ELSE depths[CHOOSE i \in DOMAIN sorted : sorted[i] = s]])
        having(b) == {s \in DOMAIN count : bits[s] = b}
        first[b \in 1..log] == IF b = log THEN 0 ELSE (first[b + 1] + Cardinality(having(b + 1))) \div 2
        value == Once([s \in DOMAIN count |->
                          IF bits[s] = 0 THEN 0 ELSE first[bits[s]] + Cardinality({t \in having(bits[s]) : t < s})])
    IN [log |-> log, max |-> Max(DOMAIN count), bits |-> bits, value |-> value]

-----------------------------------------------------------------------------
(* A tree's description: every symbol's weight but the last's.              *)
Weights(t) == [i \in 1..t.max |-> IF t.bits[i - 1] = 0 THEN 0 ELSE t.log + 1 - t.bits[i - 1]]

Histogram(bytes, max) == [s \in 0..max |-> Cardinality({i \in DOMAIN bytes : bytes[i] = s})]
LargestCount(bytes) == Max({Cardinality({i \in DOMAIN bytes : bytes[i] = s}) : s \in {0} \cup {bytes[j] : j \in DOMAIN bytes}})

\* <<>> when coding them does not pay.
CodeWeights(weights, room) ==
    LET max == Max({weights[i] : i \in DOMAIN weights})
        count == Histogram(weights, max)
        log == OptimalLog(WeightsLog, Len(weights), max, 2)
        norm == Normalize(count, Len(weights), log, FALSE)
        header == Describe(norm, log)
        coded == Code(weights, EncodeTable(norm, log), room - Len(header))
    IN IF Len(weights) <= 1 \/ LargestCount(weights) \in {1, Len(weights)} THEN <<>>
       ELSE IF norm = Corrupt THEN Corrupt
       ELSE IF coded = <<>> THEN <<>> ELSE header \o coded

DescribeTree(t, room) ==
    LET weights == Weights(t)
        coded == CodeWeights(weights, room - 1)
        at(n) == IF n <= t.max THEN weights[n] ELSE 0
        size == CeilDiv(t.max, 2) + 1
    IN IF coded = Corrupt THEN Corrupt
       ELSE IF Len(coded) > 1 /\ Len(coded) < t.max \div 2 THEN <<Len(coded)>> \o coded
       ELSE IF t.max > 128 \/ size > room THEN Corrupt
       ELSE <<127 + t.max>> \o [k \in 1..CeilDiv(t.max, 2) |-> 16 * at(2 * k - 1) + at(2 * k)]

\* huffman.rs read_weights: the last weight is what makes the total whole.
ReadWeights(src) ==
    LET first == src[1]
        raw == first >= 128
        size == IF raw THEN CeilDiv(first - 127, 2) ELSE first
        given == IF raw
                 THEN [n \in 1..first - 127 |-> LET b == src[2 + (n - 1) \div 2]
                                                IN IF n % 2 = 1 THEN b \div 16 ELSE b % 16]
                 ELSE DecodeWeights(SubSeq(src, 2, 1 + first), 255)
        total == SumOf([n \in DOMAIN given |-> 2^given[n] \div 2], DOMAIN given)
        log == Highbit(total) + 1
        rest == 2^log - total
        weights == [s \in 0..Len(given) |-> IF s < Len(given) THEN given[s + 1] ELSE Highbit(rest) + 1]
        ones == Cardinality({s \in DOMAIN weights : weights[s] = 1})
    IN IF src = <<>> THEN Corrupt
       ELSE IF size + 1 > Len(src) THEN Corrupt
       ELSE IF given = Corrupt THEN Corrupt
       ELSE IF (\E n \in DOMAIN given : given[n] > TableLogMax) \/ total = 0 THEN Corrupt
       ELSE IF log > TableLogMax \/ 2^Highbit(rest) # rest \/ ones < 2 \/ ones % 2 = 1 THEN Corrupt
       ELSE [weights |-> Once(weights), size |-> size + 1, log |-> log]

-----------------------------------------------------------------------------
(* The decoding tables.                                                     *)

\* Symbols of a weight stand in order, lighter ones first; a narrow tree is
\* widened to the fast loop's log, which moves every cell alike.
Before(weights, s) == {t \in DOMAIN weights : weights[t] > 0 /\ (weights[t] < weights[s] \/ (weights[t] = weights[s] /\ t < s))}
Cells(weights, w, wider) == IF w = 0 THEN 0 ELSE 2^(w - 1 + wider)
First(weights, s, wider) ==
    SumOf([t \in DOMAIN weights |-> Cells(weights, weights[t], wider)], Before(weights, s))

ReadX1(read) ==
    LET log == Most(read.log, FastTableLog)
        wider == log - read.log
        starts == Once([s \in DOMAIN read.weights |-> First(read.weights, s, wider)])
    IN [double |-> FALSE, log |-> log, weights |-> read.weights, wider |-> wider, tree |-> read.log, starts |-> starts]
ReadX2(read) ==
    LET log == IF read.log <= FastTableLog THEN FastTableLog ELSE TableLogMax
    IN [ReadX1(read) EXCEPT !.double = TRUE, !.log = log, !.wider = log - read.log]

FirstAt(t, i) ==
    CHOOSE s \in DOMAIN t.weights :
        t.weights[s] > 0 /\ t.starts[s] <= i /\ i < t.starts[s] + Cells(t.weights, t.weights[s], t.wider)
BitsFor(t, s) == t.tree + 1 - t.weights[s]

\* A cell of the double table: where a second code fits behind the first,
\* both; too short for any, the first alone.
RankStart(t, w) ==
    SumOf([s \in DOMAIN t.weights |-> Cells(t.weights, t.weights[s], t.wider)],
          {s \in DOMAIN t.weights : t.weights[s] > 0 /\ t.weights[s] < w})
CellX2(t, i) ==
    LET first == FirstAt(t, i)
        n == BitsFor(t, first)
        heaviest == Max({t.weights[s] : s \in DOMAIN t.weights})
        minBits == t.tree + 1 - heaviest
        minWeight == Most(n + t.tree + 1 - t.log, 1)
        j == i - t.starts[first]
        startAt(w) == RankStart(t, w) \div 2^n
        second == CHOOSE s \in DOMAIN t.weights :
            LET w == t.weights[s]
                length == 2^(t.log - (t.tree + 1 - w) - n)
                from == startAt(w) + length * Cardinality({o \in DOMAIN t.weights : t.weights[o] = w /\ o < s})
            IN w >= minWeight /\ from <= j /\ j < from + length
    IN IF t.log - n < minBits \/ (minWeight > 1 /\ j < startAt(minWeight))
       THEN [bytes |-> <<first, 0>>, bits |-> n, length |-> 1]
       ELSE [bytes |-> <<first, second>>, bits |-> n + BitsFor(t, second), length |-> 2]
CellX1(t, i) == LET s == FirstAt(t, i) IN [bytes |-> <<s, 0>>, bits |-> BitsFor(t, s), length |-> 1]
CellAt(t, i) == IF t.double THEN CellX2(t, i) ELSE CellX1(t, i)

-----------------------------------------------------------------------------
(* Decoding a stream into the bytes from p to end: a cell's two bytes are   *)
(* both stored, where there is room, and the second written over when the   *)
(* cell held one.  A decoder d is its bits, the whole output and where it is.*)

Put(out, p, bytes) ==
    [i \in DOMAIN out |-> IF i = p + 1 THEN bytes[1] ELSE IF i = p + 2 THEN bytes[2] ELSE out[i]]
PutOne(out, p, byte) == [out EXCEPT ![p + 1] = byte]

Symbol(t, d) ==
    LET cell == CellAt(t, LookFast(d.bits, t.log))
    IN [bits |-> Skip(d.bits, cell.bits), p |-> d.p + cell.length,
        out |-> IF t.double THEN Put(d.out, d.p, cell.bytes) ELSE PutOne(d.out, d.p, cell.bytes[1])]
RECURSIVE Times(_, _, _)
Times(n, t, d) == IF n = 0 THEN d ELSE Times(n - 1, t, Symbol(t, d))
Load(d) == [d EXCEPT !.bits = Reloaded(@)]
Unfinished(d) == Reload(d.bits)[2] = "unfinished"

\* Mutant: both symbols' bits are gone though only one is wanted.
LastX2Whole(t, d) ==
    LET cell == CellAt(t, LookFast(d.bits, t.log))
    IN [p |-> d.p + 1, out |-> PutOne(d.out, d.p, cell.bytes[1]), bits |-> Skip(d.bits, cell.bits)]
\* The last cell of a double stream: one byte, its bits only up to the end.
LastX2(t, d) ==
    LET cell == CellAt(t, LookFast(d.bits, t.log))
        skipped == Skip(d.bits, cell.bits)
    IN [p |-> d.p + 1, out |-> PutOne(d.out, d.p, cell.bytes[1]),
        bits |-> IF cell.length = 1 THEN skipped
                 ELSE IF d.bits.consumed >= 64 THEN d.bits
                 ELSE [skipped EXCEPT !.consumed = Least(@, 64)]]

\* A reload ahead of every batch of symbols the room holds.
RECURSIVE Batches(_, _, _, _)
Batches(t, d, end, batch) ==
    IF Unfinished(d) /\ d.p + batch.room < end THEN Batches(t, Times(batch.n, t, Load(d)), end, batch) ELSE Load(d)
RECURSIVE ToEnd(_, _, _, _)
ToEnd(t, d, end, each) == IF d.p + each <= end THEN ToEnd(t, Symbol(t, d), end, each) ELSE d

StreamX1(t, d, end) ==
    ToEnd(t, IF end - d.p > 3 THEN Batches(t, d, end, [n |-> 4, room |-> 3]) ELSE Load(d), end, 1)
StreamX2(t, d, end) ==
    LET five == IF t.log <= 11 THEN [n |-> 5, room |-> 9] ELSE [n |-> 4, room |-> 7]
        d1 == IF end - d.p >= 8 THEN Batches(t, d, end, five) ELSE Load(d)
        d2 == IF end - d1.p >= 2 THEN ToEnd(t, Batches(t, d1, end, [n |-> 1, room |-> 1]), end, 2) ELSE d1
    IN IF d2.p < end THEN LastX2(t, d2) ELSE d2
Stream(t, d, end) == IF t.double THEN StreamX2(t, d, end) ELSE StreamX1(t, d, end)

Blank(size) == [i \in 1..size |-> 0]
Single(src, t, size) ==
    LET bits == NewBits(src)
        d == Stream(t, [bits |-> bits, out |-> Blank(size), p |-> 0], size)
    IN IF bits = Corrupt THEN Corrupt ELSE IF ~AtEnd(d.bits) THEN Corrupt ELSE d.out

-----------------------------------------------------------------------------
(* Four streams behind a table of their sizes.                              *)
Le16(src, at) == src[at + 1] + 256 * src[at + 2]
Lengths(src) == <<Le16(src, 0), Le16(src, 2), Le16(src, 4)>>
Begins(src) == LET l == Lengths(src) IN <<6, 6 + l[1], 6 + l[1] + l[2], 6 + l[1] + l[2] + l[3]>>
Starts(size) == [k \in 1..4 |-> (k - 1) * CeilDiv(size, 4)]
Four == 1..4

\* One output, four readers: reader k does a step and hands the output on.
RECURSIVE Each(_, _, _, _)
Each(k, Op(_, _), ds, out) ==
    IF k > 4 THEN <<ds, out>>
    ELSE LET d == Op(k, [ds[k] EXCEPT !.out = out])
         IN Each(k + 1, Op, [ds EXCEPT ![k] = d], d.out)

\* The plain loop: in step while all four last, then each to its end, every
\* stream held to ending where its symbols do.
RECURSIVE InStep(_, _, _, _)
InStep(t, ds, out, size) ==
    LET n == IF t.double THEN 7 ELSE 3
        round(k, d) == Symbol(t, d)
        r1 == Each(1, round, ds, out)
        r2 == Each(1, round, r1[1], r1[2])
        r3 == Each(1, round, r2[1], r2[2])
        r4 == Each(1, round, r3[1], r3[2])
        loaded == [k \in Four |-> ReloadFast(r4[1][k].bits)]
        next == [k \in Four |-> [r4[1][k] EXCEPT !.bits = loaded[k][1]]]
    IN IF ds[4].p + n >= size THEN <<ds, out>>
       ELSE IF \E k \in Four : loaded[k][2] # "unfinished" THEN <<next, r4[2]>>
       ELSE InStep(t, next, r4[2], size)

FourPlain(src, t, size) ==
    LET begins == Begins(src)
        part(k) == SubSeq(src, begins[k] + 1, IF k = 4 THEN Len(src) ELSE begins[k + 1])
        starts == Starts(size)
        limit == [k \in Four |-> IF k = 4 THEN size ELSE starts[k + 1]]
        ds == [k \in Four |-> [bits |-> NewBits(part(k)), out |-> <<>>, p |-> starts[k]]]
        stepped == IF size - starts[4] >= 8 THEN InStep(t, ds, Blank(size), size) ELSE <<ds, Blank(size)>>
        finish(k, d) == Stream(t, d, limit[k])
        done == Each(1, finish, stepped[1], stepped[2])
    IN IF Len(src) < 10 \/ size < 6 THEN Corrupt
       ELSE IF begins[4] > Len(src) \/ starts[4] > size THEN Corrupt
       ELSE IF \E k \in Four : ds[k].bits = Corrupt THEN Corrupt
       ELSE IF \E k \in 1..3 : stepped[1][k].p > limit[k] THEN Corrupt
       ELSE IF \E k \in Four : ~AtEnd(done[1][k].bits) THEN Corrupt ELSE done[2]

\* The fast loop: five cells of each a round, as many rounds as the output
\* and the first stream's bytes are sure to hold.
FastSymbol(src, t, d) ==
    LET cell == CellAt(t, FieldAt(src, 8 * d.ip + 64 - d.gone - 11, 11))
    IN [d EXCEPT !.gone = @ + cell.bits, !.p = @ + cell.length,
                 !.out = IF t.double THEN Put(@, d.p, cell.bytes) ELSE PutOne(@, d.p, cell.bytes[1])]
FastReload(d) == [d EXCEPT !.ip = @ - d.gone \div 8, !.gone = @ % 8]
RECURSIVE FastRound(_, _, _, _, _)
FastRound(n, src, t, ds, out) ==
    LET symbol(k, d) == FastSymbol(src, t, d)
        r == Each(1, symbol, ds, out)
    IN IF n = 0 THEN <<[k \in Four |-> FastReload(ds[k])], out>> ELSE FastRound(n - 1, src, t, r[1], r[2])
RECURSIVE FastRounds(_, _, _, _, _)
FastRounds(src, t, ds, out, upTo) ==
    LET r == FastRound(5, src, t, ds, out)
    IN IF ds[4].p >= upTo THEN <<ds, out>> ELSE FastRounds(src, t, r[1], r[2], upTo)
RECURSIVE FastLoop(_, _, _, _, _)
FastLoop(src, t, ds, out, ends) ==
    LET held == IF t.double THEN {(ends[k] - ds[k].p) \div 10 : k \in Four} ELSE {(ends[4] - ds[4].p) \div 5}
        rounds == Min(held \cup {ds[1].ip \div 7})
        r == FastRounds(src, t, ds, out, ds[4].p + 5 * rounds)
    IN IF rounds = 0 \/ (\E k \in 2..4 : ds[k].ip < ds[k - 1].ip) THEN <<ds, out>>
       ELSE FastLoop(src, t, r[1], r[2], ends)

FastTakes(src, t, size) ==
    LET l == Lengths(src)
    IN /\ size > 0 /\ t.log = FastTableLog
       /\ \A k \in 1..3 : l[k] >= 8
       /\ Len(src) - Begins(src)[4] >= 8
       /\ Starts(size)[4] < size
FourFast(src, t, size) ==
    LET begins == Begins(src)
        starts == Starts(size)
        ends == [k \in Four |-> Least(k * CeilDiv(size, 4), size)]
        gone(ip) == IF src[ip + 8] = 0 THEN 0 ELSE 8 - Highbit(src[ip + 8])
        from(k) == (IF k = 4 THEN Len(src) ELSE begins[k + 1]) - 8
        ds == [k \in Four |-> [ip |-> from(k), gone |-> gone(from(k)), out |-> <<>>, p |-> starts[k]]]
        ran == FastLoop(src, t, ds, Blank(size), ends)
        \* Each is finished by the plain decoder, held to its segment only.
        resumed == [k \in Four |-> [bits |-> [buf |-> src, ptr |-> ran[1][k].ip, consumed |-> ran[1][k].gone],
                                    out |-> <<>>, p |-> ran[1][k].p]]
        finish(k, d) == Stream(t, d, ends[k])
    IN IF \E k \in Four : ran[1][k].p > ends[k] \/ ran[1][k].ip < begins[k] - 8 THEN Corrupt
       ELSE Each(1, finish, resumed, ran[2])[2]
FourStreams(src, t, size) ==
    IF size > 0 /\ Len(src) < 10 THEN Corrupt
    ELSE IF FastTakes(src, t, size) THEN FourFast(src, t, size) ELSE FourPlain(src, t, size)

\* Which table decodes four streams faster, by the costs the code measured:
\* <single, per 256 bytes> and <double, per 256 bytes>.
Costs == << <<0, 0, 1, 1>>, <<0, 0, 1, 1>>, <<150, 216, 381, 119>>, <<170, 205, 514, 112>>,
            <<177, 199, 539, 110>>, <<197, 194, 644, 107>>, <<221, 192, 735, 107>>, <<256, 189, 881, 106>>,
            <<359, 188, 1167, 109>>, <<582, 187, 1570, 114>>, <<688, 187, 1712, 122>>, <<825, 186, 1965, 136>>,
            <<976, 185, 2131, 150>>, <<1180, 186, 2070, 175>>, <<1377, 185, 1731, 202>>, <<1412, 185, 1695, 202>> >>
PrefersDouble(size, compressed) ==
    LET c == Costs[1 + (IF compressed >= size THEN 15 ELSE (compressed * 16) \div size)]
        double == c[3] + c[4] * (size \div 256)
    IN double + double \div 32 < c[1] + c[2] * (size \div 256)

-----------------------------------------------------------------------------
(* Coding a section (encode/huffman.rs).                                    *)
OneStream(src, t, room) ==
    LET n == Len(src)
    IN IF room < 8 THEN <<>>
       ELSE CloseStream(FlattenSeq([i \in 1..n |-> LET s == src[n + 1 - i] IN BitsOf(t.value[s], t.bits[s])]), room)
RECURSIVE PutStreams(_, _, _, _, _)
PutStreams(src, t, k, sizes, laid) ==
    LET segment == CeilDiv(Len(src), 4)
        one == OneStream(SubSeq(src, (k - 1) * segment + 1, IF k = 4 THEN Len(src) ELSE k * segment), t,
                         sizes.room - Len(laid))
    IN IF k > 4 THEN sizes.table \o laid
       ELSE IF one = <<>> \/ Len(one) > 65535 THEN <<>>
       ELSE PutStreams(src, t, k + 1,
                       IF k = 4 THEN sizes ELSE [sizes EXCEPT !.table = @ \o <<Len(one) % 256, Len(one) \div 256>>],
                       laid \o one)
PutFour(src, t, room) ==
    IF room < 17 \/ Len(src) < 12 THEN <<>> ELSE PutStreams(src, t, 1, [table |-> <<>>, room |-> room - 6], <<>>)

\* Coded behind a header, or nothing when it saves under two bytes.
CodeWith(header, src, four, t, room) ==
    LET coded == IF four THEN PutFour(src, t, room - Len(header)) ELSE OneStream(src, t, room - Len(header))
    IN IF coded = <<>> \/ Len(header) + Len(coded) >= Len(src) - 1 THEN <<>> ELSE header \o coded

Estimate(t, count) == SumOf([s \in DOMAIN count |-> t.bits[s] * count[s]], DOMAIN count) \div 8
CodesAll(t, count) == t.max >= Max(DOMAIN count) /\ \A s \in DOMAIN count : count[s] = 0 \/ t.bits[s] > 0

\* A literal section coded: its bytes (<<>> when it does not pay, one when it
\* is one byte repeated), and the tree the next may repeat.
CompressLiterals(src, four, repeat, previous, suspect, room) ==
    LET max == Max({src[i] : i \in DOMAIN src})
        count == Histogram(src, max)
        sample == 4096
        largest == Max({count[s] : s \in DOMAIN count})
        flat == suspect /\ Len(src) >= 10 * sample
                /\ LargestCount(SubSeq(src, 1, sample)) + LargestCount(SubSeq(src, Len(src) - sample + 1, Len(src))) <= 68
        kept == repeat = "check" /\ CodesAll(previous, count)
        table == BuildTable(count, OptimalLog(LiteralsLog, Len(src), max, 1))
        header == DescribeTree(table, room)
        long == Len(header) + 12 >= Len(src)
        older == Estimate(previous, count) <= Len(header) + Estimate(table, count)
        was(bytes) == [bytes |-> bytes, repeat |-> repeat, table |-> previous]
        cleared(bytes) == [bytes |-> bytes, repeat |-> IF kept THEN repeat ELSE "none", table |-> previous]
    IN IF src = <<>> \/ room = 0 THEN was(<<>>)
       ELSE IF flat THEN was(<<>>)
       ELSE IF largest = Len(src) THEN was(<<src[1]>>)
       ELSE IF largest <= Len(src) \div 128 + 4 THEN was(<<>>)
       ELSE IF header = Corrupt THEN cleared(Corrupt)
       ELSE IF kept /\ (older \/ long) THEN cleared(CodeWith(<<>>, src, four, previous, room))
       ELSE IF long THEN cleared(<<>>)
       ELSE [bytes |-> CodeWith(header, src, four, table, room), repeat |-> "none", table |-> table]
=============================================================================
