------------------------------ MODULE ZstdFrame ------------------------------
(***************************************************************************)
(* The blocks and the frames of the native zstd port (compress: sequences, *)
(* frame, frame_header, encode/mod, encode/entropy, encode/literals): a    *)
(* block's literal section, its sequences under three FSE tables and their *)
(* execution into the output; and a source parsed into blocks, each coded, *)
(* stored or sent as its byte repeated, and read back.                     *)
(*                                                                         *)
(* Abstractions: where the code weighs the tables' costs, any table the    *)
(* block may be coded under is taken (prefer); TooSmall is a lack of room; *)
(* Checksum stands for xxh64.  The compressor refuses a source over        *)
(* 3.5 GiB and the decoder a window over 2 GiB; neither is reached here.   *)
(***************************************************************************)
EXTENDS Entropy

CONSTANTS
    TooSmall,
    BlockMax,  \* the largest block: 128 KiB
    Extra,     \* literals kept outside the output when they are split: 64 KiB
    Stride, Gap, TagValues,  \* LazyMatch's
    WindowLogMin             \* 10

OverLength == 32
LongCount == 32512

\* The codes: value bases, extra bits and default counts, code 0 first.
LLBase == <<0, 1, 2, 3, 4, 5, 6, 7, 8, 9, 10, 11, 12, 13, 14, 15, 16, 18, 20, 22, 24, 28, 32, 40, 48, 64, 128, 256,
            512, 1024, 2048, 4096, 8192, 16384, 32768, 65536>>
LLBits == [k \in 1..16 |-> 0] \o <<1, 1, 1, 1, 2, 2, 3, 3, 4, 6, 7, 8, 9, 10, 11, 12, 13, 14, 15, 16>>
LLDefault == <<4, 3, 2, 2, 2, 2, 2, 2, 2, 2, 2, 2, 2, 1, 1, 1, 2, 2, 2, 2, 2, 2, 2, 2, 2, 3, 2, 1, 1, 1, 1, 1, -1, -1, -1, -1>>
MLBase == [k \in 1..32 |-> k + 2] \o <<35, 37, 39, 41, 43, 47, 51, 59, 67, 83, 99, 131, 259, 515, 1027, 2051, 4099,
            8195, 16387, 32771, 65539>>
MLBits == [k \in 1..32 |-> 0] \o <<1, 1, 1, 1, 2, 2, 3, 3, 4, 4, 5, 7, 8, 9, 10, 11, 12, 13, 14, 15, 16>>
MLDefault == <<1, 4, 3, 2, 2, 2, 2, 2, 2>> \o [k \in 1..37 |-> 1] \o [k \in 1..7 |-> -1]
\* An offset code k reads k bits over 2^k - 3; the values to 3 repeat.
OFBase == [k \in 1..30 |-> IF k <= 2 THEN k - 1 ELSE 2^(k - 1) - 3]
OFBits == [k \in 1..30 |-> k - 1]
OFDefault == <<1, 1, 1, 1, 1, 1, 2, 2, 2>> \o [k \in 1..15 |-> 1] \o [k \in 1..5 |-> -1]

Codes == << [base |-> LLBase, bits |-> LLBits, default |-> LLDefault, log |-> 6, maxLog |-> 9, max |-> 35],
            [base |-> OFBase, bits |-> OFBits, default |-> OFDefault, log |-> 5, maxLog |-> 8, max |-> 31],
            [base |-> MLBase, bits |-> MLBits, default |-> MLDefault, log |-> 6, maxLog |-> 9, max |-> 52] >>
FromZero(seq) == [s \in 0..Len(seq) - 1 |-> seq[s + 1]]

-----------------------------------------------------------------------------
(* Decoding: the tables.                                                    *)

\* A sequence table: each cell's code, bits and next state.
SequenceTable(counts, log) ==
    LET cells == Spread(counts, log)
    IN Once([log |-> log, cells |-> [at \in 0..2^log - 1 |->
          LET n == log - Highbit(cells[at].state)
          IN [symbol |-> cells[at].symbol, bits |-> n, next |-> cells[at].state * 2^n - 2^log]]])
Defaults == [k \in 1..3 |-> SequenceTable(FromZero(Codes[k].default), Codes[k].log)]
RunTable(symbol) == [log |-> 0, cells |-> [at \in {0} |-> [symbol |-> symbol, bits |-> 0, next |-> 0]]]

Basic == 0  Rle == 1  Compressed == 2  Repeat == 3

\* One code's table as its kind says: the table, and the bytes it took.
ReadTable(kind, k, table, src, repeatable) ==
    LET read == ReadCounts(src, Codes[k].max)
    IN IF kind = Basic THEN <<Defaults[k], 0>>
       ELSE IF kind = Repeat THEN IF repeatable THEN <<table, 0>> ELSE Corrupt
       ELSE IF src = <<>> THEN Corrupt
       ELSE IF kind = Rle THEN IF src[1] > Codes[k].max THEN Corrupt ELSE <<RunTable(src[1]), 1>>
       ELSE IF read = Corrupt THEN Corrupt
       ELSE IF read.log > Codes[k].maxLog THEN Corrupt
       ELSE <<SequenceTable(read.counts, read.log), read.size>>

From(src, at) == SubSeq(src, at + 1, Len(src))
RECURSIVE ReadTables(_, _, _, _, _, _)
ReadTables(k, kinds, tables, src, at, repeatable) ==
    LET read == ReadTable((kinds \div 4^(4 - k)) % 4, k, tables[k], From(src, at), repeatable)
    IN IF k > 3 THEN [tables |-> tables, at |-> at]
       ELSE IF read = Corrupt THEN Corrupt
       ELSE ReadTables(k + 1, kinds, [tables EXCEPT ![k] = read[1]], src, at + read[2], repeatable)

\* The section's header: how many sequences, their tables, where they start.
ReadHeader(entropy, src) ==
    LET first == src[1]
        wide == IF first < 128 THEN 1 ELSE IF first = 255 THEN 3 ELSE 2
        count == IF first < 128 THEN first
                 ELSE IF first = 255 THEN Le16(src, 1) + LongCount ELSE (first - 128) * 256 + src[2]
        kinds == src[wide + 1]
        read == ReadTables(1, kinds, entropy.tables, src, wide + 1, entropy.repeatable)
    IN IF src = <<>> THEN Corrupt
       ELSE IF Len(src) < wide THEN Corrupt
       ELSE IF count = 0 THEN IF wide = Len(src) THEN [count |-> 0, at |-> wide, tables |-> entropy.tables] ELSE Corrupt
       ELSE IF Len(src) < wide + 1 THEN Corrupt
       ELSE IF kinds % 4 # 0 THEN Corrupt
       ELSE IF read = Corrupt THEN Corrupt
       ELSE [count |-> count, at |-> read.at, tables |-> read.tables]

-----------------------------------------------------------------------------
(* Decoding: a sequence, and the three repeat offsets.                      *)
NotAnOffset == 536870911   \* 0 less 1: pushed out of every range

\* Mutant: a block's repeats are not shifted by its missing literals.
RepeatedUnshifted(repeats, code, noLiterals) ==
    [offset |-> repeats[code + 1], repeats |-> <<repeats[code + 1], repeats[1], repeats[2]>>]
Repeated(repeats, code, noLiterals) ==
    LET c == code + noLiterals
        o == IF c = 3 THEN (IF repeats[1] = 0 THEN NotAnOffset ELSE repeats[1] - 1) ELSE repeats[c + 1]
        offset == IF o = 0 THEN NotAnOffset ELSE o
    IN [offset |-> offset, repeats |-> <<offset, repeats[1], IF c = 1 THEN repeats[3] ELSE repeats[2]>>]

StartDecoder(src, tables, repeats) ==
    LET b0 == NewBits(src)
        b1 == Reloaded(Skip(b0, tables[1].log))
        b2 == Reloaded(Skip(b1, tables[2].log))
        b3 == Reloaded(Skip(b2, tables[3].log))
    IN IF b0 = Corrupt THEN Corrupt
       ELSE [bits |-> b3, repeats |-> repeats,
             states |-> <<Look(b0, tables[1].log), Look(b1, tables[2].log), Look(b2, tables[3].log)>>]

NextSequence(d, tables, last) ==
    LET cell(k) == tables[k].cells[d.states[k]]
        base(k) == Codes[k].base[cell(k).symbol + 1]
        extra(k) == Codes[k].bits[cell(k).symbol + 1]
        field(b, n) == IF n = 0 THEN 0 ELSE LookFast(b, n)
        noLiterals == IF base(1) = 0 THEN 1 ELSE 0
        read == field(d.bits, extra(2))
        back == IF extra(2) > 1
                THEN [offset |-> base(2) + read, repeats |-> <<base(2) + read, d.repeats[1], d.repeats[2]>>]
                ELSE IF extra(2) = 1 THEN Repeated(d.repeats, 1 + read, noLiterals)
                ELSE LET o == d.repeats[1 + noLiterals]
                     IN [offset |-> o, repeats |-> <<o, d.repeats[2 - noLiterals], d.repeats[3]>>]
        b1 == Skip(d.bits, extra(2))
        b2 == Skip(b1, extra(3))
        b3 == IF extra(1) + extra(2) + extra(3) >= 57 - 26 THEN Reloaded(b2) ELSE b2
        b4 == Skip(b3, extra(1))
        b5 == Skip(b4, cell(1).bits)
        b6 == Skip(b5, cell(3).bits)
    IN [offset |-> back.offset, matched |-> base(3) + field(b1, extra(3)), literals |-> base(1) + field(b3, extra(1)),
        d |-> [repeats |-> back.repeats,
               bits |-> IF last THEN b4 ELSE Reloaded(Skip(b6, cell(2).bits)),
               states |-> IF last THEN d.states
                          ELSE <<cell(1).next + Look(b4, cell(1).bits), cell(2).next + Look(b6, cell(2).bits),
                                 cell(3).next + Look(b5, cell(3).bits)>>]]

-----------------------------------------------------------------------------
(* Execution.  The output is what the frame may write; what a fast copy     *)
(* reads behind the literals is Slack, which nothing may keep.              *)
Slack == 999
CopyWithin(out, from, n, to) ==
    [i \in DOMAIN out |-> IF to < i /\ i <= to + n THEN out[from + i - to] ELSE out[i]]
CopyIn(out, to, lits, from, n) ==
    [i \in DOMAIN out |-> IF to < i /\ i <= to + n
                          THEN (IF from + i - to <= Len(lits) THEN lits[from + i - to] ELSE Slack) ELSE out[i]]

\* Byte by byte in effect: a match may overlap what it writes.
RECURSIVE CopyMatch(_, _, _, _, _)
CopyMatch(out, at, offset, length, done) ==
    LET n == Least(offset + done, length - done)
    IN IF done >= length THEN out
       ELSE CopyMatch(CopyWithin(out, at - offset, n, at + done), at, offset, length, done + n)

\* Steps of a width, from lagging behind to by more than it.
RECURSIVE Steps(_, _, _, _, _)
Steps(out, from, to, end, width) ==
    IF to >= end THEN out ELSE Steps(CopyWithin(out, from, width, to), from + width, to + width, end, width)
\* The first 8 bytes spread a close match to 8 or more behind.
SpreadOn == <<1, 2, 1, 4, 4, 4, 4>>
SpreadBack == <<8, 8, 7, 8, 9, 10, 11>>
RECURSIVE Singly(_, _, _, _)
Singly(out, from, to, n) == IF n = 0 THEN out ELSE Singly(CopyWithin(out, from, 1, to), from + 1, to + 1, n - 1)
ExecuteFast(out, op, lits, used, s) ==
    LET laid == CopyIn(out, op, lits, used, Most(16, s.literals))
        to == op + s.literals
        from == to - s.offset
        on == from + SpreadOn[s.offset]
        near == CopyWithin(Singly(laid, from, to, 4), on, 4, to + 4)
    IN IF s.offset >= 16
       THEN IF s.matched <= 16 THEN CopyWithin(laid, from, 16, to)
            ELSE IF s.offset >= s.matched THEN CopyWithin(laid, from, s.matched, to)
            ELSE Steps(laid, from, to, to + s.matched, 16)
       ELSE IF s.offset < 8 THEN Steps(near, on + 8 - SpreadBack[s.offset], to + 8, to + s.matched, 8)
       ELSE Steps(CopyWithin(laid, from, 8, to), from + 8, to + 8, to + s.matched, 8)

\* x is the output, where it is written to, and the literals used.
RunsFast(x, end, room, limit, s) ==
    /\ s.literals <= limit - x.used
    /\ s.literals + s.matched + OverLength <= end - x.op
    /\ x.used + s.literals + OverLength <= room
    /\ s.offset <= x.op + s.literals
Execute(x, end, lits, room, limit, s) ==
    LET length == s.literals + s.matched
        plain == CopyIn(x.out, x.op, lits, x.used, s.literals)
        moved(out) == [out |-> out, op |-> x.op + length, used |-> x.used + s.literals]
    IN IF RunsFast(x, end, room, limit, s) THEN moved(ExecuteFast(x.out, x.op, lits, x.used, s))
       ELSE IF length > end - x.op \/ s.literals > limit - x.used \/ s.offset > x.op + s.literals THEN Corrupt
       ELSE moved(CopyMatch(plain, x.op + s.literals, s.offset, s.matched, 0))

-----------------------------------------------------------------------------
(* Decoding: the literal section, then the block.                           *)

\* Where the C keeps the literals decides how far the output may run.
Place(capacity, blockMax, size) ==
    IF capacity > blockMax + OverLength + size + OverLength THEN "output"
    ELSE IF size <= Extra THEN "apart" ELSE "split"

\* frame keeps blockMax, the tree (NoTree before one) and the sequences' tables.
DecodeLiterals(frame, src, capacity) ==
    LET kind == src[1] % 4
        format == (src[1] \div 4) % 4
        coded == kind \in {Compressed, Repeat}
        single == format = 0
        wide == IF coded THEN (IF format < 2 THEN 3 ELSE IF format = 2 THEN 4 ELSE 5)
                ELSE IF format = 1 THEN 2 ELSE IF format = 3 THEN 3 ELSE 1
        sizeBits == IF coded THEN (IF format < 2 THEN 10 ELSE IF format = 2 THEN 14 ELSE 18)
                    ELSE IF format = 1 THEN 12 ELSE IF format = 3 THEN 20 ELSE 5
        size == FieldAt(src, IF ~coded /\ wide = 1 THEN 3 ELSE 4, sizeBits)
        compressed == FieldAt(src, 4 + sizeBits, sizeBits)
        stream == SubSeq(src, wide + 1, wide + compressed)
        read == IF kind = Repeat THEN [size |-> 0] ELSE ReadWeights(stream)
        tree == IF kind = Repeat THEN frame.tree
                ELSE IF ~single /\ PrefersDouble(size, compressed) THEN ReadX2(read) ELSE ReadX1(read)
        body == From(stream, read.size)
        out == IF single THEN Single(body, tree, size) ELSE FourStreams(body, tree, size)
        section(taken, lits, room, place, t, kept) ==
            [consumed |-> taken, size |-> size, literals |-> lits, room |-> room, place |-> place,
             tree |-> t, repeatable |-> kept]
        \* What may be read behind decoded literals is the buffer's own slack.
        buffered == BlockMax + OverLength
        place == Place(capacity, frame.blockMax, size)
    IN IF Len(src) < 2 \/ (coded /\ Len(src) < 5) \/ (~coded /\ Len(src) < wide + kind) THEN Corrupt
       ELSE IF size > frame.blockMax \/ size > capacity THEN Corrupt
       ELSE IF kind = 0
       THEN IF wide + size > Len(src) THEN Corrupt
            ELSE IF wide + size + OverLength > Len(src)
            THEN section(wide + size, SubSeq(src, wide + 1, wide + size), buffered, place, frame.tree, frame.repeatable)
            ELSE section(wide + size, From(src, wide), Len(src) - wide, "apart", frame.tree, frame.repeatable)
       ELSE IF kind = Rle
       THEN section(wide + 1, [i \in 1..size |-> src[wide + 1]], buffered, place, frame.tree, frame.repeatable)
       ELSE IF (kind = Repeat /\ ~frame.repeatable) \/ (~single /\ size < 6) \/ compressed + wide > Len(src) THEN Corrupt
       ELSE IF read = Corrupt THEN Corrupt
       ELSE IF kind = Compressed /\ read.size >= Len(stream) THEN Corrupt
       ELSE IF out = Corrupt THEN Corrupt
       ELSE section(wide + compressed, out, buffered, place, tree, TRUE)

\* Split literals lie in the output's own room while a sequence takes them
\* from that part: its output must stay a wildcopy short of the next one.
Overruns(split, x, at, s) ==
    /\ split # <<>> /\ x.used + s.literals <= split[1]
    /\ x.op - at + s.literals + s.matched + OverLength > split[2] + x.used + s.literals
RECURSIVE RunSequences(_, _, _, _, _, _, _)
RunSequences(n, d, tables, x, at, split, lit) ==
    LET s == Once(NextSequence(d, tables, n = 1))
        past == split # <<>> /\ x.used + s.literals > split[1]
        next == Once(Execute(x, lit.end, lit.literals, lit.room, lit.size, s))
    IN IF n = 0 THEN [d |-> d, x |-> x]
       ELSE IF Overruns(split, x, at, s) THEN Corrupt
       ELSE IF next = Corrupt THEN Corrupt
       ELSE RunSequences(n - 1, s.d, tables, next, at, IF past THEN <<>> ELSE split, lit)

\* A block at at: the output, how far it is written, and what the frame keeps.
DecodeBlock(frame, out, at, src) ==
    LET capacity == Len(out) - at
        lits == Once(DecodeLiterals(frame, src, capacity))
        rest == From(src, lits.consumed)
        header == Once(ReadHeader([tables |-> frame.tables, repeatable |-> frame.sequenced], rest))
        end == IF lits.place = "output" THEN at + frame.blockMax + OverLength ELSE Len(out)
        split == IF lits.place # "split" THEN <<>>
                 ELSE <<lits.size - Extra, Least(frame.blockMax, capacity) - lits.size + Extra - OverLength>>
        d == Once(StartDecoder(From(rest, header.at), header.tables, frame.repeats))
        x0 == [out |-> out, op |-> at, used |-> 0]
        ran == Once(RunSequences(header.count, d, header.tables, x0, at, split,
                                 [end |-> end, literals |-> lits.literals, room |-> lits.room, size |-> lits.size]))
        finish(x, repeats, sequenced) ==
            LET last == lits.size - x.used
            IN IF last > end - x.op THEN Corrupt
               ELSE [out |-> CopyIn(x.out, x.op, lits.literals, x.used, last), op |-> x.op + last,
                     frame |-> [frame EXCEPT !.tree = lits.tree, !.repeatable = lits.repeatable,
                                             !.tables = header.tables, !.repeats = repeats, !.sequenced = sequenced]]
    IN IF Len(src) > frame.blockMax THEN Corrupt
       ELSE IF lits = Corrupt THEN Corrupt
       ELSE IF header = Corrupt THEN Corrupt
       ELSE IF header.count = 0 THEN finish(x0, frame.repeats, frame.sequenced)
       ELSE IF capacity = 0 \/ d = Corrupt THEN Corrupt
       ELSE IF ran = Corrupt THEN Corrupt
       ELSE IF ~AtEnd(ran.d.bits) THEN Corrupt
       ELSE finish(ran.x, ran.d.repeats, TRUE)

-----------------------------------------------------------------------------
(* Frames.                                                                  *)
Lazy == INSTANCE LazyMatch

Bytes(v, n) == [k \in 1..n |-> (v \div 256^(k - 1)) % 256]

-----------------------------------------------------------------------------
(* Coding a literal section (encode/literals.rs).                           *)
MinToCode == 64
LiteralHeader(kind, size) ==
    IF size <= 31 THEN BytesOf(BitsOf(kind, 2) \o <<0>> \o BitsOf(size, 5))
    ELSE IF size <= 4095 THEN BytesOf(BitsOf(kind, 2) \o <<1, 0>> \o BitsOf(size, 12))
    ELSE BytesOf(BitsOf(kind, 2) \o <<1, 1>> \o BitsOf(size, 20))
StoredLiterals(src, room) ==
    LET head == LiteralHeader(0, Len(src))
    IN IF Len(src) + Len(head) > room THEN TooSmall ELSE head \o src

\* The section, and the tree (with whether it may be repeated) handed on.
LiteralSection(src, tree, suspect, room) ==
    LET n == Len(src)
        wide == 3 + (IF n >= 1024 THEN 1 ELSE 0) + (IF n >= 16384 THEN 1 ELSE 0)
        single == n < 256
        c == CompressLiterals(src, ~single, tree.repeat, tree.table, suspect, room - wide)
        kind == IF c.repeat = "none" THEN Compressed ELSE Repeat
        pays == c.bytes # Corrupt /\ c.bytes # <<>> /\ Len(c.bytes) < n - (n \div 64 + 2)
        format == IF wide = 3 THEN (IF single THEN 0 ELSE 1) ELSE wide - 2
        sizeBits == IF wide = 3 THEN 10 ELSE IF wide = 4 THEN 14 ELSE 18
        head == BytesOf(BitsOf(kind, 2) \o BitsOf(format, 2) \o BitsOf(n, sizeBits) \o BitsOf(Len(c.bytes), sizeBits))
    IN IF n < MinToCode THEN [bytes |-> StoredLiterals(src, room), tree |-> tree]
       ELSE IF room < wide + 1 THEN [bytes |-> TooSmall, tree |-> tree]
       ELSE IF ~pays THEN [bytes |-> StoredLiterals(src, room), tree |-> tree]
       ELSE IF Len(c.bytes) = 1 THEN [bytes |-> LiteralHeader(Rle, n) \o <<src[1]>>, tree |-> tree]
       ELSE [bytes |-> head \o c.bytes,
             tree |-> [table |-> c.table, repeat |-> IF kind = Compressed THEN "check" ELSE tree.repeat]]

-----------------------------------------------------------------------------
(* Coding a block's sequences (encode/entropy.rs).                          *)

\* A value's code: the last whose base it reaches.
CodeOf(k, value) == Max({c \in 1..Len(Codes[k].base) : Codes[k].base[c] <= value}) - 1
\* The offset codes are by the offset base itself, whose repeats are 1 to 3.
CodesOf(sequences) ==
    << [i \in DOMAIN sequences |-> CodeOf(1, sequences[i].lit)],
       [i \in DOMAIN sequences |-> Highbit(sequences[i].off)],
       [i \in DOMAIN sequences |-> CodeOf(3, sequences[i].ml + 3)] >>

EncodeRun(symbol) ==
    [log |-> 0, max |-> symbol, states |-> [i \in 0..1 |-> 0], bits |-> [s \in {symbol} |-> 0],
     find |-> [s \in {symbol} |-> 0]]
\* A table may be repeated when it codes every symbol counted.
MayRepeat(coder, count) ==
    /\ coder.repeat = "check"
    /\ coder.table.max >= Max(DOMAIN count)
    /\ \A s \in DOMAIN count : count[s] > 0 => (coder.table.bits[s] \div 65536) < coder.table.log
                                              \/ (coder.table.bits[s] % 65536) # 65536 - 2^coder.table.log

OwnNorm(k, codes, count) ==
    LET max == Max(DOMAIN count)
        last == codes[Len(codes)]
        \* The last code is coded by the first state, for free.
        free == count[last] > 1
        total == Len(codes) - (IF free THEN 1 ELSE 0)
        log == OptimalLog(Codes[k].maxLog, Len(codes), max, 2)
    IN [log |-> log, norm |-> Normalize(IF free THEN [count EXCEPT ![last] = @ - 1] ELSE count, total, log, total >= 2048)]

\* Which kind of table: prefer, when it may be, stands for the cheapest.
Select(k, codes, count, coder, prefer) ==
    LET max == Max(DOMAIN count)
        basic == k # 2 \/ max <= 28
        allowed == (IF basic THEN {Basic} ELSE {}) \cup {Compressed}
                   \cup (IF MayRepeat(coder, count) THEN {Repeat} ELSE {})
    IN IF Max({count[s] : s \in DOMAIN count}) = Len(codes)
       THEN IF basic /\ Len(codes) <= 2 THEN Basic ELSE Rle
       ELSE IF prefer \in allowed THEN prefer ELSE Min(allowed)
NextRepeat(kind, repeat) == IF kind \in {Basic, Rle} THEN "none" ELSE IF kind = Compressed THEN "check" ELSE repeat

EncodeDefaults == Once([k \in 1..3 |-> Once(EncodeTable(FromZero(Codes[k].default), Codes[k].log))])
\* One code's table: its kind, its description, and the coder handed on.
ChooseTable(k, codes, coder, prefer) ==
    LET max == Max({codes[i] : i \in DOMAIN codes})
        count == Histogram(codes, max)
        kind == Select(k, codes, count, coder, prefer)
        own == OwnNorm(k, codes, count)
    IN [kind |-> kind,
        bytes |-> IF kind = Rle THEN <<codes[1]>>
                  ELSE IF kind # Compressed THEN <<>>
                  ELSE IF own.norm = Corrupt THEN Corrupt ELSE Describe(own.norm, own.log),
        coder |-> [repeat |-> NextRepeat(kind, coder.repeat),
                   table |-> IF kind = Rle THEN EncodeRun(max)
                             ELSE IF kind = Repeat THEN coder.table
                             ELSE IF kind = Basic THEN EncodeDefaults[k]
                             ELSE IF own.norm = Corrupt THEN coder.table ELSE EncodeTable(own.norm, own.log)]]

\* The sequences, last first; the states of the last cost no bits.
ExtraBits(codes, s, i) ==
    BitsOf(s.lit, LLBits[codes[1][i] + 1]) \o BitsOf(s.ml, MLBits[codes[3][i] + 1]) \o BitsOf(s.off, codes[2][i])
RECURSIVE EncodeFrom(_, _, _, _, _, _)
EncodeFrom(i, tables, codes, sequences, states, bits) ==
    LET code(k) == codes[k][i]
        moved(k) == Encoded(tables[k], states[k], code(k))
    IN IF i = 0
       THEN bits \o BitsOf(states[3], tables[3].log) \o BitsOf(states[2], tables[2].log) \o BitsOf(states[1], tables[1].log)
       ELSE IF i = Len(sequences)
       THEN EncodeFrom(i - 1, tables, codes, sequences, Once([k \in 1..3 |-> FirstState(tables[k], code(k))]),
                       ExtraBits(codes, sequences[i], i))
       ELSE EncodeFrom(i - 1, tables, codes, sequences, Once([k \in 1..3 |-> NextState(tables[k], states[k], code(k))]),
                       bits \o moved(2) \o moved(3) \o moved(1) \o ExtraBits(codes, sequences[i], i))
EncodeSequences(tables, codes, sequences, room) ==
    CloseStream(EncodeFrom(Len(sequences), tables, codes, sequences, <<0, 0, 0>>, <<>>), room)

CountBytes(n) ==
    IF n < 128 THEN <<n>> ELSE IF n < LongCount THEN <<128 + n \div 256, n % 256>>
    ELSE <<255>> \o Bytes(n - LongCount, 2)

\* A block's store coded: its bytes (<<>> when it is better stored), TooSmall
\* or Corrupt, and the entropy handed on.
CodeBlock(store, entropy, prefer, room) ==
    LET n == Len(store.sequences)
        suspect == n = 0 \/ Len(store.literals) \div n >= 20
        lits == LiteralSection(store.literals, entropy.tree, suspect, room)
        counted == lits.bytes \o CountBytes(n)
        codes == Once(CodesOf(store.sequences))
        chosen == Once([k \in 1..3 |-> ChooseTable(k, codes[k], entropy.coders[k], prefer[k])])
        kinds == 64 * chosen[1].kind + 16 * chosen[2].kind + 4 * chosen[3].kind
        head == counted \o <<kinds>> \o chosen[1].bytes \o chosen[2].bytes \o chosen[3].bytes
        bits == EncodeSequences([k \in 1..3 |-> chosen[k].coder.table], codes, store.sequences, room - Len(head))
        described == {k \in 1..3 : chosen[k].kind = Compressed}
        tiny == described # {} /\ Len(chosen[Max(described)].bytes) + Len(bits) < 4
        next == [tree |-> lits.tree, coders |-> [k \in 1..3 |-> chosen[k].coder]]
    IN IF lits.bytes = TooSmall THEN [bytes |-> TooSmall]
       ELSE IF room - Len(lits.bytes) < 4 THEN [bytes |-> TooSmall]
       ELSE IF n = 0 THEN [bytes |-> counted, entropy |-> [entropy EXCEPT !.tree = lits.tree]]
       ELSE IF \E k \in 1..3 : chosen[k].bytes = Corrupt THEN [bytes |-> Corrupt]
       ELSE IF bits = <<>> THEN [bytes |-> TooSmall]
       ELSE [bytes |-> IF tiny THEN <<>> ELSE head \o bits, entropy |-> next]
\* Stored instead when it saves too little, or does not fit where the stored
\* block would.
CompressBlock(store, entropy, prefer, blockSize, room) ==
    LET coded == CodeBlock(store, entropy, prefer, room)
    IN IF coded.bytes = TooSmall THEN IF blockSize <= room THEN [bytes |-> <<>>] ELSE coded
       ELSE IF coded.bytes = Corrupt THEN coded
       ELSE IF Len(coded.bytes) >= blockSize - (blockSize \div 64 + 2) THEN [bytes |-> <<>>] ELSE coded

-----------------------------------------------------------------------------
(* The frame written (encode/mod.rs).                                       *)
Magic == <<40, 181, 47, 253>>
RawBlock == 0  RleBlock == 1  CodedBlock == 2

\* Level 9's parameters for a size, the window no larger than the source.
SizeLog(size) == IF size < 64 THEN 6 ELSE Highbit(size - 1) + 1
Params(size) ==
    LET row == IF size <= 16384 THEN <<14, 15, 14, 5, 4>> ELSE IF size <= 131072 THEN <<17, 16, 17, 5, 4>>
               ELSE IF size <= 262144 THEN <<18, 18, 19, 5, 4>> ELSE <<22, 20, 21, 4, 5>>
        tree == size <= 16384
        window == Least(row[1], SizeLog(size))
        cycle == row[2] - (IF tree THEN 1 ELSE 0)
    IN [windowLog |-> Most(window, WindowLogMin), chainLog |-> row[2] - Most(0, cycle - window),
        hashLog |-> Least(row[3], window + 1), searchLog |-> row[4], minMatch |-> row[5], tree |-> tree]

WriteHeader(windowLog, size) ==
    LET single == 2^windowLog >= size
        code == IF size >= 65536 + 256 THEN 2 ELSE IF size >= 256 THEN 1 ELSE 0
    IN Magic \o <<(IF single THEN 32 ELSE 0) + 64 * code>>
       \o (IF single THEN <<>> ELSE <<8 * (windowLog - WindowLogMin)>>)
       \o (IF code = 0 THEN Bytes(size, 1) ELSE IF code = 1 THEN Bytes(size - 256, 2) ELSE Bytes(size, 4))
BlockHeader(last, kind, size) == Bytes((IF last THEN 1 ELSE 0) + 2 * kind + 8 * size, 3)

\* A block: parsed, coded, and the state handed on only when it is sent coded.
NewState(p) ==
    [finder |-> Lazy!NewFinder(p), reps |-> <<1, 4>>,
     entropy |-> [tree |-> [table |-> [max |-> 0], repeat |-> "none"],
                  coders |-> [k \in 1..3 |-> [table |-> [max |-> 0], repeat |-> "none"]]]]
\* Mutant: a block sent as it is still hands its repeats on.
KeepsRepeats(state, parsed) == [state EXCEPT !.finder = parsed.f, !.reps = parsed.reps]
Unchanged(state, parsed) == [state EXCEPT !.finder = parsed.f]
PutBlock(state, src, start, end, prefer, room) ==
    LET block == SubSeq(src, start + 1, end)
        last == end = Len(src)
        entered == Lazy!SkipLongMatch(Lazy!EnterBlock(state.finder, start), start)
        parsed == Once(Lazy!Parse(entered, src, start, end, state.reps))
        coded == Once(CompressBlock(parsed, state.entropy, prefer, Len(block), room - 3))
        run == start # 0 /\ Len(coded.bytes) < 25 /\ \A i \in DOMAIN block : block[i] = block[1]
        stored == IF 3 + Len(block) > room THEN Corrupt ELSE BlockHeader(last, RawBlock, Len(block)) \o block
    IN IF Len(block) < 7 THEN [bytes |-> stored, state |-> [state EXCEPT !.finder = Lazy!EnterBlock(@, start)]]
       ELSE IF coded.bytes \in {Corrupt, TooSmall} THEN [bytes |-> Corrupt, state |-> state]
       ELSE IF run \/ Len(coded.bytes) = 1
       THEN [bytes |-> BlockHeader(last, RleBlock, Len(block)) \o <<block[1]>>, state |-> Unchanged(state, parsed)]
       ELSE IF coded.bytes = <<>> THEN [bytes |-> stored, state |-> Unchanged(state, parsed)]
       ELSE [bytes |-> BlockHeader(last, CodedBlock, Len(coded.bytes)) \o coded.bytes,
             state |-> [finder |-> parsed.f, reps |-> parsed.reps, entropy |-> coded.entropy]]
RECURSIVE PutBlocks(_, _, _, _, _, _, _)
PutBlocks(state, src, start, blockSize, prefer, room, out) ==
    LET end == Least(Len(src), start + blockSize)
        put == PutBlock(state, src, start, end, prefer, room - Len(out))
    IN IF start >= Len(src) THEN out
       ELSE IF room - Len(out) < 6 THEN Corrupt
       ELSE IF put.bytes = Corrupt THEN Corrupt
       ELSE PutBlocks(put.state, src, end, blockSize, prefer, room, out \o put.bytes)
Compress(src, p, prefer, room) ==
    LET blockSize == Least(BlockMax, Least(2^p.windowLog, Len(src)))
    IN IF src = <<>> \/ room < 18 THEN Corrupt
       ELSE PutBlocks(NewState(p), src, 0, blockSize, prefer, room, WriteHeader(p.windowLog, Len(src)))
CompressBound(size) == size + size \div 256 + (IF size < 131072 THEN (131072 - size) \div 2048 ELSE 0)

-----------------------------------------------------------------------------
(* The frame read (frame_header.rs, frame.rs).                              *)
Unknown == -1
DictIdBytes == <<0, 1, 2, 4>>
ContentSizeBytes == <<0, 2, 4, 8>>
Single1(descriptor) == (descriptor \div 32) % 2 = 1
HeaderSize(descriptor) ==
    5 + (IF Single1(descriptor) THEN (IF descriptor < 64 THEN 1 ELSE 0) ELSE 1)
    + DictIdBytes[1 + (descriptor % 4)] + ContentSizeBytes[1 + (descriptor \div 64)]
LeAt(src, at, n) == FieldAt(src, 8 * at, 8 * n)

ReadFrameHeader(src) ==
    LET d == src[5]
        dictAt == IF Single1(d) THEN 5 ELSE 6
        sizeAt == dictAt + DictIdBytes[1 + (d % 4)]
        log == src[6] \div 8 + WindowLogMin
        window == 2^log + (2^log \div 8) * (src[6] % 8)
        content == IF d < 64 THEN (IF Single1(d) THEN src[sizeAt + 1] ELSE Unknown)
                   ELSE IF d < 128 THEN LeAt(src, sizeAt, 2) + 256
                   ELSE LeAt(src, sizeAt, ContentSizeBytes[1 + (d \div 64)])
    IN IF Len(src) < 5 \/ SubSeq(src, 1, 4) # Magic THEN Corrupt
       ELSE IF Len(src) < HeaderSize(d) \/ (d \div 8) % 2 = 1 THEN Corrupt
       ELSE IF ~Single1(d) /\ log > 31 THEN Corrupt
       ELSE [content |-> content, window |-> IF Single1(d) THEN content ELSE window,
             dict |-> LeAt(src, dictAt, DictIdBytes[1 + (d % 4)]), checksum |-> (d \div 4) % 2 = 1]
IsSkippable(src) == src[1] \div 16 = 5 /\ SubSeq(src, 2, 4) = <<42, 77, 24>>
ContentSize(src) ==
    IF Len(src) < 5 THEN Corrupt
    ELSE IF SubSeq(src, 1, 4) # Magic THEN IF IsSkippable(src) /\ Len(src) >= 8 THEN 0 ELSE Corrupt
    ELSE LET h == ReadFrameHeader(src) IN IF h = Corrupt THEN Corrupt ELSE h.content

Checksum(out) == Bytes(SumOf(out, DOMAIN out), 4)

\* x is the output, how far it is written, and what the frame keeps.
RECURSIVE ReadBlocks(_, _, _)
ReadBlocks(src, ip, x) ==
    LET word == LeAt(src, ip, 3)
        kind == (word \div 2) % 4
        size == word \div 8
        taken == IF kind = RleBlock THEN 1 ELSE size
        body == SubSeq(src, ip + 4, ip + 3 + taken)
        wrote == IF kind = CodedBlock THEN DecodeBlock(x.frame, x.out, x.op, body)
                 ELSE [x EXCEPT !.op = @ + size,
                                !.out = CopyIn(@, x.op, [i \in 1..size |-> IF kind = RawBlock THEN body[i] ELSE body[1]], 0, size)]
    IN IF Len(src) - ip < 3 THEN Corrupt
       ELSE IF kind = 3 \/ taken > Len(src) - ip - 3 THEN Corrupt
       ELSE IF kind # CodedBlock /\ size > Len(x.out) - x.op THEN Corrupt
       ELSE IF wrote = Corrupt THEN Corrupt
       ELSE IF word % 2 = 1 THEN [x |-> wrote, ip |-> ip + 3 + taken]
       ELSE ReadBlocks(src, ip + 3 + taken, wrote)

NewFrame(blockMax) ==
    [blockMax |-> blockMax, tree |-> <<>>, repeatable |-> FALSE, sequenced |-> FALSE,
     tables |-> Defaults, repeats |-> <<1, 4, 8>>]
\* The output is the buffer left to the frame; its answer what it wrote.
ReadFrame(out, src) ==
    LET size == HeaderSize(src[5])
        header == ReadFrameHeader(SubSeq(src, 1, size))
        read == ReadBlocks(src, size, [out |-> out, op |-> 0, frame |-> NewFrame(Least(header.window, BlockMax))])
        whole == SubSeq(read.x.out, 1, read.x.op)
        summed == Len(src) - read.ip >= 4 /\ SubSeq(src, read.ip + 1, read.ip + 4) = Checksum(whole)
    IN IF Len(src) < 9 THEN Corrupt
       ELSE IF Len(src) < size + 3 THEN Corrupt
       ELSE IF header = Corrupt THEN Corrupt
       ELSE IF header.dict # 0 THEN Corrupt
       ELSE IF read = Corrupt THEN Corrupt
       ELSE IF header.content # Unknown /\ read.x.op # header.content THEN Corrupt
       ELSE IF header.checksum /\ ~summed THEN Corrupt
       ELSE [out |-> whole, taken |-> read.ip + (IF header.checksum THEN 4 ELSE 0)]

\* Every frame of src one after another, skippable ones skipped.
RECURSIVE Decompress(_, _, _)
Decompress(src, capacity, done) ==
    LET skip == 8 + LeAt(src, 4, 4)
        one == ReadFrame(Blank(capacity - Len(done)), src)
    IN IF Len(src) < 5 THEN IF src = <<>> THEN done ELSE Corrupt
       ELSE IF IsSkippable(src)
       THEN IF Len(src) < 8 THEN Corrupt
            ELSE IF skip > Len(src) THEN Corrupt ELSE Decompress(From(src, skip), capacity, done)
       ELSE IF one = Corrupt THEN Corrupt
       ELSE Decompress(From(src, one.taken), capacity, done \o one.out)
=============================================================================
