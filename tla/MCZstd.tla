------------------------------- MODULE MCZstd -------------------------------
(***************************************************************************)
(* The native zstd port on small inputs: what its encoder and its decoders *)
(* make of tables, trees, literal sections, blocks, parses and whole       *)
(* frames, and what must hold of each.                                     *)
(***************************************************************************)
EXTENDS ZstdFrame

-----------------------------------------------------------------------------
(* The inputs.                                                              *)

\* Histograms of up to four symbols, and one with a gap of nine.
Counts == [0..3 -> {0, 1, 5, 40}] \cup {[s \in 0..12 |-> IF s \in {0, 11, 12} THEN 30 ELSE 0]}
Coded(count) == {s \in DOMAIN count : count[s] > 0}
Tables ==
    {[kind |-> "table", count |-> c, log |-> l] :
        c \in {d \in Counts : Cardinality(Coded(d)) > 1 /\ d[Max(DOMAIN d)] > 0}, l \in {5, 6}}

\* Fibonacci counts grow the deepest tree there is; the others are flat.
Fibonacci == [s \in 0..11 |-> <<1, 1, 2, 3, 5, 8, 13, 21, 34, 55, 89, 144>>[s + 1]]
Trees ==
    {[kind |-> "tree", count |-> c, log |-> l] :
        c \in {Fibonacci, [s \in 0..11 |-> 1], [s \in 0..11 |-> 1 + 2^(s \div 2) * (s % 3)], [s \in 0..11 |-> IF s % 2 = 0 THEN 0 ELSE 3^s % 100]},
        l \in 4..11}

\* Bytes skewed towards the small ones.
Skewed(n, a, m) ==
    [i \in 1..n |-> LET v == (i * i * a + i \div 3 + (i \div 11) * (i % 7)) % 64
                    IN IF v < 24 THEN 0 ELSE IF v < 40 THEN 1 ELSE v % m]
Literals == {[kind |-> "literals", src |-> Skewed(n, a, m)] : n \in {70, 131}, a \in 1..2, m \in {3, 9}}

\* Sequences no parse of ours makes: every repeat, near and far, with and
\* without literals.
Blocks ==
    {[kind |-> "block",
      sequences |-> << [lit |-> 20, off |-> 9, ml |-> 2], [lit |-> l, off |-> o, ml |-> m], [lit |-> 0, off |-> 2, ml |-> 3] >>] :
        l \in {0, 3, 18}, o \in {1, 2, 3} \cup {3 + d : d \in {1, 2, 3, 5, 7, 8, 9, 16, 19}}, m \in {0, 8, 21}}

\* Bytes that repeat at a distance, drifting; noise; one byte; a far repeat.
Drifting(n, a, m) == [i \in 1..n |-> (((i - 1) % (7 * a + 4)) * m + (i \div 13) * 3) % (5 * m)]
Noise(n) == [i \in 1..n |-> (i * i * 7 + i * 31 + (i \div 5) * (i % 11)) % 251]
Same(n) == [i \in 1..n |-> 7]
Short ==
    {Drifting(n, 1, 5) : n \in {12, 64, 150}}
    \cup {Noise(100), Same(140), Noise(10) \o Same(150), Skewed(170, 1, 9), Skewed(66, 2, 5) \o Same(64)}
\* Past the window.
\* A block coded, one whose only match does not pay, and one at that match's distance.
Grain(n) == [i \in 1..n |-> (i * i * 11 + i * 47 + (i \div 3) * (i % 13)) % 253]
Unpaid == Drifting(128, 1, 5) \o SubSeq(Noise(128), 1, 11) \o SubSeq(Noise(128), 3, 7) \o SubSeq(Noise(128), 17, 128)
          \o Grain(9) \o Grain(9) \o Grain(9) \o Grain(9)
Long == {Unpaid, Noise(70) \o Noise(64) \o Noise(69) \o Drifting(64, 1, 5) \o Same(40), Skewed(100, 2, 5) \o Skewed(160, 1, 9)}
Rows == [windowLog |-> 6, chainLog |-> 5, hashLog |-> 6, searchLog |-> 4, minMatch |-> 4, tree |-> FALSE]
Tree == [Rows EXCEPT !.searchLog = 2, !.tree = TRUE]
Parses ==
    {[kind |-> "parse", src |-> s, cut |-> c, params |-> p] :
        s \in {Drifting(150, 1, 5), Noise(150), Noise(10) \o Same(70) \o Noise(70), Noise(70) \o Noise(80), Drifting(150, 2, 3)},
        c \in {50, 97}, p \in {Rows, Tree}}
Frames ==
    {[kind |-> "frame", src |-> s, prefer |-> p,
      params |-> [windowLog |-> 8, chainLog |-> 5, hashLog |-> 6, searchLog |-> 2, minMatch |-> 4, tree |-> t]] :
        s \in Short \cup Long, p \in {<<2, 3, 3>>, <<3, 2, 0>>}, t \in BOOLEAN}
    \cup {[kind |-> "frame", src |-> s, prefer |-> <<2, 3, 3>>, params |-> Params(Len(s))] : s \in Short}

-----------------------------------------------------------------------------
(* What the code makes of each.                                             *)
TableAnswer(ask) ==
    LET total == SumOf(ask.count, DOMAIN ask.count)
        norm == Normalize(ask.count, total, ask.log, FALSE)
        src == FlattenSeq([s \in 1..Cardinality(DOMAIN ask.count) |->
                              [k \in 1..Least(ask.count[s - 1], 9) |-> s - 1]])
        described == Describe(norm, ask.log)
    IN [norm |-> norm, size |-> Len(described), read |-> ReadCounts(described, 255), src |-> src,
        decoded |-> Decode(Code(src, EncodeTable(norm, ask.log), 400), Build(norm, ask.log), 400)]

TreeAnswer(ask) == BuildTable(ask.count, ask.log)

LiteralsAnswer(ask) ==
    LET src == ask.src
        n == Len(src)
        count == Histogram(src, Max({src[i] : i \in 1..n}))
        table == BuildTable(count, OptimalLog(LiteralsLog, n, Max(DOMAIN count), 1))
        read == ReadWeights(DescribeTree(table, 300))
        one == OneStream(src, table, 400)
        four == PutFour(src, table, 400)
        x1 == ReadX1(read)
        x2 == ReadX2(read)
    IN {Single(one, x1, n), Single(one, x2, n), FourPlain(four, x1, n), FourPlain(four, x2, n),
        FourStreams(four, x1, n), FourStreams(four, x2, n)}

FrameAnswer(ask) ==
    LET src == ask.src
        room == CompressBound(Len(src))
        frame == Once(Compress(src, ask.params, ask.prefer, room))
        read(f) == Decompress(f, Len(src), <<>>)
    IN [frame |-> frame, size |-> ContentSize(frame), read |-> read(frame),
        twice |-> Decompress(frame \o frame, 2 * Len(src), <<>>),
        cut |-> {read(SubSeq(frame, 1, Len(frame) - k)) : k \in {1, 4}}]

\* What a block's sequences say, a byte at a time.
RECURSIVE CopyOn(_, _, _)
CopyOn(out, distance, n) == IF n = 0 THEN out ELSE CopyOn(Append(out, out[Len(out) + 1 - distance]), distance, n - 1)
RECURSIVE Rebuilt(_, _, _, _)
Rebuilt(sequences, literals, out, reps) ==
    LET s == Head(sequences)
        which == s.off + (IF s.lit = 0 THEN 1 ELSE 0)
        distance == IF s.off > 3 THEN s.off - 3 ELSE IF which = 4 THEN reps[1] - 1 ELSE reps[which]
        next == IF s.off <= 3 /\ which = 1 THEN reps
                ELSE IF s.off <= 3 /\ which = 2 THEN <<distance, reps[1], reps[3]>>
                ELSE <<distance, reps[1], reps[2]>>
    IN IF sequences = <<>> THEN out \o literals
       ELSE Rebuilt(Tail(sequences), SubSeq(literals, s.lit + 1, Len(literals)),
                    CopyOn(out \o SubSeq(literals, 1, s.lit), distance, s.ml + 3), next)

BlockAnswer(ask) ==
    LET literals == [i \in 1..SumOf([i \in 1..3 |-> ask.sequences[i].lit], 1..3) + 2 |-> 40 + i]
        whole == Rebuilt(ask.sequences, literals, <<>>, <<1, 4, 8>>)
        coded == Once(CodeBlock([sequences |-> ask.sequences, literals |-> literals],
                                NewState(Rows).entropy, <<0, 0, 0>>, 200))
        read(room) == LET x == DecodeBlock(NewFrame(BlockMax), Blank(Len(whole) + room), 0, coded.bytes)
                      IN IF x = Corrupt THEN x ELSE SubSeq(x.out, 1, x.op)
    IN [whole |-> whole, tight |-> read(0), roomy |-> read(70)]

\* Each sequence with the distance it copies from, the repeats resolved: an
\* offset base of 1 is the last distance, or with no literals the one before.
RECURSIVE Copies(_, _, _, _)
Copies(sequences, at, o1, o2) ==
    LET s == Head(sequences)
        again == IF s.lit = 0 THEN o2 ELSE o1
        distance == IF s.off > 3 THEN s.off - 3 ELSE again
        start == at + s.lit
        next == start + s.ml + 3
    IN IF sequences = <<>> THEN {}
       ELSE {[start |-> start, length |-> s.ml + 3, distance |-> distance]}
            \cup Copies(Tail(sequences), next, distance, IF s.off > 3 \/ s.lit = 0 THEN o1 ELSE o2)

ParseAnswer(ask) ==
    LET src == ask.src
        entered(f, start) == Lazy!SkipLongMatch(Lazy!EnterBlock(f, start), start)
        half == ask.cut
        one == Lazy!Parse(entered(Lazy!NewFinder(ask.params), 0), src, 0, half, <<1, 4>>)
        two == Lazy!Parse(entered(one.f, half), src, half, Len(src), one.reps)
    IN [fresh |-> two.f.fresh,
        copies |-> Copies(one.sequences, 0, 1, 4)
                   \cup Copies(two.sequences, half, one.reps[1], one.reps[2])]

-----------------------------------------------------------------------------
(* A count scaled to a table fills it exactly, every symbol kept, and what  *)
(* the encoder describes and codes under it the decoder reads back.         *)
TableReadsBack(ask, answer) ==
    /\ SumOf([s \in DOMAIN answer.norm |-> Abs(answer.norm[s])], DOMAIN answer.norm) = 2^ask.log
    /\ \A s \in DOMAIN ask.count : (ask.count[s] > 0) = (answer.norm[s] # 0)
    /\ answer.read = [counts |-> answer.norm, log |-> ask.log, size |-> answer.size]
    /\ Len(answer.src) > 2 => answer.decoded = answer.src

(* A tree cut to a height is still whole: its codes fill the space exactly, *)
(* none longer than the height, one for every symbol counted, and no rarer  *)
(* symbol with a shorter code.                                              *)
TreeIsWhole(ask, answer) ==
    LET bits == answer.bits
        coded == Coded(ask.count)
    IN /\ answer.log <= ask.log
       /\ \A s \in DOMAIN bits : IF s \in coded THEN bits[s] \in 1..answer.log ELSE bits[s] = 0
       /\ SumOf([s \in coded |-> 2^(answer.log - bits[s])], coded) = 2^answer.log
       /\ \A s, t \in coded : ask.count[s] > ask.count[t] => bits[s] <= bits[t]

(* However a literal section is decoded - a symbol or two at a time, in one *)
(* stream or four, plainly or by the wide loop - its bytes come back.       *)
DecodersAgree(ask, answer) == answer = {ask.src}

(* The parser's matches copy what is there, from within the window, and no  *)
(* hash is taken from the cache for a position it was not computed at.      *)
MatchesHold(ask, answer) ==
    /\ answer.fresh
    /\ \A c \in answer.copies :
        /\ c.distance \in 1..Least(c.start, 2^ask.params.windowLog)
        /\ \A k \in 0..c.length - 1 :
            Lazy!ByteAt(ask.src, c.start + k) = Lazy!ByteAt(ask.src, c.start + k - c.distance)

(* A block's sequences copy what they say into a buffer that just holds it  *)
(* and into one with room for the wide copies, which leave nothing behind.  *)
BlockExecutes(answer) == answer.tight = answer.whole /\ answer.roomy = answer.whole

(* The bound is room enough for a frame, which states its content's size,   *)
(* reads back alone and behind another, and cut short is refused.           *)
FrameReadsBack(ask, answer) ==
    /\ answer.size = Len(ask.src)
    /\ answer.read = ask.src
    /\ answer.twice = ask.src \o ask.src
    /\ answer.cut = {Corrupt}

-----------------------------------------------------------------------------
Asks == Tables \cup Trees \cup Blocks \cup Literals \cup Parses \cup Frames
Holds(ask) ==
    CASE ask.kind = "table" -> TableReadsBack(ask, Once(TableAnswer(ask)))
      [] ask.kind = "tree" -> TreeIsWhole(ask, Once(TreeAnswer(ask)))
      [] ask.kind = "block" -> BlockExecutes(Once(BlockAnswer(ask)))
      [] ask.kind = "literals" -> DecodersAgree(ask, LiteralsAnswer(ask))
      [] ask.kind = "parse" -> MatchesHold(ask, Once(ParseAnswer(ask)))
      [] ask.kind = "frame" -> FrameReadsBack(ask, Once(FrameAnswer(ask)))
=============================================================================
