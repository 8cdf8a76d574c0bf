------------------------------- MODULE MediaSpan -------------------------------
(***************************************************************************)
(* A medium kept in a span of a file (media/span.rs), its bytes as they    *)
(* are or framed: a header, then blocks compressed one by one, of which    *)
(* the reader keeps the one decoded last.                                  *)
(*                                                                         *)
(* The medium's bytes are their positions in it; the bytes of a block are  *)
(* the block's number.  A stored block may not decode, and any read of the *)
(* file may fail.                                                          *)
(***************************************************************************)
EXTENDS Integers, Sequences, SequencesExt, FiniteSets

CONSTANTS
    Files,     \* files a span is opened in
    Asks,      \* spans asked for: offset, length, framed
    MaxBlock,  \* the most bytes a block decodes to
    MaxReads,  \* bound: reads of one span
    None

VARIABLES
    file,    \* [size, header : what a framed medium's header says, bad : its blocks that do not decode]
    span,    \* the open span, or None
    answer,  \* what the last read asked and answered
    reads    \* reads so far
spanVars == <<file, span, answer, reads>>

Prefix == 16

-----------------------------------------------------------------------------
(* Opening.                                                                 *)
CountOf(h) == (h.total + h.block - 1) \div h.block
HeaderLength(h) == Prefix + 4 * h.count
\* Where each block starts, and one past the last.
Starts(h) == [k \in 0..h.count |-> FoldLeft(LAMBDA at, j : at + j, HeaderLength(h), SubSeq(h.lengths, 1, k))]
\* A header holds together with the span it sits in.
HoldsTogether(h, length) ==
    /\ Prefix <= length
    /\ h.block \in 1..MaxBlock
    /\ h.count = CountOf(h)
    /\ HeaderLength(h) <= length
    /\ \A k \in 1..h.count : h.lengths[k] > 0 /\ Starts(h)[k] <= length

OpenSpan(ask) ==
    /\ span = None
    /\ ask.offset >= 0 /\ ask.length >= 0
    /\ ask.offset + ask.length <= file.size
    /\ ask.framed => HoldsTogether(file.header, ask.length)
    /\ span' = [stored |-> ask.length, framed |-> ask.framed,
                size |-> IF ask.framed THEN file.header.total ELSE ask.length,
                starts |-> IF ask.framed THEN Starts(file.header) ELSE <<>>,
                index |-> None, held |-> None, heldSize |-> 0, decoded |-> 0]
    /\ UNCHANGED <<file, answer, reads>>

-----------------------------------------------------------------------------
(* Reading.                                                                 *)
ReadsStored(s, at, count) == at >= 0 /\ at + count <= s.stored

\* While a block is decoded the cache has none.  (Mutant: it keeps its name.)
KeepsName(s) == s
Unnamed(s) == [s EXCEPT !.index = None]
\* Block index decoded: the outcome of the file's read is `lands`.  What a bad
\* block decoded to is in the buffer.
DecodeBlock(s, index, lands) ==
    LET h == file.header
        expected == IF index = h.count - 1 THEN s.size - h.block * index ELSE h.block
        stored == s.starts[index + 1] - s.starts[index]
    IN IF ~ReadsStored(s, s.starts[index], stored) \/ ~lands THEN [ok |-> FALSE, span |-> Unnamed(s)]
       ELSE IF index \in file.bad THEN [ok |-> FALSE, span |-> [Unnamed(s) EXCEPT !.held = index]]
       ELSE [ok |-> TRUE, span |-> [s EXCEPT !.index = index, !.held = index, !.heldSize = expected, !.decoded = @ + 1]]
LoadBlock(s, index, lands) ==
    IF s.index = index THEN [ok |-> TRUE, span |-> s] ELSE DecodeBlock(s, index, lands)

\* The loop of a framed read: a block's part at a time, none after a failure.
TakeFrom(position, want, failing, acc, index) ==
    LET loaded == LoadBlock(acc.span, index, index \notin failing)
        at == position + Len(acc.bytes)
        from == at - index * file.header.block
        most == loaded.span.heldSize - from
        take == IF most < want - Len(acc.bytes) THEN most ELSE want - Len(acc.bytes)
    IN IF ~acc.ok THEN acc
       ELSE IF ~loaded.ok THEN [acc EXCEPT !.ok = FALSE, !.span = loaded.span]
       ELSE [ok |-> TRUE, span |-> loaded.span,
             bytes |-> acc.bytes \o [j \in 1..take |-> loaded.span.held * file.header.block + from + j - 1]]
BlocksOf(position, want) ==
    IF ~span.framed \/ want = 0 THEN <<>> ELSE
    LET first == position \div file.header.block
        last == (position + want - 1) \div file.header.block
    IN [j \in 1..last - first + 1 |-> first + j - 1]
FramedRead(position, want, failing) ==
    FoldLeft(LAMBDA acc, index : TakeFrom(position, want, failing, acc, index),
             [ok |-> TRUE, span |-> span, bytes |-> <<>>], BlocksOf(position, want))

\* What is asked past the end is cut, and nothing read of nothing.
WantOf(position, room) ==
    IF position < 0 \/ room = 0 \/ position >= span.size THEN 0
    ELSE IF room < span.size - position THEN room ELSE span.size - position
Answered(position, room, bytes) == answer' = [position |-> position, room |-> room, bytes |-> bytes]

ReadNothing(position, room) ==
    /\ WantOf(position, room) = 0
    /\ Answered(position, room, <<>>)
    /\ UNCHANGED span
ReadPlain(position, room, lands) ==
    /\ ~span.framed
    /\ WantOf(position, room) > 0
    /\ Answered(position, room, IF lands THEN [j \in 1..WantOf(position, room) |-> position + j - 1] ELSE None)
    /\ UNCHANGED span
ReadFramed(position, room, failing) ==
    /\ span.framed
    /\ WantOf(position, room) > 0
    /\ LET got == FramedRead(position, WantOf(position, room), failing)
       IN /\ Answered(position, room, IF got.ok THEN got.bytes ELSE None)
          /\ span' = got.span
CloseSpan == span # None /\ span' = None /\ reads' = 0 /\ answer' = None /\ UNCHANGED file

SpanInit == file \in Files /\ span = None /\ answer = None /\ reads = 0
ReadSpan ==
    /\ span # None
    /\ reads < MaxReads
    /\ reads' = reads + 1
    /\ UNCHANGED file
    /\ \E position \in -1..span.size, room \in 0..span.size :
          \/ ReadNothing(position, room)
          \/ \E lands \in BOOLEAN : ReadPlain(position, room, lands)
          \/ \E failing \in SUBSET Range(BlocksOf(position, room)) : ReadFramed(position, room, failing)
SpanNext == (\E ask \in Asks : OpenSpan(ask)) \/ ReadSpan \/ CloseSpan

-----------------------------------------------------------------------------
(* A read answers the medium's own bytes, or that it could not: never those *)
(* of another block, whatever reads failed before it (span.rs, read).       *)
ReadsTheMedium ==
    answer # None /\ answer.bytes # None =>
        answer.bytes = [j \in 1..WantOf(answer.position, answer.room) |-> answer.position + j - 1]

(* A read inside the block decoded last touches the file not at all, and a  *)
(* longer one decodes each block of it once at most (load_block).           *)
KeepsItsBlock ==
    [][span # None /\ span' # None /\ span.framed /\ answer' # answer /\ WantOf(answer'.position, answer'.room) > 0 =>
        LET touched == BlocksOf(answer'.position, WantOf(answer'.position, answer'.room))
        IN /\ span'.decoded - span.decoded <= Len(touched)
           /\ touched = <<span.index>> => span' = span /\ answer'.bytes # None]_spanVars
=============================================================================
