------------------------------ MODULE SoundDecode ------------------------------
(***************************************************************************)
(* Where a sound starts, from its file (audio/start.rs): the frames an     *)
(* encoder put before it and how many follow.  A movie says it in its edit *)
(* list, or else in the note iTunes leaves; one that says nothing takes    *)
(* the standard of AAC, unless Media Foundation wrote it.                  *)
(*                                                                         *)
(* A movie is its boxes, in order: [kind, whole, kids, says], whole when   *)
(* its size fits where it is.  A bare stream is the box of its first       *)
(* bytes.  says holds the fields its own reader reads, or None.            *)
(*                                                                         *)
(* And the decoders, each handing back a block of frames at a time:        *)
(* a movie's uncompressed sound through its sample table (movie_pcm.rs),   *)
(* the WAVs read here (wav_family.rs), both through one reader of frames   *)
(* (convert.rs), and the bundled decoders' packets, each kept in its place *)
(* whatever its rate, its channels or its damage (bundled.rs).             *)
(*                                                                         *)
(* A frame of a file is the byte it starts at; one of a packet is its      *)
(* packet and its place there.                                             *)
(***************************************************************************)
EXTENDS Resample, Sequences, SequencesExt, FiniteSetsExt, Bitwise

CONSTANTS
    None,
    Capacity,  \* the most frames a read lands at once
    Half       \* half of the conversion's filter

MP3StandardLead == 1105
AACStandardLead == 1024

-----------------------------------------------------------------------------
(* Boxes.  A walk ends at the first that is not whole.                      *)
Walk(boxes) ==
    LET broken == {k \in DOMAIN boxes : ~boxes[k].whole}
    IN IF broken = {} THEN boxes ELSE SubSeq(boxes, 1, (CHOOSE k \in broken : \A j \in broken : k <= j) - 1)

NoBox == [kind |-> "none", whole |-> FALSE, kids |-> <<>>, says |-> None]
FirstOf(found) == Head(found \o <<NoBox>>)
Find(boxes, kind) == LET Is(b) == b.kind = kind IN FirstOf(SelectSeq(Walk(boxes), Is))
Found(box) == box.kind # "none"
\* A box down a path of kinds.
FindIn(boxes, path) ==
    FoldLeft(LAMBDA at, kind : IF Found(at) THEN Find(at.kids, kind) ELSE at,
             [NoBox EXCEPT !.kind = "file", !.kids = boxes], path)

TicksToFrames(value, scale, rate) == (2 * value * rate + scale) \div (2 * scale)
TimeScale(header) == IF Found(header) /\ header.says # None THEN header.says ELSE 0

MovieHeads == {"ftyp", "moov", "mdat", "wide", "free", "skip", "pnot"}
OtherHeads == {"RIFF", "RIFX", "RF64", "riff", "FORM", "fLaC", "OggS"}
HeadOf(file) == IF file = <<>> THEN "none" ELSE file[1].kind
HeadIsAMovieBox(file) == HeadOf(file) \in MovieHeads

\* The first bytes behind an ID3 tag, or the file's own.
PastID3(file) == IF HeadOf(file) = "ID3" THEN Tail(file) ELSE file
IsADTS(file) == HeadOf(PastID3(file)) = "adts"

-----------------------------------------------------------------------------
(* A movie's first sound track, or None.                                    *)
IsSound(trak) ==
    /\ trak.kind = "trak"
    /\ FindIn(trak.kids, <<"mdia", "hdlr">>).says = "soun"
    /\ Found(FindIn(trak.kids, <<"mdia", "minf", "stbl">>))
FirstSound(file) ==
    LET moov == Find(file, "moov")
        mvhd == Find(moov.kids, "mvhd")
        trak == FirstOf(SelectSeq(Walk(moov.kids), IsSound))
    IN IF ~Found(moov) \/ ~Found(mvhd) \/ ~Found(trak) THEN None
       ELSE [moov |-> moov, trak |-> trak, minf |-> FindIn(trak.kids, <<"mdia", "minf">>),
             stbl |-> FindIn(trak.kids, <<"mdia", "minf", "stbl">>),
             movieScale |-> TimeScale(mvhd),
             mediaScale |-> TimeScale(FindIn(trak.kids, <<"mdia", "mdhd">>))]

\* (Mutant: the first edit, whatever it plays.)
FirstEdit(sound, rate) ==
    LET elst == FindIn(sound.trak.kids, <<"edts", "elst">>)
    IN IF ~Found(elst) \/ elst.says \in {None, <<>>} \/ ~elst.says[1].whole \/ sound.movieScale = 0 \/ sound.mediaScale = 0 THEN None
       ELSE [lead |-> TicksToFrames(elst.says[1].time, sound.mediaScale, rate),
             keep |-> IF elst.says[1].duration > 0 THEN TicksToFrames(elst.says[1].duration, sound.movieScale, rate) ELSE -1]
\* The first edit that plays media; one cut short before it says nothing.
SoundEdit(sound, rate) ==
    LET elst == FindIn(sound.trak.kids, <<"edts", "elst">>)
        plays == IF Found(elst) /\ elst.says # None THEN SelectSeq(elst.says, LAMBDA e : ~e.whole \/ e.time >= 0) ELSE <<>>
    IN IF sound.movieScale = 0 \/ sound.mediaScale = 0 \/ plays = <<>> \/ ~plays[1].whole THEN None
       ELSE [lead |-> TicksToFrames(plays[1].time, sound.mediaScale, rate),
             keep |-> IF plays[1].duration > 0 THEN TicksToFrames(plays[1].duration, sound.movieScale, rate) ELSE -1]

\* The item named iTunSMPB that has its data: four words of hexadecimal.
ITunesNote(sound) ==
    LET ilst == FindIn(sound.moov.kids, <<"udta", "meta", "ilst">>)
        IsNote(item) == Find(item.kids, "name").says = "iTunSMPB" /\ Found(Find(item.kids, "data"))
        note == FirstOf(SelectSeq(Walk(ilst.kids), IsNote))
        words == Find(note.kids, "data").says
    IN IF ~Found(note) \/ words = None \/ \E k \in 1..4 : words[k] < 0 THEN None
       ELSE [lead |-> words[2], keep |-> IF words[4] > 0 THEN words[4] ELSE -1]

SoundIsAAC(sound) == Find(sound.stbl.kids, "stsd").says = "mp4a"
WrittenByMediaFoundation(file) == \E k \in DOMAIN Walk(file) : file[k].kind = "uuid" /\ file[k].says = "mark"

\* What the file says into start, for a decoder that does not say it itself.
ContainerStart(file, rate, start) ==
    LET sound == FirstSound(file)
        edit == SoundEdit(sound, rate)
        said == IF edit # None THEN edit ELSE ITunesNote(sound)
    IN IF HeadIsAMovieBox(file)
       THEN IF sound = None THEN start
            ELSE IF said # None THEN said
            ELSE IF ~WrittenByMediaFoundation(file) /\ SoundIsAAC(sound)
                 THEN [start EXCEPT !.lead = AACStandardLead] ELSE start
       ELSE IF IsADTS(file) THEN [start EXCEPT !.lead = AACStandardLead] ELSE start

\* An MP3's own: its tag's delay or the standard, and the frames a tag counts.
MP3Start(delay, frames) ==
    LET lead == IF delay = None THEN MP3StandardLead ELSE delay
        whole == frames + (IF delay = None THEN 0 ELSE delay) - lead
    IN [lead |-> lead, keep |-> IF frames = None THEN -1 ELSE IF whole < 0 THEN 0 ELSE whole]

-----------------------------------------------------------------------------
(* Frames read from a file: fewer where it is cut short, and then as many   *)
(* as its bytes hold whole.                                                 *)
\* (Mutant: a frame cut short is one.)
WholeAndMore(size, at, frames, frameBytes) ==
    IF at < 0 \/ at >= size THEN 0
    ELSE (Least(frames * frameBytes, size - at) + frameBytes - 1) \div frameBytes
Whole(size, at, frames, frameBytes) ==
    IF at < 0 \/ at >= size THEN 0
    ELSE Least(frames * frameBytes, size - at) \div frameBytes
FramesAt(at, count, frameBytes) == [k \in 1..count |-> at + (k - 1) * frameBytes]

\* G.711's bytes as the 16-bit samples they stand for.
\* (Mutant: the segments from the second on as steep as the first.)
ALawUnshifted(byte) ==
    LET b == byte ^^ 85 step == (b % 16) * 16 IN IF b >= 128 THEN step + 8 ELSE -step - 8
ALaw(byte) ==
    LET b == byte ^^ 85 segment == (b % 128) \div 16 step == (b % 16) * 16
        magnitude == IF segment = 0 THEN step + 8 ELSE (step + 264) * 2^(segment - 1)
    IN IF b >= 128 THEN magnitude ELSE -magnitude
MuLaw(byte) ==
    LET b == 255 - byte biased == ((b % 16) * 8 + 132) * 2^((b % 128) \div 16)
    IN IF b >= 128 THEN 132 - biased ELSE biased - 132
\* A whole number of the sample's bytes, in either order, signed.
RECURSIVE Little(_)
Little(bytes) == IF bytes = <<>> THEN 0 ELSE Head(bytes) + 256 * Little(Tail(bytes))
Signed(bytes, bigEndian) ==
    LET value == Little(IF bigEndian THEN Reverse(bytes) ELSE bytes)
    IN IF value >= 2^(8 * Len(bytes) - 1) THEN value - 2^(8 * Len(bytes)) ELSE value

-----------------------------------------------------------------------------
(* A table of a movie, read a batch at a time: table t holds t.entries, of  *)
(* which the file reads the first t.reads, fit entries to a batch.          *)
OpenTable(entries, reads, fit) ==
    [entries |-> entries, reads |-> reads, fit |-> fit, first |-> 0, held |-> 0, batch |-> <<>>]
InBatch(t, index) == t.first <= index /\ index - t.first < t.held
Batch(t, index) ==
    LET take == Least(Len(t.entries) - index, t.fit)
    IN IF index + take > t.reads THEN [t EXCEPT !.held = 0]
       ELSE [t EXCEPT !.first = index, !.held = take, !.batch = SubSeq(t.entries, index + 1, index + take)]
\* The table with entry index in its batch, where it is there and reads.
Fetched(t, index) == IF InBatch(t, index) THEN t ELSE Batch(t, index)
Entry(t, index) ==
    IF index >= Len(t.entries) THEN None
    ELSE LET got == Fetched(t, index) IN IF got.held = 0 THEN None ELSE got.batch[index - got.first + 1]

-----------------------------------------------------------------------------
(* A movie's sound: movie is [offsets, runs : tables, frames : the size     *)
(* table's count, frameBytes, size : the file's].                           *)
NewMoviePcm(movie) ==
    [offsets |-> movie.offsets, runs |-> movie.runs, run |-> -1, runFrames |-> 0, nextRunChunk |-> 0,
     begun |-> 0, at |-> 0, chunkFrames |-> 0, left |-> movie.frames]

Never == 1000000
\* The run that chunk number is in, or None where its table does not read.
RECURSIVE RunFor(_, _)
RunFor(m, number) ==
    LET run == Entry(m.runs, m.run + 1)
        runs == Fetched(m.runs, m.run + 1)
        last == m.run + 2 >= Len(m.runs.entries)
        next == IF last THEN Never ELSE Entry(runs, m.run + 2)
        after == IF last THEN runs ELSE Fetched(runs, m.run + 2)
    IN IF number < m.nextRunChunk THEN m
       ELSE IF run = None \/ next = None THEN None
       ELSE RunFor([m EXCEPT !.run = @ + 1, !.runs = after, !.runFrames = run.frames,
                             !.nextRunChunk = IF last THEN Never ELSE next.first], number)
\* The next chunk begun, or None.
NextChunk(m) ==
    LET at == RunFor(m, m.begun + 1)
        offset == Entry(m.offsets, m.begun)
    IN IF m.begun >= Len(m.offsets.entries) \/ at = None \/ offset = None THEN None
       ELSE [at EXCEPT !.offsets = Fetched(m.offsets, m.begun), !.at = offset,
                       !.chunkFrames = at.runFrames, !.begun = @ + 1]
\* A chunk with frames, past those with none; None at the last.
RECURSIVE ChunkWithFrames(_)
ChunkWithFrames(m) ==
    IF m = None \/ m.chunkFrames > 0 THEN m ELSE ChunkWithFrames(NextChunk(m))

\* One block: [block, m].  A movie cut short ends where its bytes do.
NextOfMovie(movie, m0) ==
    LET m == IF m0.left = 0 THEN None ELSE ChunkWithFrames(m0)
        frames == Least(Least(m.chunkFrames, Capacity), m.left)
        got == Whole(movie.size, m.at, frames, movie.frameBytes)
    IN IF m = None THEN [block |-> <<>>, m |-> m0]
       ELSE [block |-> FramesAt(m.at, got, movie.frameBytes),
             m |-> [m EXCEPT !.at = @ + got * movie.frameBytes, !.chunkFrames = @ - got,
                             !.left = IF got < frames THEN 0 ELSE @ - got]]
RECURSIVE MovieFrom(_, _)
MovieFrom(movie, m) ==
    LET next == NextOfMovie(movie, m)
    IN IF next.block = <<>> THEN <<>> ELSE next.block \o MovieFrom(movie, next.m)
MovieSound(movie) == MovieFrom(movie, NewMoviePcm(movie))

-----------------------------------------------------------------------------
(* A WAV read here: its chunks in order, [name, size, at, says], size as    *)
(* the chunk says it; the walk ends at the file's end or at its data.       *)
AllOnes == 65535   \* 2^32 - 1 in the file
ChunksOf(wav) ==
    LET datas == {k \in DOMAIN wav.chunks : wav.chunks[k].name = "data"}
    IN IF datas = {} THEN wav.chunks ELSE SubSeq(wav.chunks, 1, Min(datas))
LastOf(chunks, name) ==
    LET of == {k \in DOMAIN chunks : chunks[k].name = name} IN IF of = {} THEN None ELSE chunks[Max(of)]
\* The bytes of sound: an RF64's data says all ones, and its ds64 the size.
\* (Mutant: the data's word taken.)
DataSizeSaid(wav) == LastOf(ChunksOf(wav), "data").size
DataSize(wav) ==
    LET chunks == ChunksOf(wav) data == LastOf(chunks, "data") ds64 == LastOf(chunks, "ds64")
    IN IF ds64 # None /\ wav.family = "RF64" /\ data.size = AllOnes THEN ds64.says ELSE data.size
SampleKind(tag, bytes) ==
    CASE tag = 1 -> IF bytes = 1 THEN "unsigned" ELSE "signed"
      [] tag = 3 -> "float" [] tag = 6 -> "alaw" [] tag = 7 -> "mulaw" [] OTHER -> None
Readable(kind, bytes) ==
    \/ kind \in {"unsigned", "alaw", "mulaw"} /\ bytes = 1
    \/ kind = "signed" /\ bytes \in 1..4
    \/ kind = "float" /\ bytes \in {4, 8}
\* dr_wav's frame: the bits' bytes when they are whole, else the block's.
FrameBytes(f) == IF f.bits % 8 = 0 THEN (f.bits \div 8) * f.channels ELSE f.block
OpenWav(wav) ==
    LET format == LastOf(ChunksOf(wav), "fmt ") f == format.says
    IN IF format = None \/ LastOf(ChunksOf(wav), "data") = None THEN None
       ELSE IF format.size < 16 \/ f.channels = 0 \/ f.rate = 0 \/ FrameBytes(f) = 0 \/ FrameBytes(f) % f.channels # 0 THEN None
       ELSE IF ~Readable(SampleKind(f.tag, FrameBytes(f) \div f.channels), FrameBytes(f) \div f.channels) THEN None
       ELSE [at |-> LastOf(ChunksOf(wav), "data").at, left |-> DataSize(wav) \div FrameBytes(f), frameBytes |-> FrameBytes(f)]
RECURSIVE WavFrom(_, _)
WavFrom(wav, w) ==
    LET frames == Least(w.left, Capacity)
        got == Whole(wav.size, w.at, frames, w.frameBytes)
    IN IF got = 0 THEN <<>>
       ELSE FramesAt(w.at, got, w.frameBytes)
            \o WavFrom(wav, [w EXCEPT !.left = IF got < frames THEN 0 ELSE @ - got, !.at = @ + got * w.frameBytes])

-----------------------------------------------------------------------------
(* What a movie says of its uncompressed sound before any is read: its      *)
(* sample description, its data references, its time table.  A description  *)
(* is [kind, have, version, channels, rate, bits, flags, packet, enda,      *)
(* reference]: the bytes it has, the flags and the packet of a version 2,   *)
(* and where an `enda' is found ("own", "wave") and what it says.           *)

\* How a format stores a sample: the bytes (0: the bits say), and the order
\* (None: big unless an enda says little).
Formats ==
  [twos |-> [kind |-> "signed", bytes |-> 0, big |-> TRUE],
   sowt |-> [kind |-> "signed", bytes |-> 0, big |-> FALSE],
   raw  |-> [kind |-> "unsigned", bytes |-> 1, big |-> FALSE],
   in24 |-> [kind |-> "signed", bytes |-> 3, big |-> None],
   in32 |-> [kind |-> "signed", bytes |-> 4, big |-> None],
   fl32 |-> [kind |-> "float", bytes |-> 4, big |-> None],
   fl64 |-> [kind |-> "float", bytes |-> 8, big |-> None]]

\* An enda of the description's own, else one in its wave.
SaysLittle(d) == d.enda.at \in {"own", "wave"} /\ d.enda.value = 1

\* Channels and rate, where the version's own fields are there and say any.
Fields(d) ==
  CASE d.have < 28 -> None
    [] d.have >= 64 /\ d.version = 2 ->
         IF d.rate >= 1 /\ d.channels \in 1 .. 65535
         THEN [channels |-> d.channels, rate |-> d.rate, flags |-> d.flags] ELSE None
    [] d.have >= 28 /\ (d.version = 0 \/ (d.version = 1 /\ d.have >= 44)) ->
         IF d.channels # 0 /\ d.rate # 0
         THEN [channels |-> d.channels, rate |-> d.rate, flags |-> {}] ELSE None
    [] OTHER -> None

Named(d) ==
  LET f == Formats[d.kind]
  IN  IF (f.bytes = 1 /\ d.bits # 8) \/ (f.bytes = 0 /\ d.bits % 8 # 0) THEN None
      ELSE [kind |-> f.kind, sample_bytes |-> IF f.bytes # 0 THEN f.bytes ELSE d.bits \div 8,
            big_endian |-> IF f.big = None THEN ~SaysLittle(d) ELSE f.big]

\* mutant: a packet of any size is a frame
PacketIsAny(d) == TRUE

\* A packet is one frame of the samples packed, or it is not read.
PacketIsAFrame(d) == d.packet = d.channels * (d.bits \div 8)

ByFlags(d) ==
  IF "planar" \in d.flags \/ d.bits % 8 # 0 \/ ~PacketIsAFrame(d) THEN None
  ELSE [kind |-> IF "float" \in d.flags THEN "float" ELSE IF "signed" \in d.flags THEN "signed" ELSE "unsigned",
        sample_bytes |-> d.bits \div 8, big_endian |-> "big" \in d.flags]

Describe(d) ==
  LET fields == Fields(d)
      pcm == IF d.kind \in DOMAIN Formats THEN Named(d)
             ELSE IF d.kind = "lpcm" /\ d.version = 2 THEN ByFlags(d) ELSE None
  IN  IF fields = None \/ pcm = None THEN None
      ELSE IF ~Readable(pcm.kind, pcm.sample_bytes) THEN None
      ELSE [pcm |-> pcm, channels |-> fields.channels, rate |-> fields.rate, reference |-> d.reference]

\* mutant: the first reference is the one that is asked
FirstHolds(references, index) == references = None \/ (references # <<>> /\ references[1].self)

\* With no references at all the movie holds its sound; else the one named,
\* counted from 1, must be there, have its flags, and say so.
HoldsItsSound(references, index) ==
  \/ references = None
  \/ references # None /\ index \in DOMAIN references /\ references[index].self

\* Every sample lasts one frame of the media's clock.
SamplesAreFrames(times, scale, rate) == \A i \in DOMAIN times : times[i] * rate = scale

\* The sound is read where its one description, its references and its time
\* table all say it is what this reads.
Opens(movie) ==
  LET d == Describe(movie.entry)
  IN  IF Len(movie.entries) # 1 \/ d = None THEN None
      ELSE IF HoldsItsSound(movie.references, d.reference) /\ SamplesAreFrames(movie.times, movie.scale, d.rate)
           THEN d ELSE None

\* A sound that is read is not noise: its bytes are this file's, a frame of
\* them is what its description says a packet is, and in the order it says;
\* its times say the frames come at its rate.
ReadIsNotNoise(movie) ==
  LET d == Opens(movie)
      e == movie.entry
  IN  d # None =>
        /\ movie.references # None => /\ d.reference \in DOMAIN movie.references
                                      /\ movie.references[d.reference].self
        /\ e.kind = "lpcm" => /\ d.channels * d.pcm.sample_bytes = e.packet
                              /\ d.pcm.big_endian = ("big" \in e.flags)
        /\ e.kind \in {"in24", "in32", "fl32", "fl64"} => (d.pcm.big_endian <=> ~SaysLittle(e))
        /\ d.channels * d.pcm.sample_bytes > 0 /\ d.rate > 0
        /\ \A i \in DOMAIN movie.times : movie.times[i] > 0 => movie.scale >= d.rate

-----------------------------------------------------------------------------
(* The bundled decoders.  A packet is [track, reads, rate, channels,        *)
(* frames, room, strange]: whether it reads at all, whether the memory has  *)
(* room for its conversion, and whether it is read as samples no reader of  *)
(* these files hands, unsigned ones wider than a byte.  A decoder refuses a piece of other channels or      *)
(* another rate than the first it read: it is known by that first.          *)
Refuses(decoder, p) == ~p.reads \/ (decoder # None /\ decoder # <<p.rate, p.channels>>)
DesignTo(rate, to) == [inter |-> Ratio(rate, to).inter, deci |-> Ratio(rate, to).deci, half |-> Half]
Fits(own, channels) == own = channels \/ (own = 1 /\ channels = 2)

Quiet(frames) == [k \in 1..frames |-> "quiet"]
FramesLasting(p, base, rate) == IF base = None THEN p.frames ELSE (p.frames * base.numer * rate) \div base.denom

\* What a run hands over when pulled with room for all that is ready.
Pull(b, other) ==
    LET d == DesignTo(other.rate, b.rate) n == Ready(d, other.r)
    IN [block |-> [k \in 1..n |-> <<other.from, other.r.next + k - 1>>],
        other |-> [other EXCEPT !.r = Pulled(d, other.r, n)]]
\* What the run in force still holds, the run over.
RunEnd(b) == IF b.other = None THEN <<>> ELSE Pull(b, [b.other EXCEPT !.r = Ended(@)]).block
AfterRun(b, block) == [block |-> RunEnd(b) \o block, b |-> [b EXCEPT !.other = None]]

\* A piece at another rate, by the run of pieces at it; `from` names the run.
\* (Mutant: each piece converted by itself.)
SameRunNever(b, p) == FALSE
SameRun(b, p) == b.other # None /\ b.other.rate = p.rate
Convert(b, p, from) ==
    LET tail == IF SameRun(b, p) THEN <<>> ELSE RunEnd(b)
        other == IF SameRun(b, p) THEN b.other ELSE [rate |-> p.rate, from |-> from, r |-> NewResampler]
        d == DesignTo(p.rate, b.rate)
        fed == Pull(b, [other EXCEPT !.r = Pushed(d, @, p.frames)])
    IN IF p.room THEN [block |-> tail \o fed.block, b |-> [b EXCEPT !.other = fed.other]]
       ELSE [block |-> tail \o Quiet(ResampleFrames(p.frames, p.rate, b.rate)),
             b |-> [b EXCEPT !.other = [other EXCEPT !.r = LetGo(d, @)]]]

\* A piece of strange samples ends the sound, and what a run still held is
\* not handed over.
EndsSound(p) == p.reads /\ p.strange

\* A decoded piece is in the sound's channels, or it is not read.
PieceReads(p, channels) == p.reads /\ ~p.strange /\ Fits(p.channels, channels)

\* A packet's frames: read by the decoder in hand, else by a new one that is
\* kept, else as many of silence.
Piece(b, p, from) ==
    LET read == PieceReads(p, b.channels)
        b1 == IF ~Refuses(b.decoder, p) \/ read THEN [b EXCEPT !.decoder = <<p.rate, p.channels>>] ELSE b
    IN IF EndsSound(p) THEN [block |-> <<>>, b |-> b1]
       ELSE IF ~read THEN AfterRun(b1, Quiet(FramesLasting(p, b.base, b.rate)))
       ELSE IF p.rate = b.rate THEN AfterRun(b1, [k \in 1..p.frames |-> <<from, k - 1>>])
       ELSE Convert(b1, p, from)
NewBundled(sound) ==
    [decoder |-> None, other |-> None, rate |-> sound.rate, channels |-> sound.channels, base |-> sound.base, at |-> 1]
\* Blocks until one holds frames: packets of another track are passed over.
RECURSIVE NextOfBundled(_, _)
NextOfBundled(sound, b) ==
    LET p == sound.packets[b.at]
        got == IF b.at > Len(sound.packets) THEN AfterRun(b, <<>>)
               ELSE IF p.track # 1 THEN [block |-> <<>>, b |-> [b EXCEPT !.at = @ + 1]]
               ELSE Piece([b EXCEPT !.at = @ + 1], p, b.at)
    IN IF got.block # <<>> \/ b.at > Len(sound.packets) \/ (p.track = 1 /\ EndsSound(p)) THEN got
       ELSE NextOfBundled(sound, got.b)
RECURSIVE BundledFrom(_, _)
BundledFrom(sound, b) ==
    LET got == NextOfBundled(sound, b)
    IN IF got.block = <<>> THEN <<>> ELSE got.block \o BundledFrom(sound, got.b)
\* MPEG audio that opens with one channel opens with two where any piece has two.
ChannelsOf(sound) ==
    IF sound.mpeg /\ sound.channels = 1 /\ \E k \in DOMAIN sound.packets : sound.packets[k].channels = 2 THEN 2
    ELSE sound.channels
BundledSound(sound) == BundledFrom([sound EXCEPT !.channels = ChannelsOf(sound)], NewBundled([sound EXCEPT !.channels = ChannelsOf(sound)]))
=============================================================================
