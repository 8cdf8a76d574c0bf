------------------------------- MODULE MCSound -------------------------------
(* Files and packets for SoundDecode, and what the sound read from each    *)
(* must be by what it was built to say.                                    *)
EXTENDS SoundDecode

-----------------------------------------------------------------------------
(* Movies built to say where their sound starts.                            *)
Box(kind, kids, says) == [kind |-> kind, whole |-> TRUE, kids |-> kids, says |-> says]
Junk == Box("junk", <<>>, None)
Broken == [Junk EXCEPT !.whole = FALSE]
At(i, place) == IF i.junk # place THEN <<>> ELSE IF i.broken THEN <<Broken>> ELSE <<Junk>>
Stbl(i) == Box("stbl", At(i, "stbl") \o <<Box("stsd", <<>>, IF i.aac THEN "mp4a" ELSE "sowt")>>, None)
Track(i, handler) ==
    Box("trak", At(i, "trak")
        \o (IF i.edit = None \/ handler # "soun" THEN <<>> ELSE <<Box("edts", <<Box("elst", <<>>, i.edit)>>, None)>>)
        \o <<Box("mdia", <<Box("hdlr", <<>>, handler), Box("mdhd", <<>>, i.scale), Box("minf", <<Stbl(i)>>, None)>>, None)>>, None)
Note(i) ==
    IF i.note = None THEN <<>>
    ELSE <<Box("udta", <<Box("meta", <<Box("ilst", <<Box("item", <<Box("name", <<>>, "other"), Box("data", <<>>, <<0, 7, 0, 7>>)>>, None),
            Box("item", <<Box("name", <<>>, "iTunSMPB"), Box("data", <<>>, i.note)>>, None)>>, None)>>, None)>>, None)>>
MovieOf(i) ==
    <<Box("ftyp", <<>>, None)>> \o (IF i.mark THEN <<Box("uuid", <<>>, "mark")>> ELSE <<>>)
    \o At(i, "top") \o <<Box("moov", <<Box("mvhd", <<>>, 12), Track(i, "vide")>> \o At(i, "moov")
                             \o <<Track(i, "soun")>> \o Note(i), None)>>
Edit(time, duration) == [time |-> time, duration |-> duration, whole |-> TRUE]
Cut == [Edit(0, 0) EXCEPT !.whole = FALSE]
Starts ==
    [edit : {None, <<Edit(0, 0)>>, <<Edit(-1, 5), Edit(25, 6)>>, <<Edit(-1, 5), Cut>>, <<Edit(-1, 5)>>},
     note : {None, <<0, 2112, 576, 40>>, <<0, 99, 0, 0>>, <<0, 99, -1, 5>>},
     aac : BOOLEAN, mark : BOOLEAN, scale : {0, 24}, junk : {"top", "moov", "trak", "stbl"}, broken : BOOLEAN]
Playing(i) == IF i.scale = 0 \/ i.edit = None THEN {} ELSE {k \in DOMAIN i.edit : i.edit[k].whole /\ i.edit[k].time >= 0}
SaidBy(i) ==
    IF i.broken /\ i.junk # "stbl" THEN [lead |-> 0, keep |-> -1]
    ELSE IF Playing(i) # {} THEN LET e == i.edit[Min(Playing(i))]
         IN [lead |-> e.time * 2, keep |-> IF e.duration = 0 THEN -1 ELSE e.duration * 4]
    ELSE IF i.note # None /\ (i.note = None \/ i.note[3] >= 0)
         THEN [lead |-> i.note[2], keep |-> IF i.note[4] = 0 THEN -1 ELSE i.note[4]]
    ELSE [lead |-> IF i.aac /\ ~i.mark /\ ~(i.broken /\ i.junk = "stbl") THEN AACStandardLead ELSE 0, keep |-> -1]

-----------------------------------------------------------------------------
(* Movies of chunks: offsets, runs of chunks, how many frames the size      *)
(* table counts, and where the file is cut.                                 *)
Run(first, frames) == [first |-> first, frames |-> frames]
Movies ==
    [offsets : {<<10, 30, 20>>, <<10, 20>>}, runs : {<<Run(1, 2)>>, <<Run(1, 2), Run(2, 0), Run(3, 3)>>, <<Run(1, 1), Run(3, 2)>>, <<>>},
     frames : {0, 4, 9}, size : {36, 23}, fit : {1, 2}, reads : {1, 3}]
MovieTables(i) ==
    [offsets |-> OpenTable(i.offsets, Len(i.offsets), i.fit), runs |-> OpenTable(i.runs, i.reads, i.fit),
     frames |-> i.frames, frameBytes |-> 2, size |-> i.size]
\* The chunks' frames in order: a chunk is of the last run it has come to.
RunOf(i, chunk) == i.runs[Max({k \in DOMAIN i.runs : \A j \in 1..k : j = 1 \/ i.runs[j].first <= chunk})]
LaidOut(i) ==
    FlattenSeq([c \in DOMAIN i.offsets |-> FramesAt(i.offsets[c], RunOf(i, c).frames, 2)])
\* As much as the table counts, to the first frame the file does not hold.
HeldOf(i) ==
    LET laid == IF i.runs = <<>> THEN <<>> ELSE SubSeq(LaidOut(i), 1, Least(i.frames, Len(LaidOut(i))))
        gone == {k \in DOMAIN laid : laid[k] + 2 > i.size}
    IN IF gone = {} THEN laid ELSE SubSeq(laid, 1, Min(gone) - 1)

-----------------------------------------------------------------------------
(* WAVs.                                                                    *)
Chunk(name, size, at, says) == [name |-> name, size |-> size, at |-> at, says |-> says]
Format(tag, bits, block) == [tag |-> tag, channels |-> 2, rate |-> 8, bits |-> bits, block |-> block]
Wavs ==
    [family : {"RIFF", "RF64"}, format : {Format(1, 16, 4), Format(1, 12, 4), Format(6, 8, 2), Format(1, 12, 3), Format(3, 16, 4)},
     data : {9, AllOnes}, ds64 : {None, 12}, junk : BOOLEAN, size : {108, 118}]
WavOf(i) ==
    [family |-> i.family, size |-> i.size,
     chunks |-> (IF i.ds64 = None THEN <<>> ELSE <<Chunk("ds64", 28, 12, i.ds64)>>)
                \o (IF i.junk THEN <<Chunk("junk", 2, 20, None)>> ELSE <<>>)
                \o <<Chunk("fmt ", 16, 50, i.format), Chunk("data", i.data, 100, None), Chunk("fmt ", 16, 130, None)>>]
Stated(i) == IF i.data = AllOnes /\ i.family = "RF64" /\ i.ds64 # None THEN i.ds64 ELSE i.data
Unread == {Format(1, 12, 3), Format(3, 16, 4)}
WavHolds(i) ==
    LET bytes == IF i.format.tag = 6 THEN 2 ELSE 4
    IN IF i.format \in Unread THEN <<>> ELSE FramesAt(100, Least(Stated(i), i.size - 100) \div bytes, bytes)

-----------------------------------------------------------------------------
(* Packets.                                                                 *)
P(track, reads, rate, channels, room) ==
    [track |-> track, reads |-> reads, rate |-> rate, channels |-> channels, frames |-> 3, room |-> room,
     strange |-> FALSE]
Packet == {P(1, TRUE, 2, 1, TRUE), P(1, TRUE, 3, 1, TRUE), P(1, TRUE, 1, 2, TRUE), P(1, FALSE, 2, 1, TRUE),
           P(1, TRUE, 3, 1, FALSE), P(2, TRUE, 3, 1, TRUE), P(1, TRUE, 3, 2, TRUE),
           [P(1, TRUE, 3, 2, TRUE) EXCEPT !.strange = TRUE]}
PacketRuns == {[packets |-> ps, rate |-> 2, channels |-> c, base |-> None, mpeg |-> m] :
                  ps \in SeqOf(Packet, 4), c \in {1, 2}, m \in BOOLEAN}
Converted(s, p) == p.reads /\ Fits(p.channels, s.channels) /\ p.rate # s.rate
\* What each packet's place holds: a run's conversion in its first packet's.
RECURSIVE PlacesFrom(_, _)
PlacesFrom(s, ps) ==
    LET p == ps[1].p
        run == {n \in 1..Len(ps) : \A k \in 1..n : Converted(s, ps[k].p) /\ ps[k].p.rate = p.rate}
        pieces == SelectSeq(SubSeq(ps, 1, Max(run)), LAMBDA e : e.p.room)
        lost == SelectSeq(SubSeq(ps, 1, Max(run)), LAMBDA e : ~e.p.room)
        d == DesignTo(p.rate, s.rate)
    IN IF ps = <<>> THEN <<>>
       ELSE IF ~p.reads \/ ~Fits(p.channels, s.channels) THEN Quiet(p.frames) \o PlacesFrom(s, Tail(ps))
       ELSE IF p.rate = s.rate THEN [k \in 1..p.frames |-> <<ps[1].k, k - 1>>] \o PlacesFrom(s, Tail(ps))
       ELSE [k \in 1..(3 * Len(pieces) * d.inter) \div d.deci |-> <<ps[1].k, k - 1>>]
            \o Quiet(Len(lost) * ((3 * d.inter) \div d.deci)) \o PlacesFrom(s, SubSeq(ps, Max(run) + 1, Len(ps)))
Places(sound) ==
    LET s == [sound EXCEPT !.channels = ChannelsOf(sound)]
        mine == SelectSeq([k \in DOMAIN s.packets |-> [k |-> k, p |-> s.packets[k]]], LAMBDA e : e.p.track = 1)
    IN PlacesFrom(s, mine)

\* What comes before the first piece of the sound that ends it.
Ending(sound) == {n \in DOMAIN sound.packets : sound.packets[n].track = 1 /\ EndsSound(sound.packets[n])}
UpToItsEnd(sound) ==
    [sound EXCEPT !.channels = ChannelsOf(sound), !.packets = SubSeq(@, 1, Min(Ending(sound)) - 1)]

-----------------------------------------------------------------------------
Asks ==
    [kind : {"start"}, of : Starts] \cup [kind : {"movie"}, of : Movies] \cup [kind : {"wav"}, of : Wavs]
    \cup [kind : {"packets"}, of : PacketRuns] \cup [kind : {"byte"}, of : 0..255]
    \cup [kind : {"bare"}, of : [head : {"adts", "ID3", "RIFF", "none"}, delay : {None, 0, 5}, frames : {None, 0, 9, 4000}]]

WavRead(w) == LET opened == OpenWav(w) IN IF opened = None THEN <<>> ELSE WavFrom(w, opened)
\* A file that is no movie: ADTS, ADTS behind a tag, another.
BareFile(head) ==
    IF head = "ID3" THEN <<Box("ID3", <<>>, None), Box("adts", <<>>, None)>> ELSE <<Box(head, <<>>, None)>>
ByteAnswer(n) == [a |-> ALaw(n), mu |-> MuLaw(n), s |-> [big \in BOOLEAN |-> Signed(<<n, 7>>, big)]]

-----------------------------------------------------------------------------
(* The sound starts where the file says, by the first of its edit list,     *)
(* iTunes' note and its format's standard that says it, whatever boxes      *)
(* stand between (container_start); one that is not whole hides what        *)
(* follows it.                                                              *)
StartIsSaid(of) == ContainerStart(MovieOf(of), 48, [lead |-> 0, keep |-> -1]) = SaidBy(of)

(* A bare sound starts at its codec's standard or the delay its tag says,   *)
(* and keeps what the tag counts, whether the delay was counted in or not.  *)
BareStartIsSaid(of, start) ==
    /\ start.lead = IF of.head \in {"adts", "ID3"} THEN AACStandardLead
                    ELSE IF of.delay = None THEN MP3StandardLead ELSE of.delay
    /\ (start.keep = -1) = (of.frames = None)
    /\ of.frames # None /\ of.delay # None => start.keep = of.frames
    /\ of.frames # None /\ of.delay = None => start.keep = Most(0, of.frames - MP3StandardLead)

(* A movie's sound is its chunks' frames in order, as many as its tables    *)
(* say and the file holds, however the tables are batched and the blocks    *)
(* cut; a table that stops reading ends it early (next_chunk, next).        *)
MovieIsItsChunks(of, answer) ==
    \/ answer = HeldOf(of)
    \/ of.reads < Len(of.runs) /\ IsPrefix(answer, HeldOf(of))

(* A WAV read here is its data's whole frames, through junk and a size only *)
(* its ds64 says (wav_family.rs, open).                                     *)
WavIsItsData(of) == WavRead(WavOf(of)) = WavHolds(of)

(* Every piece keeps its place: a run at another rate is its conversion as  *)
(* a whole, a piece nothing reads its length of silence; and one of strange *)
(* samples ends the sound, with what a run before it held (Bundled, next).  *)
PiecesKeepTheirPlace(of, answer) ==
    LET heard == IF Ending(of) = {} THEN of ELSE UpToItsEnd(of)
        places == Places(heard)
        pieces == SelectSeq(heard.packets, LAMBDA p : p.track = 1)
        running == pieces # <<>> /\ Converted(heard, pieces[Len(pieces)])
        roomy == \A k \in DOMAIN heard.packets : heard.packets[k].room
    IN IF Ending(of) # {} /\ running
       THEN Len(answer) <= Len(places) /\ (roomy => IsPrefix(answer, places))
       ELSE IF roomy THEN answer = places ELSE Len(answer) = Len(places)

(* G.711's ladders climb by their codes and the two halves mirror, and a    *)
(* sample reads the same in either byte order (convert.rs).                 *)
LaddersClimb(n, answer) ==
    LET up == IF n >= 128 THEN 1 ELSE -1
        next == ((n ^^ 85) + 1) ^^ 85
    IN /\ answer.a = -ALaw(n ^^ 128) /\ answer.mu = -MuLaw(n ^^ 128)
       /\ n % 128 # 127 => MuLaw(n + 1) * up < answer.mu * up
       /\ (n ^^ 85) % 128 # 127 => (ALaw(next) > answer.a <=> n >= 128)
       /\ answer.s[TRUE] = Signed(<<7, n>>, FALSE)

-----------------------------------------------------------------------------
Holds(ask) ==
    CASE ask.kind = "start" -> StartIsSaid(ask.of)
      [] ask.kind = "bare" ->
           BareStartIsSaid(ask.of, ContainerStart(BareFile(ask.of.head), 48, MP3Start(ask.of.delay, ask.of.frames)))
      [] ask.kind = "movie" -> MovieIsItsChunks(ask.of, MovieSound(MovieTables(ask.of)))
      [] ask.kind = "wav" -> WavIsItsData(ask.of)
      [] ask.kind = "packets" -> PiecesKeepTheirPlace(ask.of, BundledSound(ask.of))
      [] ask.kind = "byte" -> LaddersClimb(ask.of, ByteAnswer(ask.of))
=============================================================================
