---------------------------- MODULE VideoExport ----------------------------
(***************************************************************************)
(* One export of a movie through the operating system's own encoder        *)
(* (native/video/src/export): Android's codecs and muxer (android.rs), and *)
(* Media Foundation's sink writer (windows.rs), which muxes on its own.    *)
(* The codecs and the muxer are external: a codec announces its format     *)
(* before its first sample, gives one sample a unit of input in order, and *)
(* then its end; the muxer may refuse anything it is asked.                *)
(***************************************************************************)
EXTENDS Integers, Sequences, SequencesExt, FiniteSets

CONSTANTS MaxFrames, MaxAudio,  \* bounds: frames and audio units queued
          NoWriter

Tracks == {"video", "audio"}

VARIABLES os,            \* "android" or "windows"
          writer,        \* WRITER: the one export, or NoWriter
          codec,         \* per track: what the external codec holds
          movie,         \* samples in the file, in the order they were muxed
          times,         \* history: the time each frame queued was given
          unheld,        \* history: what the muxer refused
          formats,       \* history: the tracks whose format was taken from the codec
          said           \* the last answer to the caller

exportVars == <<os, writer, codec, movie, times, unheld, formats, said>>

Idle == [taken |-> 0, told |-> FALSE, made |-> 0, ending |-> FALSE, out |-> <<>>]
Fresh(channels) == [channels |-> channels, started |-> FALSE, tracks |-> {},
                    pending |-> <<>>, frames |-> 0, phase |-> "open"]
Wanted(w) == IF w.channels > 0 THEN Tracks ELSE {"video"}

ExportInit ==
  /\ os \in {"android", "windows"} /\ writer = NoWriter
  /\ codec = [t \in Tracks |-> Idle]
  /\ movie = <<>> /\ times = <<>> /\ unheld = {} /\ formats = {} /\ said = "nothing"

-----------------------------------------------------------------------------
\* The codec works on its own: its format first, then a sample for each unit
\* of input, then its end.
Gives(t, item) == codec' = [codec EXCEPT ![t].out = Append(@, item)]

Encodes(t) ==
  /\ writer # NoWriter /\ os = "android" /\ t \in Wanted(writer)
  /\ LET c == codec[t]
     IN  \/ /\ ~c.told /\ c.taken > 0
            /\ codec' = [codec EXCEPT ![t].told = TRUE,
                                      ![t].out = @ \o <<[is |-> "format", n |-> 0], [is |-> "config", n |-> 0]>>]
         \/ /\ c.told /\ c.made < c.taken
            /\ codec' = [codec EXCEPT ![t].made = @ + 1,
                                      ![t].out = Append(@, [is |-> "sample", n |-> c.made + 1])]
         \/ /\ c.told /\ c.made = c.taken /\ c.ending
            /\ ~\E i \in DOMAIN c.out : c.out[i].is = "end"
            /\ Gives(t, [is |-> "end", n |-> 0])
  /\ UNCHANGED <<os, writer, movie, times, unheld, formats, said>>

-----------------------------------------------------------------------------
(* One drain is a run over the codec's ready output. Its state d is the    *)
(* writer, the file, what was refused, the formats met, whether it stopped *)
(* short and the output it left. `lost' is what the muxer refuses.         *)
Sample(t, n) == [track |-> t, n |-> n]
Format(t) == Sample(t, 0)
MuxerStart == Sample("muxer", 0)

\* mutant: the muxer starts with the first track it knows
StartsEarly(w) == w.tracks # {}

\* The muxer starts the moment it knows every track, not before.
MayStart(w) == Cardinality(w.tracks) = Cardinality(Wanted(w))

\* What waited for the start goes first; a refusal there is passed over.
Flushed(d, lost) ==
  [d EXCEPT !.w.started = TRUE, !.w.pending = <<>>,
            !.movie = @ \o SelectSeq(d.w.pending, LAMBDA p : p \notin lost),
            !.unheld = @ \cup (Range(d.w.pending) \cap lost)]

\* mutant: the sample that started the muxer goes before those that waited
EmitThenFlush(d, sample, lost) ==
  LET starts == ~d.w.started /\ MayStart(d.w)
      s == IF d.w.started \/ starts THEN [d EXCEPT !.movie = Append(@, sample)]
           ELSE [d EXCEPT !.w.pending = Append(@, sample)]
  IN  IF starts THEN Flushed(s, lost) ELSE s

\* Writes a sample, or keeps it until the muxer has started.
Emit(d, sample, lost) ==
  LET starts == ~d.w.started /\ MayStart(d.w)
      s == IF starts THEN Flushed(d, lost) ELSE d
  IN  CASE starts /\ MuxerStart \in lost -> [d EXCEPT !.unheld = @ \cup {sample}, !.stop = TRUE]
        [] ~(starts /\ MuxerStart \in lost) /\ ~s.w.started -> [s EXCEPT !.w.pending = Append(@, sample)]
        [] s.w.started /\ sample \in lost -> [s EXCEPT !.unheld = @ \cup {sample}, !.stop = TRUE]
        [] OTHER -> [s EXCEPT !.movie = Append(@, sample)]

\* The codec's format is a track for the muxer, unless it turns it away.
AddTrack(d, t, lost) ==
  IF Format(t) \in lost THEN [d EXCEPT !.stop = TRUE, !.unheld = @ \cup {Format(t)}]
  ELSE [d EXCEPT !.w.tracks = @ \cup {t}, !.formats = @ \cup {t}]

\* A sample is emitted, and a codec-config or an empty buffer only given back.
TakeOutput(d, t, item, lost) ==
  IF item.is = "sample" THEN Emit(d, Sample(t, item.n), lost) ELSE d

Drain(before, t, lost) ==
  FoldLeft(LAMBDA d, item : CASE d.stop -> [d EXCEPT !.left = Append(@, item)]
                              [] ~d.stop /\ item.is = "format" -> AddTrack(d, t, lost)
                              [] OTHER -> TakeOutput(d, t, item, lost),
           [before EXCEPT !.left = <<>>], codec[t].out)

Now(w) == [w |-> w, movie |-> movie, unheld |-> unheld, formats |-> formats, stop |-> FALSE, left |-> <<>>]

\* What the muxer may refuse of what a drain of this track asks of it.
Refusals(t) ==
  {{}, {MuxerStart}} \cup {{Sample(t, codec[t].out[i].n)} : i \in DOMAIN codec[t].out}
    \cup {{p} : p \in Range(writer.pending)}

Takes(d) == movie' = d.movie /\ unheld' = d.unheld /\ formats' = d.formats

-----------------------------------------------------------------------------
(* The calls.                                                              *)
\* One export at a time; where an encoder does not open there is no writer.
Open(channels) ==
  \/ /\ writer = NoWriter /\ said = "nothing"
     /\ writer' = Fresh(channels) /\ said' = "yes"
     /\ UNCHANGED <<os, codec, movie, times, unheld, formats>>
  \/ /\ said' = "no"
     /\ UNCHANGED <<os, writer, codec, movie, times, unheld, formats>>

Writing == writer # NoWriter /\ writer.phase = "open"
Refuses == said' = "no" /\ UNCHANGED <<os, writer, codec, movie, times, unheld, formats>>

Settle(t, w, taken, lost) ==
  LET d == Drain(Now(w), t, lost)
  IN  /\ writer' = d.w /\ Takes(d)
      /\ codec' = [codec EXCEPT ![t].taken = taken, ![t].out = d.left]
      /\ said' = IF d.stop THEN "no" ELSE "yes"

\* The frame the encoder took is the frame that counts.
Counted(w, lost) == [w EXCEPT !.frames = @ + 1]

\* A frame is given the time of its number, queued, counted, and the codec
\* drained; an encoder that takes none leaves everything as it was.
WriteFrame ==
  /\ Writing /\ os = "android"
  /\ \/ Refuses
     \/ /\ codec["video"].taken < MaxFrames
        /\ times' = Append(times, writer.frames)
        /\ \E lost \in Refusals("video") :
             Settle("video", Counted(writer, lost), codec["video"].taken + 1, lost)
        /\ UNCHANGED os

\* Sound goes in by whole frames, a drain after each buffer of it.
WriteAudio ==
  /\ Writing /\ os = "android"
  /\ \/ Refuses
     \/ /\ writer.channels > 0 /\ codec["audio"].taken < MaxAudio
        /\ \E lost \in Refusals("audio") : Settle("audio", writer, codec["audio"].taken + 1, lost)
        /\ UNCHANGED <<os, times>>

\* The sink writer counts a frame only where it took the sample.
SinkWrites(t, cap) ==
  /\ Writing /\ os = "windows" /\ t \in Wanted(writer)
  /\ \/ Refuses
     \/ /\ codec[t].taken < cap
        /\ codec' = [codec EXCEPT ![t].taken = @ + 1, ![t].made = @ + 1]
        /\ movie' = Append(movie, Sample(t, codec[t].taken + 1))
        /\ times' = IF t = "video" THEN Append(times, writer.frames) ELSE times
        /\ writer' = [writer EXCEPT !.frames = IF t = "video" THEN @ + 1 ELSE @, !.started = TRUE]
        /\ said' = "yes"
        /\ UNCHANGED <<os, unheld, formats>>

\* The end is signalled where the codec has a buffer for it.
Finish ==
  /\ Writing
  /\ IF os = "windows"
     THEN /\ writer' = NoWriter /\ said' \in {"finished", "no"}
          /\ UNCHANGED codec
     ELSE /\ writer' = [writer EXCEPT !.phase = "ending"]
          /\ \E ends \in SUBSET Wanted(writer) :
               codec' = [t \in Tracks |-> [codec[t] EXCEPT !.ending = t \in ends]]
          /\ UNCHANGED said
  /\ UNCHANGED <<os, movie, times, unheld, formats>>

\* What the last look took: the codec's next output, which may be a format.
Looked(d, item, lost) ==
  IF item.is = "format" THEN [d EXCEPT !.formats = @ \cup {"video"}]
  ELSE [TakeOutput([d EXCEPT !.stop = FALSE], "video", item, lost) EXCEPT !.stop = d.stop]

Closes(w) == writer' = NoWriter /\ said' = IF w.started THEN "finished" ELSE "no"

\* One round of the bounded drain: both tails, then a wait for the video's
\* next output. It is over where a drain stopped short, where nothing came in
\* time, or with the video's end.
FinishRound ==
  /\ writer # NoWriter /\ writer.phase = "ending"
  /\ \E lost \in Refusals("video") \cup (IF writer.channels > 0 THEN Refusals("audio") ELSE {}) :
       LET v == Drain(Now(writer), "video", lost)
           a == IF writer.channels > 0 /\ ~v.stop THEN Drain(v, "audio", lost) ELSE v
       IN  \/ /\ codec' = [codec EXCEPT !["video"].out = v.left,
                                        !["audio"].out = IF v.stop THEN @ ELSE a.left]
              /\ Takes(a) /\ Closes(a.w)
           \/ /\ ~a.stop
              /\ \E item \in {[is |-> "format", n |-> 0], [is |-> "end", n |-> 0],
                              [is |-> "sample", n |-> codec["video"].made + 1]} :
                   LET d == Looked(a, item, lost)
                       c == codec["video"]
                   IN  /\ CASE item.is = "format" -> ~c.told /\ c.taken > 0
                            [] item.is = "sample" -> c.told /\ c.made < c.taken
                            [] OTHER -> c.told /\ c.made = c.taken /\ c.ending
                       /\ codec' = [codec EXCEPT !["video"] =
                                      [c EXCEPT !.out = <<>>, !.told = TRUE,
                                                !.made = IF item.is = "sample" THEN @ + 1 ELSE @],
                                                 !["audio"].out = <<>>]
                       /\ Takes(d)
                       /\ IF item.is = "end" THEN Closes(d.w) ELSE writer' = d.w /\ UNCHANGED said
  /\ UNCHANGED <<os, times>>

Abort ==
  /\ writer' = IF Writing THEN NoWriter ELSE writer
  /\ said' = IF Writing THEN "aborted" ELSE said
  /\ UNCHANGED <<os, codec, movie, times, unheld, formats>>

ExportNext ==
  \/ \E t \in Tracks : Encodes(t)
  \/ \E channels \in {0, 2} : Open(channels)
  \/ WriteFrame \/ WriteAudio \/ SinkWrites("video", MaxFrames) \/ SinkWrites("audio", MaxAudio)
  \/ Finish \/ FinishRound \/ Abort

ExportSpec == ExportInit /\ [][ExportNext]_exportVars

-----------------------------------------------------------------------------
\* What came out of a codec is in the file, or waits for the muxer to start,
\* in the order it came, each once: nothing but what the muxer itself refused
\* is left out; and once it has started nothing waits any more.
SamplesInOrder ==
  LET waiting == IF writer = NoWriter THEN <<>> ELSE writer.pending
      Given(t) == codec[t].made - Cardinality({i \in DOMAIN codec[t].out : codec[t].out[i].is = "sample"})
      Of(t, s) == SelectSeq(s, LAMBDA x : x.track = t)
      Whole(t) == SelectSeq([n \in 1 .. Given(t) |-> Sample(t, n)], LAMBDA x : x \notin unheld)
  IN  /\ writer # NoWriter => \A t \in Tracks : Of(t, movie \o waiting) = Whole(t)
      /\ writer # NoWriter /\ writer.started => waiting = <<>>

\* A sample is muxed only to a track the muxer has been given.
TracksComeFirst ==
  writer # NoWriter /\ os = "android" /\ movie # <<>> => writer.tracks = Wanted(writer)

\* An export that says it finished has in its file everything it had taken out
\* of the codecs, and the times its frames were given climb, one a frame.
FinishedIsWhole ==
  /\ said = "finished" /\ os = "android" => \A t \in Tracks :
       \A n \in 1 .. codec[t].made : \/ Sample(t, n) \in Range(movie) \cup unheld
                                     \/ \E i \in DOMAIN codec[t].out : codec[t].out[i].n = n
  /\ \A i, j \in DOMAIN times : i < j => times[i] < times[j]

ExportKeepsItsMovie == SamplesInOrder /\ TracksComeFirst /\ FinishedIsWhole

\* "A format change is the moment a codec's track can be ADDED to the muxer"
\* (android.rs:8-9): a format that was taken from its codec is a track.
FormatsAreTracks == writer # NoWriter => formats \subseteq writer.tracks
=============================================================================
