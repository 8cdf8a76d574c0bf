------------------------------ MODULE AudioMix -------------------------------
(***************************************************************************)
(* The mix bus and its output stage (native/audio_mix/src/bus.rs).  What   *)
(* the bus adds up at a place is kept as the terms it adds, in order: the  *)
(* source sample heard, the factors of its volume and its pan.  A quotient *)
(* is its numerator and denominator.                                       *)
(***************************************************************************)
EXTENDS Integers, Sequences, FiniteSetsExt, SequencesExt

CONSTANT None

Ratio1 == [num |-> 1, den |-> 1]
Whole1(n) == [num |-> n, den |-> 1]

\* A ramp, never below nothing; the equal-power one is its root.
FadeRamp(ramp, curve) ==
  [num |-> Max({ramp.num, 0}), den |-> ramp.den, root |-> curve = 1]

\* mutant: the pair after the one the position lies in
EnvelopePairLate(keys, position) ==
  CHOOSE i \in 1 .. Len(keys) - 1 :
    keys[i].sample <= position /\ (i + 1 = Len(keys) \/ position <= keys[i + 1].sample)

\* The first pair whose end the position has not reached.
EnvelopePair(keys, position) ==
  Min({i \in 1 .. Len(keys) - 1 : position < keys[i + 1].sample})

\* The envelope at a place of the clip: linear between keys, held past them.
EnvelopeAt(keys, position) ==
  IF keys = <<>> THEN Ratio1
  ELSE IF position <= keys[1].sample THEN Whole1(keys[1].gain)
  ELSE IF position >= Last(keys).sample THEN Whole1(Last(keys).gain)
  ELSE LET i == EnvelopePair(keys, position)
           a == keys[i]
           b == keys[i + 1]
       IN  [num |-> a.gain * (b.sample - a.sample) + (b.gain - a.gain) * (position - a.sample),
            den |-> b.sample - a.sample]

\* The clip's run of keys, when it names one that is there.
EnvelopeOf(clip, keys) ==
  IF clip.envelope_offset < 0 \/ clip.envelope_count <= 0 \/
     clip.envelope_offset + clip.envelope_count > Len(keys)
  THEN None
  ELSE SubSeq(keys, clip.envelope_offset + 1, clip.envelope_offset + clip.envelope_count)

\* mutant: the place is counted from the block, not from the clip
PlaceInBlock(clip, position, start) == position - start

\* The place in the clip of a position on the timeline.
Place(clip, position, start) == position - clip.start

\* The factors of the clip's volume.
ClipVolume(clip, keys, position, start) ==
  LET place == Place(clip, position, start)
      envelope == EnvelopeOf(clip, keys)
      remaining == clip.end - position
  IN  <<Whole1(clip.gain)>>
      \o (IF envelope = None THEN <<>> ELSE <<EnvelopeAt(envelope, place)>>)
      \o (IF clip.fade_in > 0 /\ place < clip.fade_in
          THEN <<FadeRamp([num |-> place, den |-> clip.fade_in], clip.fade_curve)>> ELSE <<>>)
      \o (IF clip.fade_out > 0 /\ remaining < clip.fade_out
          THEN <<FadeRamp([num |-> remaining, den |-> clip.fade_out], clip.fade_curve)>>
          ELSE <<>>)

SourceChannel(channels, out) == IF channels <= 1 THEN 0 ELSE Min({out, channels - 1})

\* Whether a clip's source is there to be heard.
Heard(clip, sources) ==
  /\ clip.source_index + 1 \in DOMAIN sources
  /\ LET s == sources[clip.source_index + 1]
     IN  s.samples /\ s.channels > 0 /\ s.length > 0

\* mutant: a sample past the window is read as its last
OffsetHeld(clip, source, position) ==
  Min({clip.source_offset + (position - clip.start) - source.start, source.length - 1})

\* Where in the source's window the sample heard at a position is.
Offset(clip, source, position) ==
  clip.source_offset + (position - clip.start) - source.start

\* The pan of an output channel: on two speakers alone, a mono source spread.
Pan(clip, source, outChannels, channel) ==
  IF outChannels # 2 THEN [side |-> "none", spread |-> FALSE]
  ELSE [side |-> IF channel = 0 THEN "left" ELSE "right", spread |-> source.channels = 1]

\* What one clip adds at a position of an output channel: nothing, or a term.
Term(clip, sources, keys, position, start, outChannels, channel) ==
  LET source == sources[clip.source_index + 1]
      offset == Offset(clip, source, position)
  IN  IF ~Heard(clip, sources) \/ position < clip.start \/ position >= clip.end THEN <<>>
      ELSE IF offset < 0 \/ offset >= source.length THEN <<>>
      ELSE <<[sample |-> source.start + offset,
              channel |-> SourceChannel(source.channels, channel),
              volume |-> ClipVolume(clip, keys, position, start),
              pan |-> Pan(clip, source, outChannels, channel)]>>

\* The bus: for each frame and channel, the terms it adds, in the clips' order.
Mix(clips, sources, keys, start, outChannels, frames) ==
  [f \in 1 .. frames |-> [c \in 1 .. outChannels |->
     FlattenSeq([i \in DOMAIN clips |->
       Term(clips[i], sources, keys, start + f - 1, start, outChannels, c - 1)])]]

\* The output stage to 16 bits, of a bus value in halves of a step: clipped,
\* rounded half away from zero, and +1.0 brought back in.
BusToInt16(halves) ==
  LET clipped == IF halves > 65536 THEN 65536 ELSE IF halves < -65536 THEN -65536 ELSE halves
      rounded == IF clipped >= 0 THEN (clipped + 1) \div 2 ELSE -((1 - clipped) \div 2)
  IN  Min({rounded, 32767})

-----------------------------------------------------------------------------
\* A block mixed in two parts is the block mixed at once: what is heard at a
\* position does not depend on where the blocks are cut.
BlocksJoin(clips, sources, keys, start, outChannels, frames) ==
  \A k \in 0 .. frames :
    Mix(clips, sources, keys, start, outChannels, frames)
      = Mix(clips, sources, keys, start, outChannels, k)
        \o Mix(clips, sources, keys, start + k, outChannels, frames - k)

\* The part of a source from `start', `length' long.
Window(source, start, length) == [source EXCEPT !.start = start, !.length = length]

\* A clip heard through a window is heard as through the whole source, where
\* the window holds the sample, and is silent where it does not.
WindowIsTheSource(clip, source, keys, position, w) ==
  LET heard(s) == Mix(<<clip>>, <<s>>, keys, position, 2, 1)[1]
      there == Offset(clip, source, position) + source.start \in w.start .. w.start + w.length - 1
  IN  heard(w) = IF there THEN heard(source) ELSE <<<<>>, <<>>>>

\* Between two keys the envelope is between their gains, over a span of at
\* least one, and at each it is the key's - the last of those at one place,
\* past the first.
EnvelopeIsBetween(keys, position) ==
  LET e == EnvelopeAt(keys, position)
      gains == {keys[i].gain : i \in DOMAIN keys}
  IN  keys # <<>> =>
        /\ e.num >= Min(gains) * e.den /\ e.num <= Max(gains) * e.den
        /\ e.den >= 1
        /\ \A i \in DOMAIN keys :
             LET isThere == keys[i].sample = position
                 isLast == \A j \in DOMAIN keys : keys[j].sample = position => j <= i
             IN  isThere /\ isLast /\ keys[1].sample < position => e.num = keys[i].gain * e.den

\* Unity gain gives back the very 16 bits the file held, and no value leaves
\* the range.
OutputGivesBack(raw) ==
  /\ BusToInt16(2 * raw) = raw
  /\ \A over \in {65536, 65537, 100000} :
       BusToInt16(over) = 32767 /\ BusToInt16(-over) = -32768
=============================================================================
