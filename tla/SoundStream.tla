------------------------------ MODULE SoundStream ------------------------------
(***************************************************************************)
(* A sound read on (audio/stream.rs, and its doors, lib.rs): the container *)
(* opened with the first decoder that reads it and hands something back,   *)
(* its lead passed over and its end kept, whatever the decoder's blocks    *)
(* and the caller's asks.                                                  *)
(*                                                                         *)
(* A decoder is the blocks it will hand back, each as many frames as it    *)
(* holds, none empty before its end; the sound's frames are numbered.      *)
(***************************************************************************)
EXTENDS Integers, Sequences, SequencesExt

CONSTANTS
    Sounds,     \* containers: the decoders tried, in order, each [reads, blocks, lead, keep]
    MaxAsk,     \* bound: frames asked for at a time
    NoStream

VARIABLES
    sound,      \* the container
    stream,     \* [decoder, blocks, block, at, lead, left], or NoStream
    heard       \* the frames handed out or passed over, in order, and the last answer
streamVars == <<sound, stream, heard>>

\* The first of the decoder's frames in each block.
FirstOfBlock(blocks, k) == FoldLeft(LAMBDA n, b : n + b, 0, SubSeq(blocks, 1, k - 1))
Smallest(S) == CHOOSE k \in S : \A j \in S : k <= j

\* A decoder that read the container and hands back nothing falls through.
Opens(c) == {k \in DOMAIN c : c[k].reads /\ c[k].blocks # <<>>}
Begin(c) ==
    LET k == Smallest(Opens(c))
    IN [decoder |-> k, blocks |-> c[k].blocks, block |-> 1, at |-> 0, lead |-> c[k].lead, left |-> c[k].keep]
NothingHeard == [all |-> <<>>, asked |-> 0, got |-> 0]
OpenStream ==
    /\ stream = NoStream
    /\ Opens(sound) # {}
    /\ stream' = Begin(sound) /\ heard' = NothingHeard
    /\ UNCHANGED sound
CloseStream ==
    /\ stream # NoStream
    /\ stream' = NoStream
    /\ UNCHANGED <<sound, heard>>

Least2(a, b) == IF a < b THEN a ELSE b
InBlock(s) == s.blocks[s.block] - s.at
\* One turn of the loop: the next block, the lead dropped, or frames taken.
\* (Mutant: the lead let go of by the block.)
DropsByBlock(s) == [s EXCEPT !.at = @ + InBlock(s), !.lead = @ - Least2(InBlock(s), s.lead)]
Drops(s) == [s EXCEPT !.at = @ + Least2(InBlock(s), s.lead), !.lead = @ - Least2(InBlock(s), s.lead)]
Takes(s, wanted) ==
    LET take == Least2(InBlock(s), IF s.left > 0 THEN Least2(wanted, s.left) ELSE wanted)
    IN [took |-> [j \in 1..take |-> FirstOfBlock(s.blocks, s.block) + s.at + j],
        s |-> [s EXCEPT !.at = @ + take, !.left = IF @ > 0 THEN @ - take ELSE @]]
RECURSIVE PassFrom(_, _, _)
PassFrom(s, wanted, passed) ==
    IF wanted = 0 \/ s.left = 0 THEN [s |-> s, passed |-> passed]
    ELSE IF InBlock(s) = 0
         THEN IF s.block = Len(s.blocks) THEN [s |-> [s EXCEPT !.left = 0], passed |-> passed]
              ELSE PassFrom([s EXCEPT !.block = @ + 1, !.at = 0], wanted, passed)
    ELSE IF s.lead > 0 THEN PassFrom(Drops(s), wanted, passed)
    ELSE LET t == Takes(s, wanted) IN PassFrom(t.s, wanted - Len(t.took), passed \o t.took)

\* qa_audio_stream_read.
ReadStream(frames) ==
    /\ stream # NoStream
    /\ LET p == PassFrom(stream, frames, <<>>)
       IN /\ stream' = p.s
          /\ heard' = [all |-> heard.all \o p.passed, asked |-> frames, got |-> Len(p.passed)]
    /\ UNCHANGED sound

\* A window: a stream of its own, passed over up to it and read through it,
\* MaxAsk frames at a time; -1 to the end.
RECURSIVE KeepFrom(_, _)
KeepFrom(s, count) ==
    LET p == PassFrom(s, IF count < 0 THEN MaxAsk ELSE Least2(MaxAsk, count), <<>>)
    IN IF count = 0 \/ p.passed = <<>> THEN <<>>
       ELSE p.passed \o KeepFrom(p.s, IF count < 0 THEN count ELSE count - Len(p.passed))
Window(c, first, count) ==
    LET new == Begin(c)
    IN KeepFrom(IF count = 0 THEN new ELSE PassFrom(new, first, <<>>).s, count)

\* Samples handed over stand behind their count, which the door that lets them
\* go reads: it is handed the samples alone.
HandOver(samples) == [prefix |-> Len(samples), samples |-> samples]
LetsGo(room) == room.prefix

Unknown == [decoder |-> 0, frames |-> 0, room |-> NoStream]
\* (Mutant: a window past the end is a sound nothing reads.)
DecodeSpanWindowHeld(c, first, count) ==
    IF first < 0 \/ Opens(c) = {} \/ Window(c, first, count) = <<>> THEN Unknown
    ELSE LET samples == Window(c, first, count)
         IN [decoder |-> Smallest(Opens(c)), frames |-> Len(samples), room |-> HandOver(samples)]
\* A window past the end kept nothing, and that is an answer: with no samples.
DecodeSpanWindow(c, first, count) ==
    IF first < 0 \/ Opens(c) = {} THEN Unknown
    ELSE LET samples == Window(c, first, count)
         IN [decoder |-> Smallest(Opens(c)), frames |-> Len(samples),
             room |-> IF samples = <<>> THEN NoStream ELSE HandOver(samples)]
DecodeSpan(c) == DecodeSpanWindow(c, 0, -1)

StreamInit == sound \in Sounds /\ stream = NoStream /\ heard = NothingHeard
StreamNext == OpenStream \/ CloseStream \/ \E n \in 0..MaxAsk : ReadStream(n)

-----------------------------------------------------------------------------
\* The sound: what the decoder hands back, less its lead, as much as it keeps.
FramesOf(d) ==
    LET all == FirstOfBlock(d.blocks, Len(d.blocks) + 1) - d.lead
        kept == IF d.keep >= 0 THEN Least2(d.keep, all) ELSE all
    IN [j \in 1..(IF kept > 0 THEN kept ELSE 0) |-> d.lead + j]

(* However it is asked for, the sound comes out once and in order, short    *)
(* only at its end, from the first decoder that hands anything back; a      *)
(* window is that part of it and names its decoder even past the end, and   *)
(* what is let go of is as many samples as were handed over (stream.rs,     *)
(* pass, begin, window; lib.rs).                                            *)
ReadsItOn ==
    /\ stream # NoStream =>
        LET d == sound[stream.decoder]
        IN /\ IsPrefix(heard.all, FramesOf(d))
           /\ heard.got < heard.asked => heard.all = FramesOf(d)
           /\ \A j \in 1..stream.decoder - 1 : ~sound[j].reads \/ sound[j].blocks = <<>>
           /\ \A first \in 0..2, count \in {0, 1, 2, 6} :
                LET part == SubSeq(FramesOf(d), first + 1, Least2(first + count, Len(FramesOf(d))))
                    got == DecodeSpanWindow(sound, first, count)
                IN /\ got.decoder = stream.decoder /\ got.frames = Len(part)
                   /\ IF part = <<>> THEN got.room = NoStream
                      ELSE got.room.samples = part /\ LetsGo(got.room) = Len(part)
           /\ DecodeSpan(sound).frames = Len(FramesOf(d))
=============================================================================
