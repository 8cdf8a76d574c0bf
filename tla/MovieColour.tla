---------------------------- MODULE MovieColour ----------------------------
(***************************************************************************)
(* What a movie's writers do to the picture and to the clock               *)
(* (native/video/src): the app's colour law, BT.601 studio range at 4:2:0  *)
(* (colour.rs), Media Foundation's BGRA (export/windows.rs), the times of  *)
(* frames and of sound, the bits a second, and the jobs that may ask for   *)
(* hardware (hardware_law.rs).  A pixel is <<r, g, b>>; a plane is a       *)
(* function from the byte's place.                                         *)
(***************************************************************************)
EXTENDS Integers, Sequences, FiniteSets, FiniteSetsExt

CONSTANTS Ticks, Micros      \* a second in Media Foundation's clock (10^7) and Android's (10^6)

White == <<255, 255, 255>>
Shift8(n) == n \div 256                   \* an arithmetic shift rounds down
Clamped(n) == Min({Max({n, 0}), 255})

Luma(p) == Shift8(66 * p[1] + 129 * p[2] + 25 * p[3] + 128) + 16
Cb(p) == Shift8(-38 * p[1] - 74 * p[2] + 112 * p[3] + 128) + 128
Cr(p) == Shift8(112 * p[1] - 94 * p[2] - 18 * p[3] + 128) + 128

\* The pixel of a frame: the picture's, or the padding.
PixelAt(picture, x, y) ==
  IF x < picture.width /\ y < picture.height THEN picture.at[<<x, y>>] ELSE White

\* The planes of a frame of `size', laid as an encoder takes them.
Even(n) == n + (n % 2)
EncoderPlanes(size, semi) ==
  IF semi
  THEN [y_stride |-> size.width, cb |-> 0, cr |-> 1, chroma_stride |-> size.width, chroma_step |-> 2]
  ELSE [y_stride |-> size.width, cb |-> 0, cr |-> (size.width * size.height) \div 4,
        chroma_stride |-> size.width \div 2, chroma_step |-> 1]

\* mutant: the chroma rows of separate planes are as far apart as the luma's
ChromaAtLuma(planes, x, y) == (y \div 2) * planes.y_stride + (x \div 2) * planes.chroma_step

\* The place of a block's chroma, past its plane's start.
ChromaAt(planes, x, y) == (y \div 2) * planes.chroma_stride + (x \div 2) * planes.chroma_step

Pixels(size) == (0 .. size.width - 1) \X (0 .. size.height - 1)
Corner(p) == p[1] % 2 = 0 /\ p[2] % 2 = 0

\* A frame in an encoder's layout: each pixel's luma, and a block's chroma of
\* its top-left pixel.
FromRgba(picture, size, semi) ==
  LET planes == EncoderPlanes(size, semi)
      luma == size.width * size.height
      Writes(p) ==
        LET pixel == PixelAt(picture, p[1], p[2])
            at == luma + ChromaAt(planes, p[1], p[2])
        IN  {<<p[2] * planes.y_stride + p[1], Luma(pixel)>>} \cup
            IF Corner(p) THEN {<<at + planes.cb, Cb(pixel)>>, <<at + planes.cr, Cr(pixel)>>} ELSE {}
  IN  UNION {Writes(p) : p \in Pixels(size)}

\* A frame read back, where rows may be further apart than the picture and
\* chroma further down than its height.
ToRgba(data, stride, slice, semi, x, y) ==
  LET cb_at == stride * slice
      cr_at == IF semi THEN cb_at + 1 ELSE cb_at + (stride \div 2) * (slice \div 2)
      chroma == (y \div 2) * (IF semi THEN stride ELSE stride \div 2) + (x \div 2) * (IF semi THEN 2 ELSE 1)
      luma == data[y * stride + x] - 16
      cb == data[cb_at + chroma] - 128
      cr == data[cr_at + chroma] - 128
  IN  <<Clamped(Shift8(298 * luma + 409 * cr + 128)),
        Clamped(Shift8(298 * luma - 100 * cb - 208 * cr + 128)),
        Clamped(Shift8(298 * luma + 516 * cb + 128))>>

-----------------------------------------------------------------------------
FrameTime(frame, unit, fps) == (frame * unit * fps.den) \div fps.num

\* A frame lasts until the next one's time.
Duration(frame, fps) == FrameTime(frame + 1, Ticks, fps) - FrameTime(frame, Ticks, fps)

\* mutant: a chunk of sound is timed from the chunk before it
SoundTimeAdded(chunks, n, rate) ==
  IF n = 1 THEN 0 ELSE MapThenSumSet(LAMBDA i : (chunks[i] * Ticks) \div rate, 1 .. n - 1)

\* A chunk of sound is timed from every frame before it.
SoundTime(chunks, n, rate) ==
  (MapThenSumSet(LAMBDA i : chunks[i], 1 .. n - 1) * Ticks) \div rate

\* Bits a second: those the job names, or 0.12 a pixel, within reason.
Bitrate(bps, size, fps) ==
  LET bits == IF bps > 0 THEN bps ELSE (size.width * size.height * fps.num * 12) \div (fps.den * 100)
  IN  Min({Max({bits, 2000000}), 50000000})

FailedSide == 48
MayEncode(width, height, hevc) == hevc \/ (width > FailedSide /\ height > FailedSide)

-----------------------------------------------------------------------------
\* Every byte of the frame the encoder is handed is written, once, whatever
\* the picture's size and the layout; and read back through its strides each
\* pixel whose block took its chroma is the colour it was, within `near'.
FrameReadsBack(picture, semi, near) ==
  LET size == [width |-> Even(picture.width), height |-> Even(picture.height)]
      frame == FromRgba(picture, size, semi)
      bytes == (size.width * size.height * 3) \div 2
      data == [n \in 0 .. bytes - 1 |-> (CHOOSE w \in frame : w[1] = n)[2]]
  IN  /\ {w[1] : w \in frame} = 0 .. bytes - 1
      /\ Cardinality(frame) = bytes
      /\ \A w \in frame : w[2] \in 0 .. 255
      /\ \A p \in Pixels(size) :
           Corner(p) =>
             LET back == ToRgba(data, size.width, size.height, semi, p[1], p[2])
                 was == PixelAt(picture, p[1], p[2])
             IN  \A k \in 1 .. 3 : back[k] - was[k] \in -near .. near

\* The movie's clock: frames abut, no two at one time, and sound that is
\* written in chunks of any size starts no tick away from the frames written.
ClockHolds(fps, chunks, rate, count) ==
  /\ \A n \in 0 .. count : /\ FrameTime(n, Ticks, fps) + Duration(n, fps) = FrameTime(n + 1, Ticks, fps)
                           /\ Duration(n, fps) > 0
                           /\ FrameTime(n, Micros, fps) < FrameTime(n + 1, Micros, fps)
  /\ \A n \in DOMAIN chunks :
       LET before == MapThenSumSet(LAMBDA i : chunks[i], 1 .. n - 1)
       IN  before * Ticks - SoundTime(chunks, n, rate) * rate \in 0 .. rate - 1

\* The job a size makes: bits within reason, and never hardware for the small
\* H.264 frame it fails, while HEVC always has it.
JobsAreTaken(bps, size, fps) ==
  /\ Bitrate(bps, size, fps) \in 2000000 .. 50000000
  /\ \A hevc \in BOOLEAN : MayEncode(size.width, size.height, hevc) =>
       hevc \/ Min({size.width, size.height}) > FailedSide
=============================================================================
