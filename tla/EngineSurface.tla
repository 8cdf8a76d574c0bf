--------------------------- MODULE EngineSurface ---------------------------
(***************************************************************************)
(* The way from the engine to Flutter's screen                             *)
(* (packages/gpu_engine/rust/src/device.rs, src/platform): the adapter it  *)
(* opens on, a texture made to be shared step by step, each of which may   *)
(* fail, and Android's window, whose images the kernels write and that is  *)
(* presented. The drivers are external; what a step takes of them is a raw *)
(* object, which is ours until it is given back or handed to wgpu.         *)
(***************************************************************************)
EXTENDS Integers, Sequences, SequencesExt, FiniteSets

CONSTANTS Adapters,      \* of one machine; Flutter draws with one of them
          MaxFrames,     \* bound: frames written, and images handed to Flutter
          None

Platforms == {"windows", "linux", "apple", "android"}

VARIABLES platform, present, \* what is plugged in, and
          flutters,          \* the one Flutter draws with
          engine,            \* the adapter opened on, or None
          raw,               \* raw objects alive
          surface,           \* the surface, or None: its format and what it owns
          window,            \* Android's window, or None
          frame,             \* frames the kernels have written
          screen             \* history: what Flutter was handed, and when

surfaceVars == <<platform, present, flutters, engine, raw, surface, window, frame, screen>>

SurfaceInit ==
  /\ platform \in Platforms /\ present \in SUBSET Adapters \ {{}} /\ flutters \in present
  /\ engine = None /\ raw = {} /\ surface = None /\ window = None
  /\ frame = 0 /\ screen = <<>>

-----------------------------------------------------------------------------
\* Windows' adapters answer to Flutter's LUID; elsewhere none has one.
Open ==
  /\ engine = None
  /\ engine' = IF platform = "windows" THEN flutters ELSE None
  /\ UNCHANGED <<platform, present, flutters, raw, surface, window, frame, screen>>

\* mutant: the first adapter will do
FirstAdapter(adapters) == CHOOSE a \in adapters : TRUE

\* With several it is not known which one Flutter draws with.
SoleAdapter(adapters) == IF Cardinality(adapters) = 1 THEN CHOOSE a \in adapters : TRUE ELSE None

OpenSole ==
  /\ engine = None
  /\ engine' = SoleAdapter(present)
  /\ UNCHANGED <<platform, present, flutters, raw, surface, window, frame, screen>>

-----------------------------------------------------------------------------
\* The formats each platform's Flutter shows, the raw objects a shared texture
\* takes there in the order they are made, and under each what is given back
\* when the error of a later step passes it on its way out: on Linux by the
\* arms of the two matches, elsewhere by the owner `create' holds it in. What
\* the last step makes meets no later error.
WindowsTexture == [shows |-> {"bgra", "rgba"}, steps |-> <<"resource", "handle">>,
                   arms |-> <<{"resource"}, {}>>]

\* mutant: an error of the memory is answered with no word of the image
ForgetfulTexture == [shows |-> {"rgba"}, steps |-> <<"image", "memory", "fd">>,
                     arms |-> <<{}, {"memory"}, {}>>]

LinuxTexture == [shows |-> {"rgba"}, steps |-> <<"image", "memory", "fd">>,
                 arms |-> <<{"image"}, {"memory"}, {}>>]

AppleTexture == [shows |-> {"bgra"}, steps |-> <<"surface", "pixels", "texture">>,
                 arms |-> <<{"surface"}, {"pixels"}, {}>>]

AndroidTexture == [shows |-> {"bgra", "rgba"}, steps |-> <<"texture">>, arms |-> <<{}>>]

Texture == CASE platform = "windows" -> WindowsTexture [] platform = "linux" -> LinuxTexture
             [] platform = "apple" -> AppleTexture [] platform = "android" -> AndroidTexture

\* mutant: only the innermost arm is passed
Innermost(failed) == IF failed = 1 THEN {} ELSE Texture.arms[failed - 1]

\* What the arms around a step that fails give back, each of a step before it.
GivenBack(failed) == UNION {Texture.arms[step] : step \in 1..(failed - 1)}

NewSurface(format, storable) ==
  /\ engine # None /\ surface = None
  /\ IF (format = "bgra" /\ ~storable) \/ format \notin Texture.shows
     THEN UNCHANGED <<raw, surface>>
     ELSE LET steps == Texture.steps
          IN  \/ /\ raw' = raw \cup Range(steps)
                 /\ surface' = [format |-> format, owns |-> Range(steps)]
              \/ /\ \E failed \in DOMAIN steps :
                      raw' = raw \cup (Range(SubSeq(steps, 1, failed - 1)) \ GivenBack(failed))
                 /\ UNCHANGED surface
  /\ UNCHANGED <<platform, present, flutters, engine, window, frame, screen>>

FreeSurface ==
  /\ surface # None
  /\ raw' = raw \ surface.owns /\ surface' = None
  /\ UNCHANGED <<platform, present, flutters, engine, window, frame, screen>>

Close ==
  /\ engine # None /\ surface = None /\ window = None
  /\ engine' = None
  /\ UNCHANGED <<platform, present, flutters, raw, surface, window, frame, screen>>

-----------------------------------------------------------------------------
(* Android's window: its swapchain's next image, and the engine's own      *)
(* texture where its images take no stores.                                *)
\* The native window is taken over even where the swapchain is not made.
NewWindow(takes_stores, takes_copies) ==
  /\ platform = "android" /\ engine # None /\ window = None
  /\ IF takes_stores \/ takes_copies
     THEN /\ window' = [direct |-> takes_stores, current |-> None, staging |-> 0, wrote |-> FALSE]
          /\ raw' = raw \cup {"native"}
     ELSE UNCHANGED <<window, raw>>
  /\ UNCHANGED <<platform, present, flutters, engine, surface, frame, screen>>

\* The same image until it is presented; the window may have none to give.
Target ==
  /\ window # None /\ window.current = None
  /\ window' = [window EXCEPT !.current = 0]
  /\ UNCHANGED <<platform, present, flutters, engine, raw, surface, frame, screen>>

\* The kernels write what `target' answered (their caller asks for it first).
KernelsWrite ==
  /\ window # None /\ window.current # None /\ frame < MaxFrames
  /\ frame' = frame + 1
  /\ window' = [window EXCEPT !.current = IF window.direct THEN frame' ELSE @,
                              !.staging = IF window.direct THEN @ ELSE frame', !.wrote = TRUE]
  /\ UNCHANGED <<platform, present, flutters, engine, raw, surface, screen>>

\* mutant: the image is handed over as it is
Uncopied(w) == w.current

\* What Flutter is handed: the image, with the staged texture copied into it.
Handed(w) == IF w.direct THEN w.current ELSE w.staging

\* Whatever the image holds is handed over: no write is asked for, only a
\* target. A wait that fails loses the image it had taken.
Present ==
  /\ window # None
  /\ \/ /\ window.current = None
        /\ UNCHANGED <<window, screen>>
     \/ /\ window.current # None /\ Len(screen) < MaxFrames
        /\ screen' = Append(screen, [shown |-> Handed(window), written |-> window.wrote, last |-> frame])
        /\ window' = [window EXCEPT !.current = None, !.wrote = FALSE]
     \/ /\ window.current # None /\ ~window.direct
        /\ window' = [window EXCEPT !.current = None, !.wrote = FALSE]
        /\ UNCHANGED screen
  /\ UNCHANGED <<platform, present, flutters, engine, raw, surface, frame>>

FreeWindow ==
  /\ window # None
  /\ window' = None /\ raw' = raw \ {"native"}
  /\ UNCHANGED <<platform, present, flutters, engine, surface, frame, screen>>

SurfaceNext ==
  \/ Open \/ OpenSole \/ Close \/ FreeSurface
  \/ \E format \in {"bgra", "rgba"}, storable \in BOOLEAN : NewSurface(format, storable)
  \/ \E s, c \in BOOLEAN : NewWindow(s, c)
  \/ Target \/ KernelsWrite \/ Present \/ FreeWindow

-----------------------------------------------------------------------------
\* The texture a kernel fills is on the GPU Flutter reads it on; every raw
\* object alive is owned, so that a creation that failed part way left none;
\* and where the kernels wrote since the last image was presented, Flutter is
\* handed the frame they wrote last (platform/mod.rs, linux.rs, android.rs).
SurfaceIsFlutters ==
  /\ engine # None => engine = flutters
  /\ raw = (IF surface = None THEN {} ELSE surface.owns) \cup (IF window = None THEN {} ELSE {"native"})
  /\ surface # None => surface.format \in Texture.shows
  /\ \A handed \in Range(screen) : handed.written => handed.shown = handed.last
=============================================================================
