---------------------------- MODULE AudioDevices ----------------------------
(***************************************************************************)
(* The devices behind the transport and the microphone's ring              *)
(* (audio_device: lib, backend): every door that makes or unmakes one      *)
(* holds DEVICES, while callbacks run on the devices' own threads, a       *)
(* device that is lost asks a worker to open the system's default again,   *)
(* and play, the drain and the flags they look at take no lock at all.     *)
(*                                                                         *)
(* Abstractions: a geometry is one value for rate and channels; a run is   *)
(* one that plays or none; what a device says of its latency is left out.  *)
(***************************************************************************)
EXTENDS Naturals, Sequences, FiniteSets

CONSTANTS
    Geometries,  \* the rates and channels devices run at
    Backends,    \* System and Null
    Null,        \* the backend with no hardware
    None,        \* no device, no context, nobody
    MaxCalls,    \* bound: calls that make or unmake a device
    MaxOpens     \* bound: opens, those a lost device asks for with them

Kinds == {"playback", "capture"}

VARIABLES
    context,  \* the backend of the context there is
    devices,  \* the device of each kind DEVICES names: playback, capture
    front,    \* of each kind what takes no lock: open, and the geometry
    live,     \* streams whose callback may run
    door,     \* who holds DEVICES and how far it is
    asks,     \* workers of lost devices: the kind and the open each names
    opens,    \* OPENS
    playing,  \* whether a run plays
    player,   \* play: idle, or past its look at open
    filled,   \* whether a schedule is in the transport's slots
    ring,     \* whether the microphone's ring is in memory
    reader,   \* the drain: idle, or with the ring in hand
    calls     \* calls so far

atomics == <<front, playing, filled, ring>>
threads == <<player, reader>>
vars == <<context, devices, live, door, asks, opens, calls, atomics, threads>>

Closed == [open |-> FALSE, geometry |-> None]
Nobody == [call |-> None, kind |-> "playback", step |-> "none", asked |-> None,
           follows |-> FALSE, lost |-> None, made |-> None]

Init ==
    /\ context = None
    /\ devices = [k \in Kinds |-> None]
    /\ front = [k \in Kinds |-> Closed]
    /\ live = {} /\ door = Nobody /\ asks = {} /\ opens = 0
    /\ playing = FALSE /\ player = "idle"
    /\ filled = FALSE /\ ring = FALSE /\ reader = "idle"
    /\ calls = 0

Free == door = Nobody /\ calls < MaxCalls /\ calls' = calls + 1
At(step) == door.step = step
Enters(call, k, step) == [Nobody EXCEPT !.call = call, !.kind = k, !.step = step]
Goes(step) == door' = [door EXCEPT !.step = step]
Leaves == door' = Nobody
\* The thread that plays and drains also closes, opens the microphone and hands
\* over schedules: only the output opens on a worker of its own.
ControlIdle == player = "idle" /\ reader = "idle"
ControlBusy == door.call = "close" \/ (door.call = "open" /\ door.kind = "capture")
\* What a step inside a door leaves alone: the threads outside, and the count.
Inside == UNCHANGED <<asks, calls, threads>>

-----------------------------------------------------------------------------
(* Opening: qa_audio_device_open and qa_audio_capture_start.                *)

\* Open already, nothing is made; the output looks at DEVICES, the capture at
\* its flag.  A context of another backend makes way unless an output is open.
Opens(k, geometry, backend, follows) ==
    /\ Free
    /\ IF k = "playback" THEN devices[k] = None ELSE ~front[k].open /\ ControlIdle
    /\ \/ context' = IF devices["playback"] = None THEN backend ELSE context
       \/ /\ devices["playback"] = None /\ context # backend
          /\ context' = None   \* the backend's context does not come up
    /\ door' = IF context' = None THEN Nobody
               ELSE [Enters("open", k, "build") EXCEPT !.asked = geometry, !.follows = follows]
    /\ UNCHANGED <<devices, live, asks, opens, atomics, threads>>

\* A device: the geometry it runs at of itself, and those it takes.
Device == [own : Geometries \cup {None}, takes : SUBSET Geometries]
\* What the OS says it has, or that it cannot say; the null backend has one.
SystemList == {None, <<>>} \cup [{1} -> Device]
AnyRate == [own |-> None, takes |-> Geometries]
Refreshed(list) == IF context = Null THEN <<AnyRate>> ELSE list
\* The device an index names in a list made afresh, 1 the first; with no
\* index the default, which the null backend always has.
Pick(list, index) ==
    IF Refreshed(list) = None \/ index \notin DOMAIN Refreshed(list) THEN None ELSE Refreshed(list)[index]

\* The geometry asked for, or refused it the device's own when it is another.
AtRateOrItsOwn(asked, device) ==
    IF asked \in device.takes THEN asked
    ELSE IF device.own \in device.takes THEN device.own ELSE None
\* The output's callback may find no memory for its bus.
BuildPlayback(device, asked) == IF device = None THEN {None} ELSE {None, AtRateOrItsOwn(asked, device)}
\* A capture has its device's own channels: what is asked for is a rate.
BuildCapture(device) ==
    IF device = None THEN {None}
    ELSE IF context = Null THEN Geometries
    ELSE IF device.own = None THEN {None}
    ELSE {AtRateOrItsOwn(asked, device) : asked \in Geometries}

\* A stream is made at the rate asked for or at its own, a new open; one
\* opened again is asked for as the front runs.
Stream(geometry) ==
    [kind |-> door.kind, open |-> opens + 1, geometry |-> geometry, follows |-> door.follows]
Asked == IF door.call = "reopen" THEN front[door.kind].geometry ELSE door.asked
Built ==
    UNION {IF door.kind = "playback" THEN BuildPlayback(Pick(list, index), Asked) ELSE BuildCapture(Pick(list, index)) :
              list \in SystemList, index \in IF door.follows THEN {1} ELSE {1, 2}}
Builds ==
    /\ At("build")
    /\ opens' = opens + 1
    /\ \E geometry \in Built :
          door' = IF geometry = None
                  THEN IF door.call = "open" THEN Nobody ELSE [door EXCEPT !.step = "drop"]
                  ELSE [door EXCEPT !.made = Stream(geometry),
                                    !.step = IF door.call = "open" THEN "front" ELSE "drop"]
    /\ Inside /\ UNCHANGED <<context, devices, live, atomics>>

\* PLAYBACK.open and CAPTURE.open: the ring may not come up.
Fronts ==
    /\ At("front")
    /\ \/ /\ front' = [front EXCEPT ![door.kind] = [open |-> TRUE, geometry |-> door.made.geometry]]
          /\ playing' = (playing /\ door.kind = "capture")
          /\ ring' = (ring \/ door.kind = "capture")
          /\ Goes("start")
       \/ /\ door.kind = "capture"
          /\ Leaves /\ UNCHANGED <<front, playing, ring>>
    /\ Inside /\ UNCHANGED <<context, devices, live, opens, filled>>

\* The output that did not start is closed as it was opened; the capture, with
\* its ring.
Starts ==
    /\ At("start")
    /\ live' = live \cup {door.made}
    /\ Goes("record")
    /\ Inside /\ UNCHANGED <<context, devices, opens, atomics>>
\* Mutant: the flag of an output that did not start is left up.
StartFailsUnsaid ==
    /\ At("start")
    /\ live' = live /\ Leaves
    /\ Inside /\ UNCHANGED <<context, devices, opens, atomics>>
StartFails ==
    /\ At("start")
    /\ CASE door.call = "reopen" -> Goes("fail")
         [] door.kind = "capture" /\ door.call = "open" -> Goes("shut")
         [] OTHER -> Leaves
    /\ front' = IF door.call = "open" /\ door.kind = "playback"
                THEN [front EXCEPT !["playback"].open = FALSE] ELSE front
    /\ Inside /\ UNCHANGED <<context, devices, live, opens, playing, filled, ring>>

Records ==
    /\ At("record")
    /\ devices' = [devices EXCEPT ![door.kind] = door.made]
    /\ Leaves
    /\ Inside /\ UNCHANGED <<context, live, opens, atomics>>

-----------------------------------------------------------------------------
(* Closing: the device is taken, silenced and dropped, its memory freed.    *)

Closes(k) ==
    /\ Free /\ devices[k] # None /\ ControlIdle
    /\ devices' = [devices EXCEPT ![k] = None]
    /\ door' = [Enters("close", k, IF k = "playback" THEN "silence" ELSE "drop")
                   EXCEPT !.lost = devices[k]]
    /\ UNCHANGED <<context, live, asks, opens, atomics, threads>>

\* Mutant: the memory is freed before the device is dropped.
SilencesAndFrees ==
    /\ At("silence")
    /\ playing' = FALSE
    /\ Goes("free")
    /\ Inside /\ UNCHANGED <<context, devices, live, opens, front, filled, ring>>
\* The run is silenced first; a device that failed to open again is gone by then.
Silences ==
    /\ At("silence")
    /\ playing' = FALSE
    /\ Goes(IF door.call = "close" THEN "drop" ELSE "free")
    /\ Inside /\ UNCHANGED <<context, devices, live, opens, front, filled, ring>>

\* Once the drop returns the device's callback can no longer run.  A device
\* being opened again starts only at the geometry the front runs at.
\* Mutant: a default of another geometry is taken.
FitAny(made) == made # None
Fit(made) == made # None /\ made.geometry = front[door.kind].geometry
AfterDrop ==
    CASE door.call = "close" -> IF door.kind = "playback" THEN "free" ELSE "shut"
      [] door.call = "reopen" /\ Fit(door.made) -> "start"
      [] OTHER -> "fail"
\* Mutant: the lost device lives on beside the one opened for it.
DropsOnlyClosed ==
    /\ At("drop")
    /\ live' = IF door.call = "close" THEN live \ {door.lost} ELSE live
    /\ Goes(AfterDrop)
    /\ Inside /\ UNCHANGED <<context, devices, opens, atomics>>
Drops ==
    /\ At("drop")
    /\ live' = live \ {door.lost}
    /\ Goes(AfterDrop)
    /\ Inside /\ UNCHANGED <<context, devices, opens, atomics>>

\* A reopening that came to nothing closes the front.
Fails ==
    /\ At("fail")
    /\ Goes(IF door.kind = "playback" THEN "silence" ELSE "shut")
    /\ Inside /\ UNCHANGED <<context, devices, live, opens, atomics>>

\* The transport frees its slots and then says it is closed; the capture says
\* so first and frees its ring after.
Frees ==
    /\ At("free")
    /\ IF door.kind = "playback"
       THEN filled' = FALSE /\ UNCHANGED ring /\ Goes("shut")
       ELSE ring' = FALSE /\ UNCHANGED filled /\ Leaves
    /\ Inside /\ UNCHANGED <<context, devices, live, opens, front, playing>>
Shuts ==
    /\ At("shut")
    /\ front' = [front EXCEPT ![door.kind].open = FALSE]
    /\ IF door.kind = "playback" THEN Leaves ELSE Goes("free")
    /\ Inside /\ UNCHANGED <<context, devices, live, opens, playing, filled, ring>>

\* The schedule's door frees and fills slots: it holds DEVICES too.
Schedules ==
    /\ Free /\ ControlIdle /\ filled' = TRUE
    /\ UNCHANGED <<context, devices, live, door, asks, opens, front, playing, ring, threads>>

-----------------------------------------------------------------------------
(* A lost device follows the default: follow_default, reopen_output and     *)
(* reopen_input.                                                            *)

\* A stream opened on the default says it lost it, once or more than once, on
\* its own thread; a worker of its own is left to ask.
Loses(stream) ==
    /\ stream \in live /\ stream.follows
    /\ opens + Cardinality(asks) < MaxOpens
    /\ asks' = asks \cup {[kind |-> stream.kind, open |-> stream.open]}
    /\ UNCHANGED <<context, devices, live, door, opens, calls, atomics, threads>>

Named(ask) == devices[ask.kind] # None /\ devices[ask.kind].open = ask.open
Reopens(ask) ==
    /\ door = Nobody /\ ask \in asks
    /\ asks' = asks \ {ask}
    /\ IF Named(ask)
       THEN /\ devices' = [devices EXCEPT ![ask.kind] = None]
            /\ door' = [Enters("reopen", ask.kind, IF context = None THEN "drop" ELSE "build")
                           EXCEPT !.lost = devices[ask.kind], !.follows = TRUE]
       ELSE UNCHANGED <<devices, door>>
    /\ UNCHANGED <<context, live, opens, calls, atomics, threads>>

Inner == Builds \/ Fronts \/ Starts \/ StartFails \/ Records \/ Silences \/ Drops \/ Fails
         \/ Frees \/ Shuts

-----------------------------------------------------------------------------
(* What takes no lock: play, stop, a run's end, and the drain.              *)

Lockless == UNCHANGED <<context, devices, front, live, door, asks, opens, filled, ring, calls>>

PlayLooks ==
    /\ ControlIdle /\ ~ControlBusy /\ front["playback"].open
    /\ player' = "fields" /\ playing' = FALSE
    /\ Lockless /\ UNCHANGED reader
PlayRuns ==
    /\ player = "fields"
    /\ player' = "idle" /\ playing' = TRUE
    /\ Lockless /\ UNCHANGED reader
Ends ==
    /\ playing /\ \E s \in live : s.kind = "playback"
    /\ playing' = FALSE
    /\ Lockless /\ UNCHANGED threads

DrainLooks ==
    /\ ControlIdle /\ ~ControlBusy /\ front["capture"].open
    /\ reader' = "opened"
    /\ Lockless /\ UNCHANGED <<playing, player>>
DrainEnds ==
    /\ reader = "opened"
    /\ reader' = "idle"
    /\ Lockless /\ UNCHANGED <<playing, player>>

Next ==
    \/ \E k \in Kinds, g \in Geometries, b \in Backends, follows \in BOOLEAN : Opens(k, g, b, follows)
    \/ \E k \in Kinds : Closes(k)
    \/ Schedules
    \/ Inner
    \/ \E s \in live : Loses(s)
    \/ \E ask \in asks : Reopens(ask)
    \/ PlayLooks \/ PlayRuns \/ Ends \/ DrainLooks \/ DrainEnds

Spec == Init /\ [][Next]_vars

\* A door that was entered is left, and the lock lets every worker in: nobody
\* waits for a device's thread or for Dart while holding it.
Fairness == WF_vars(Inner) /\ SF_vars(\E ask \in asks : Reopens(ask))
FairSpec == Spec /\ Fairness

-----------------------------------------------------------------------------
(* Properties.                                                              *)

Streams == [kind : Kinds, open : 1..MaxOpens + MaxCalls, geometry : Geometries, follows : BOOLEAN]

\* The devices, the streams and whoever holds the door.
TypeOK ==
    /\ context \in Backends \cup {None}
    /\ devices \in [Kinds -> Streams \cup {None}] /\ live \subseteq Streams
    /\ \A k \in Kinds : devices[k] # None => devices[k].kind = k
    /\ front \in [Kinds -> [open : BOOLEAN, geometry : Geometries \cup {None}]]
    /\ door.lost \in Streams \cup {None} /\ door.made \in Streams \cup {None}
    /\ door.step = "none" <=> door = Nobody

\* Two callbacks never move one transport or fill one ring, and the one that
\* runs is of the geometry the transport mixes at (reopen_output: "two would
\* both move the transport").
OneCallback ==
    \A k \in Kinds :
        /\ Cardinality({s \in live : s.kind = k}) <= 1
        /\ \A s \in live : s.kind = k => front[k].open /\ s.geometry = front[k].geometry

\* When nobody holds the door, what the flags say, what DEVICES names, what
\* runs and what is in memory are the same, whichever step failed.
DoorsAgree ==
    door = Nobody =>
        /\ \A k \in Kinds :
              /\ front[k].open <=> devices[k] # None
              /\ {s \in live : s.kind = k} = {devices[k]} \ {None}
        /\ ring <=> front["capture"].open

\* A close, and a reopening that fails, free the slots and the ring with no
\* callback of their kind left to read them (reopen_output, reopen_input and the
\* closes of lib.rs). Who else reads them is outside this module: the swap of
\* schedules, and the drain.
NobodyUnderneath ==
    [][ /\ filled /\ ~filled' => \A s \in live : s.kind # "playback"
        /\ ring /\ ~ring' => \A s \in live : s.kind # "capture" ]_vars

\* A device that says it lost its own is opened again or closed: nobody is left
\* with one that is silent and says it is open.
LostIsAnswered ==
    \A k \in Kinds, n \in 1..MaxOpens :
        [kind |-> k, open |-> n] \in asks ~>
            \A s \in live : s.kind = k => s.open # n

=============================================================================
