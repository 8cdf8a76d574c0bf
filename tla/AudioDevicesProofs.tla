------------------------- MODULE AudioDevicesProofs -------------------------
(***************************************************************************)
(* What the devices behind the transport and the microphone keep of their  *)
(* promises, proved for any geometries, backends, lists of devices and     *)
(* number of calls, whatever is lost, refused or opened again meanwhile:   *)
(* one callback of a kind, doors that agree with what runs once nobody     *)
(* holds DEVICES, and no memory freed under a callback.                    *)
(***************************************************************************)
EXTENDS AudioDevices, FiniteSetTheorems, TLAPS

\* What stands for no device is no value of another kind.
Distinct ==
    /\ MaxCalls \in Nat /\ MaxOpens \in Nat
    /\ None \notin Geometries /\ None \notin Backends /\ None \notin Streams

-----------------------------------------------------------------------------
(* The invariant.                                                           *)

\* The callbacks of one kind that may run.
Of(k) == {s \in live : s.kind = k}

Steps == {"none", "build", "front", "start", "record", "silence", "drop", "fail", "free", "shut"}
Doors == [call : {None, "open", "close", "reopen"}, kind : Kinds, step : Steps,
          asked : Geometries \cup {None}, follows : BOOLEAN,
          lost : Streams \cup {None}, made : Streams \cup {None}]

\* A door's streams are of its kind.
DoorFits(d) ==
    /\ d \in Doors /\ (d.step = "none" <=> d = Nobody)
    /\ d.made # None => d.made.kind = d.kind
    /\ d.lost # None => d.lost.kind = d.kind

Typed ==
    /\ context \in Backends \cup {None}
    /\ devices \in [Kinds -> Streams \cup {None}]
    /\ \A k \in Kinds : devices[k] # None => devices[k].kind = k
    /\ front \in [Kinds -> [open : BOOLEAN, geometry : Geometries \cup {None}]]
    /\ live \subseteq Streams
    /\ DoorFits(door)
    /\ ring \in BOOLEAN /\ filled \in BOOLEAN

\* Every open was asked for, by a call or by a device that was lost.
Pending(d) == IF d.step = "build" THEN 1 ELSE 0
Counted ==
    /\ opens \in Nat /\ calls \in Nat /\ calls <= MaxCalls
    /\ asks \subseteq [kind : Kinds, open : Nat] /\ IsFiniteSet(asks)
    /\ opens + Cardinality(asks) + Pending(door) <= MaxOpens + calls
    /\ calls = 0 => live = {} /\ door = Nobody /\ \A k \in Kinds : devices[k] = None

\* A kind whose door nobody is inside: the flag, the device and what runs.
AtRest(k) ==
    /\ front[k].open <=> devices[k] # None
    /\ Of(k) = {devices[k]} \ {None}
    /\ devices[k] # None => devices[k].geometry = front[k].geometry
    /\ k = "capture" => (ring <=> front[k].open)

\* Of a kind with somebody inside: its front is down or up, and a stream runs.
Down(k) == ~front[k].open /\ (k = "capture" => ~ring)
Up(k) == front[k].open /\ (k = "capture" => ring)
Runs(k, s) == s # None /\ Of(k) = {s} /\ s.geometry = front[k].geometry

\* What each step inside the door finds.
Finds(k) ==
    \/ door.step = "build" /\ door.call = "open" /\ Down(k) /\ Of(k) = {}
    \/ door.step = "build" /\ door.call = "reopen" /\ Up(k) /\ Runs(k, door.lost)
    \/ door.step = "front" /\ door.call = "open" /\ door.made # None /\ Down(k) /\ Of(k) = {}
    \/ /\ door.step = "start" /\ door.call \in {"open", "reopen"} /\ Up(k) /\ Of(k) = {}
       /\ door.made # None /\ door.made.geometry = front[k].geometry
    \/ door.step = "record" /\ Up(k) /\ Runs(k, door.made)
    \/ /\ door.step = "silence" /\ k = "playback" /\ Up(k)
       /\ \/ door.call = "close" /\ Runs(k, door.lost)
          \/ door.call = "reopen" /\ Of(k) = {}
    \/ door.step = "drop" /\ door.call \in {"close", "reopen"} /\ Up(k) /\ Runs(k, door.lost)
    \/ door.step = "fail" /\ door.call = "reopen" /\ Up(k) /\ Of(k) = {}
    \/ door.step = "free" /\ k = "playback" /\ Up(k) /\ Of(k) = {}
    \/ door.step = "free" /\ k = "capture" /\ ~front[k].open /\ ring /\ Of(k) = {}
    \/ door.step = "shut" /\ Up(k) /\ Of(k) = {}

Within(k) == devices[k] = None /\ Finds(k)
Stands(k) == IF door # Nobody /\ door.kind = k THEN Within(k) ELSE AtRest(k)

IInv == Typed /\ Counted /\ \A k \in Kinds : Stands(k)

\* What a step may not free.
Pulls ==
    /\ filled /\ ~filled' => \A s \in live : s.kind # "playback"
    /\ ring /\ ~ring' => \A s \in live : s.kind # "capture"

-----------------------------------------------------------------------------
(* What the invariant says.                                                 *)

\* At most one callback of a kind runs, of the geometry of its front.
LEMMA OneRuns ==
    ASSUME IInv, NEW k \in Kinds
    PROVE  /\ \E s : Of(k) \subseteq {s}
           /\ \A s \in Of(k) : front[k].open /\ s.geometry = front[k].geometry
<1>1. CASE door # Nobody /\ door.kind = k
  BY <1>1 DEF IInv, Stands, Within, Finds, Runs, Up
<1>2. CASE ~(door # Nobody /\ door.kind = k)
  <2>1. AtRest(k)
    BY <1>2 DEF IInv, Stands
  <2> QED
    BY <2>1 DEF AtRest
<1> QED
  BY <1>1, <1>2

LEMMA InvIsOneCallback ==
    ASSUME IInv
    PROVE  OneCallback
<1>1. ASSUME NEW k \in Kinds
      PROVE  /\ Cardinality({s \in live : s.kind = k}) <= 1
             /\ \A s \in live : s.kind = k => front[k].open /\ s.geometry = front[k].geometry
  <2>1. PICK s : Of(k) \subseteq {s}
    BY OneRuns
  <2>2. Of(k) = {} \/ Of(k) = {s}
    BY <2>1
  <2>3. Cardinality(Of(k)) <= 1
    BY <2>2, FS_EmptySet, FS_Singleton
  <2>4. \A t \in live : t.kind = k => front[k].open /\ t.geometry = front[k].geometry
    BY OneRuns DEF Of
  <2> QED
    BY <2>3, <2>4 DEF Of
<1> QED
  BY <1>1 DEF OneCallback

LEMMA InvIsAgreed ==
    ASSUME IInv
    PROVE  DoorsAgree
<1>1. SUFFICES ASSUME door = Nobody
               PROVE  /\ \A k \in Kinds :
                            /\ front[k].open <=> devices[k] # None
                            /\ {s \in live : s.kind = k} = {devices[k]} \ {None}
                      /\ ring <=> front["capture"].open
  BY DEF DoorsAgree
<1>2. \A k \in Kinds : AtRest(k)
  BY <1>1 DEF IInv, Stands
<1> QED
  BY <1>2 DEF AtRest, Of, Kinds

LEMMA InvIsTyped ==
    ASSUME IInv
    PROVE  TypeOK
BY DEF IInv, Typed, DoorFits, Doors, TypeOK

-----------------------------------------------------------------------------
(* The actions.                                                             *)

\* A kind the step leaves alone.
Same(k) ==
    /\ devices'[k] = devices[k] /\ front'[k] = front[k] /\ Of(k)' = Of(k)
    /\ k = "capture" => ring' = ring

LEMMA RestKept ==
    ASSUME NEW k, AtRest(k), Same(k)
    PROVE  AtRest(k)'
BY DEF AtRest, Same

LEMMA InitHolds ==
    ASSUME Distinct, Init
    PROVE  IInv
<1>1. Typed
  <2>1. Nobody \in Doors /\ Nobody.step = "none" /\ Nobody.made = None /\ Nobody.lost = None
    BY DEF Nobody, Doors, Steps, Kinds
  <2>2. DoorFits(door)
    BY <2>1 DEF Init, DoorFits
  <2> QED
    BY <2>2 DEF Init, Typed, Closed
<1>2. Counted
  BY FS_EmptySet DEF Init, Counted, Pending, Distinct, Nobody
<1>3. ASSUME NEW k \in Kinds PROVE Stands(k)
  BY DEF Init, Stands, AtRest, Of, Closed
<1> QED
  BY <1>1, <1>2, <1>3 DEF IInv

\* Where a step inside the door leaves the kind it is at.
Reached(k) ==
    \/ door' = Nobody /\ AtRest(k)'
    \/ door' # Nobody /\ door'.kind = k /\ Within(k)'

\* Somebody enters or is inside one kind, and leaves the other as it is.
LEMMA InsideKeeps ==
    ASSUME IInv, NEW d \in Kinds, door = Nobody \/ door.kind = d,
           Typed', Counted', Reached(d), \A k \in Kinds : k # d => Same(k)
    PROVE  IInv'
<1>1. ASSUME NEW k \in Kinds PROVE Stands(k)'
  <2>1. CASE k = d
    BY <2>1 DEF Reached, Stands
  <2>2. CASE k # d
    <3>1. AtRest(k)
      BY <2>2 DEF IInv, Stands
    <3>2. AtRest(k)'
      BY <3>1, <2>2, RestKept
    <3> QED
      BY <2>2, <3>2 DEF Reached, Stands
  <2> QED
    BY <2>1, <2>2
<1> QED
  BY <1>1 DEF IInv

\* A step inside that opens nothing keeps the count.
LEMMA CountKept ==
    ASSUME Distinct, IInv, door # Nobody, UNCHANGED <<asks, calls, opens>>, door'.step # "build"
    PROVE  Counted'
<1>1. opens' + Cardinality(asks') + Pending(door') <= MaxOpens + calls'
  <2>1. Cardinality(asks) \in Nat
    BY FS_CardinalityType DEF IInv, Counted
  <2>2. Pending(door) \in {0, 1} /\ Pending(door') = 0
    BY DEF Pending
  <2> QED
    BY <2>1, <2>2 DEF IInv, Counted, Distinct
<1>2. calls # 0
  BY DEF IInv, Counted
<1> QED
  BY <1>1, <1>2 DEF IInv, Counted

\* The same callbacks run, and those of a kind are as they were.
LEMMA LiveKept ==
    ASSUME NEW k, live' = live
    PROVE  Of(k)' = Of(k)
BY DEF Of

\* A stream of one kind that starts or is dropped is none of another.
LEMMA LiveOfOther ==
    ASSUME NEW k, NEW STATE s, s.kind # k, live' = live \cup {s} \/ live' = live \ {s}
    PROVE  Of(k)' = Of(k)
BY DEF Of

\* The door's record, and what a step makes of it.
LEMMA DoorStep ==
    ASSUME NEW step \in Steps \ {"none"}, DoorFits(door), door.step # "none", Goes(step)
    PROVE  /\ DoorFits(door') /\ door' # Nobody /\ door'.step = step
           /\ door'.kind = door.kind /\ door'.call = door.call
           /\ door'.made = door.made /\ door'.lost = door.lost
<1>1. door \in Doors
  BY DEF DoorFits
<1>2. /\ door' \in Doors /\ door'.step = step
      /\ door'.kind = door.kind /\ door'.call = door.call
      /\ door'.made = door.made /\ door'.lost = door.lost
  BY <1>1 DEF Goes, Doors
<1>3. door' # Nobody
  BY <1>2 DEF Nobody
<1> QED
  BY <1>2, <1>3 DEF DoorFits

LEMMA DoorLeft ==
    ASSUME Leaves
    PROVE  DoorFits(door') /\ door' = Nobody /\ door'.step = "none"
<1>1. Nobody \in Doors /\ Nobody.step = "none" /\ Nobody.made = None /\ Nobody.lost = None
  BY DEF Nobody, Doors, Steps, Kinds
<1> QED
  BY <1>1 DEF Leaves, DoorFits

\* Who is inside: a kind of device, at a step that finds what it needs.
LEMMA Someone ==
    ASSUME IInv, door.step # "none"
    PROVE  door # Nobody /\ DoorFits(door) /\ \E d \in Kinds : door.kind = d /\ Within(d)
<1>1. door # Nobody
  BY DEF Nobody
<1>2. door.kind \in Kinds
  BY DEF IInv, Typed, DoorFits, Doors
<1> QED
  BY <1>1, <1>2 DEF IInv, Typed, Stands

-----------------------------------------------------------------------------
(* The steps inside a door.                                                 *)

LEMMA RecordsKeeps ==
    ASSUME Distinct, IInv, Records
    PROVE  IInv' /\ Pulls
<1>1. At("record") /\ door.step = "record" /\ door.step # "none"
  BY DEF Records, At
<1>2. PICK d \in Kinds : door.kind = d /\ Within(d)
  BY <1>1, Someone
<1>d. door # Nobody /\ DoorFits(door)
  BY <1>1, Someone
<1>3. Up(d) /\ Runs(d, door.made)
  BY <1>1, <1>2, <1>d DEF Within, Finds
<1>4. DoorFits(door') /\ door' = Nobody /\ door'.step = "none"
  BY DoorLeft DEF Records
<1>5. door.made \in Streams /\ door.made.kind = d
  BY <1>2, <1>d, <1>3 DEF DoorFits, Doors, Runs
<1>6. Typed'
  BY <1>2, <1>4, <1>5 DEF IInv, Typed, Records, Inside, atomics
<1>7. Counted'
  BY <1>2, <1>d, <1>4, CountKept DEF Records, Inside
<1>8. AtRest(d)'
  <2>1. devices'[d] = door.made
    BY <1>2, <1>d DEF IInv, Typed, Records
  <2>2. Of(d)' = Of(d)
    BY LiveKept DEF Records
  <2> QED
    BY <2>1, <2>2, <1>3 DEF AtRest, Up, Runs, Records, atomics
<1>9. \A k \in Kinds : k # d => Same(k)
  BY <1>2, LiveKept DEF Records, Same, atomics, IInv, Typed
<1>10. IInv'
  BY <1>2, <1>d, <1>4, <1>6, <1>7, <1>8, <1>9, InsideKeeps DEF Reached
<1> QED
  BY <1>10 DEF Pulls, Records, atomics

LEMMA SilencesKeeps ==
    ASSUME Distinct, IInv, Silences
    PROVE  IInv' /\ Pulls
<1> DEFINE step == IF door.call = "close" THEN "drop" ELSE "free"
<1>1. At("silence") /\ door.step = "silence" /\ door.step # "none"
  BY DEF Silences, At
<1>2. PICK d \in Kinds : door.kind = d /\ Within(d)
  BY <1>1, Someone
<1>d. door # Nobody /\ DoorFits(door)
  BY <1>1, Someone
<1>3. /\ d = "playback" /\ Up(d) /\ devices[d] = None
      /\ \/ door.call = "close" /\ Runs(d, door.lost)
         \/ door.call = "reopen" /\ Of(d) = {}
  BY <1>1, <1>2 DEF Within, Finds
<1>4. /\ DoorFits(door') /\ door' # Nobody /\ door'.step = step
      /\ door'.kind = d /\ door'.call = door.call /\ door'.lost = door.lost
  BY <1>1, <1>2, <1>d, DoorStep DEF Silences, Steps
<1>6. Typed'
  BY <1>4 DEF IInv, Typed, Silences, Inside
<1>7. Counted'
  BY <1>d, <1>4, CountKept DEF Silences, Inside
<1>8. Within(d)'
  <2>1. Of(d)' = Of(d) /\ Up(d)' /\ devices'[d] = None /\ front' = front
    BY <1>3, LiveKept DEF Silences, Up
  <2>2. CASE door.call = "close" /\ Runs(d, door.lost)
    BY <2>1, <2>2, <1>4 DEF Within, Finds, Runs
  <2>3. CASE door.call = "reopen" /\ Of(d) = {}
    BY <2>1, <2>3, <1>3, <1>4 DEF Within, Finds
  <2> QED
    BY <2>2, <2>3, <1>3
<1>9. \A k \in Kinds : k # d => Same(k)
  BY LiveKept DEF Silences, Same
<1>10. IInv'
  BY <1>2, <1>d, <1>4, <1>6, <1>7, <1>8, <1>9, InsideKeeps DEF Reached
<1> QED
  BY <1>10 DEF Pulls, Silences

LEMMA FailsKeeps ==
    ASSUME Distinct, IInv, Fails
    PROVE  IInv' /\ Pulls
<1>1. At("fail") /\ door.step = "fail" /\ door.step # "none"
  BY DEF Fails, At
<1>2. PICK d \in Kinds : door.kind = d /\ Within(d)
  BY <1>1, Someone
<1>d. door # Nobody /\ DoorFits(door)
  BY <1>1, Someone
<1> DEFINE step == IF d = "playback" THEN "silence" ELSE "shut"
<1>3. door.call = "reopen" /\ Up(d) /\ Of(d) = {} /\ devices[d] = None
  BY <1>1, <1>2, <1>d DEF Within, Finds
<1>4. /\ DoorFits(door') /\ door' # Nobody /\ door'.step = step
      /\ door'.kind = d /\ door'.call = door.call
  BY <1>1, <1>2, <1>d, DoorStep DEF Fails, Steps
<1>6. Typed'
  BY <1>4 DEF IInv, Typed, Fails, Inside, atomics
<1>7. Counted'
  BY <1>2, <1>d, <1>4, CountKept DEF Fails, Inside
<1>8. Within(d)'
  <2>1. Of(d)' = Of(d) /\ Up(d)' /\ devices'[d] = None
    BY <1>3, LiveKept DEF Fails, Up, atomics
  <2> QED
    BY <2>1, <1>2, <1>d, <1>3, <1>4 DEF Within, Finds, Kinds
<1>9. \A k \in Kinds : k # d => Same(k)
  BY LiveKept DEF Fails, Same, atomics
<1>10. IInv'
  BY <1>2, <1>d, <1>4, <1>6, <1>7, <1>8, <1>9, InsideKeeps DEF Reached
<1> QED
  BY <1>10 DEF Pulls, Fails, atomics

LEMMA StartsKeeps ==
    ASSUME Distinct, IInv, Starts
    PROVE  IInv' /\ Pulls
<1>1. At("start") /\ door.step = "start" /\ door.step # "none"
  BY DEF Starts, At
<1>2. PICK d \in Kinds : door.kind = d /\ Within(d)
  BY <1>1, Someone
<1>d. door # Nobody /\ DoorFits(door)
  BY <1>1, Someone
<1>3. /\ Up(d) /\ Of(d) = {} /\ devices[d] = None
      /\ door.made # None /\ door.made.geometry = front[d].geometry
  BY <1>1, <1>2 DEF Within, Finds
<1>4. /\ DoorFits(door') /\ door' # Nobody /\ door'.step = "record"
      /\ door'.kind = d /\ door'.made = door.made
  BY <1>1, <1>2, <1>d, DoorStep DEF Starts, Steps
<1>5. door.made \in Streams /\ door.made.kind = d
  BY <1>2, <1>3, <1>d DEF DoorFits, Doors
<1>6. Typed'
  BY <1>4, <1>5 DEF IInv, Typed, Starts, Inside, atomics
<1>7. Counted'
  BY <1>d, <1>4, CountKept DEF Starts, Inside
<1>8. Within(d)'
  <2>1. Of(d)' = {door.made}
    BY <1>3, <1>5 DEF Starts, Of
  <2>2. Up(d)' /\ front' = front /\ devices'[d] = None
    BY <1>3 DEF Starts, Up, atomics
  <2> QED
    BY <2>1, <2>2, <1>3, <1>4 DEF Within, Finds, Runs
<1>9. \A k \in Kinds : k # d => Same(k)
  BY <1>5, LiveOfOther DEF Starts, Same, atomics
<1>10. IInv'
  BY <1>2, <1>d, <1>4, <1>6, <1>7, <1>8, <1>9, InsideKeeps DEF Reached
<1> QED
  BY <1>10 DEF Pulls, Starts, atomics

\* A device dropped is the one its door lost: nothing of that kind runs after.
LEMMA DropsKeeps ==
    ASSUME Distinct, IInv, Drops
    PROVE  IInv' /\ Pulls
<1>1. At("drop") /\ door.step = "drop" /\ door.step # "none"
  BY DEF Drops, At
<1>2. PICK d \in Kinds : door.kind = d /\ Within(d)
  BY <1>1, Someone
<1>d. door # Nobody /\ DoorFits(door)
  BY <1>1, Someone
<1>3. door.call \in {"close", "reopen"} /\ Up(d) /\ Runs(d, door.lost) /\ devices[d] = None
  BY <1>1, <1>2 DEF Within, Finds
<1>s. AfterDrop \in Steps \ {"none"}
  BY DEF AfterDrop, Steps
<1>4. /\ DoorFits(door') /\ door' # Nobody /\ door'.step = AfterDrop
      /\ door'.kind = d /\ door'.call = door.call /\ door'.made = door.made
  BY <1>1, <1>2, <1>d, <1>s, DoorStep DEF Drops
<1>5. door.lost \in Streams /\ door.lost.kind = d
  BY <1>2, <1>3, <1>d DEF DoorFits, Doors, Runs
<1>6. Typed'
  BY <1>4 DEF IInv, Typed, Drops, Inside, atomics
<1>b. AfterDrop # "build"
  BY DEF AfterDrop
<1>7. Counted'
  BY <1>d, <1>4, <1>b, CountKept DEF Drops, Inside
<1>8. Within(d)'
  <2>1. Of(d)' = {}
    BY <1>3 DEF Drops, Of, Runs
  <2>2. Up(d)' /\ front' = front /\ devices'[d] = None
    BY <1>3 DEF Drops, Up, atomics
  <2>3. CASE door.call = "close"
    BY <2>1, <2>2, <2>3, <1>2, <1>4 DEF Within, Finds, AfterDrop, Kinds
  <2>4. CASE door.call = "reopen" /\ Fit(door.made)
    BY <2>1, <2>2, <2>4, <1>2, <1>4 DEF Within, Finds, AfterDrop, Fit
  <2>5. CASE door.call = "reopen" /\ ~Fit(door.made)
    BY <2>1, <2>2, <2>5, <1>4 DEF Within, Finds, AfterDrop
  <2> QED
    BY <2>3, <2>4, <2>5, <1>3
<1>9. \A k \in Kinds : k # d => Same(k)
  BY <1>5, LiveOfOther DEF Drops, Same, atomics
<1>10. IInv'
  BY <1>2, <1>d, <1>4, <1>6, <1>7, <1>8, <1>9, InsideKeeps DEF Reached
<1> QED
  BY <1>10 DEF Pulls, Drops, atomics

LEMMA StartFailsKeeps ==
    ASSUME Distinct, IInv, StartFails
    PROVE  IInv' /\ Pulls
<1>1. At("start") /\ door.step = "start" /\ door.step # "none"
  BY DEF StartFails, At
<1>2. PICK d \in Kinds : door.kind = d /\ Within(d)
  BY <1>1, Someone
<1>d. door # Nobody /\ DoorFits(door)
  BY <1>1, Someone
<1>3. /\ Up(d) /\ Of(d) = {} /\ devices[d] = None
      /\ door.call \in {"open", "reopen"}
  BY <1>1, <1>2 DEF Within, Finds
<1>t. Typed /\ d \in {"playback", "capture"}
  BY DEF IInv, Kinds
<1>o. Of(d)' = {} /\ devices' = devices
  BY <1>3, LiveKept DEF StartFails
<1>9. \A k \in Kinds : k # d => Same(k)
  <2>1. \A k \in Kinds : k # d => front'[k] = front[k]
    BY <1>2, <1>t DEF StartFails, Typed
  <2> QED
    BY <2>1, LiveKept DEF StartFails, Same
<1>f. CASE door.call = "reopen" \/ d = "capture"
  <2> DEFINE step == IF door.call = "reopen" THEN "fail" ELSE "shut"
  <2>1. Goes(step) /\ front' = front
    BY <1>2, <1>3, <1>f DEF StartFails
  <2>2. /\ DoorFits(door') /\ door' # Nobody /\ door'.step = step
        /\ door'.kind = d /\ door'.call = door.call
    BY <2>1, <1>1, <1>2, <1>d, DoorStep DEF Steps
  <2>3. Typed'
    BY <2>1, <2>2 DEF IInv, Typed, StartFails, Inside
  <2>4. Counted'
    BY <1>d, <2>2, CountKept DEF StartFails, Inside
  <2>5. Within(d)'
    BY <2>1, <2>2, <1>o, <1>3 DEF Within, Finds, Up, StartFails
  <2>6. IInv'
    BY <1>2, <1>d, <2>2, <2>3, <2>4, <2>5, <1>9, InsideKeeps DEF Reached
  <2> QED
    BY <2>6 DEF Pulls, StartFails
<1>g. CASE door.call = "open" /\ d = "playback"
  <2>1. Leaves /\ front' = [front EXCEPT !["playback"].open = FALSE]
    BY <1>2, <1>g DEF StartFails
  <2>2. DoorFits(door') /\ door' = Nobody /\ door'.step = "none"
    BY <2>1, DoorLeft
  <2>3. front' \in [Kinds -> [open : BOOLEAN, geometry : Geometries \cup {None}]] /\ ~front'[d].open
    BY <2>1, <1>g, <1>t DEF Typed
  <2>4. Typed'
    BY <2>2, <2>3 DEF IInv, Typed, StartFails, Inside
  <2>5. Counted'
    BY <1>d, <2>2, CountKept DEF StartFails, Inside
  <2>6. AtRest(d)'
    BY <2>3, <1>g, <1>o, <1>3 DEF AtRest
  <2>7. IInv'
    BY <1>2, <1>d, <2>2, <2>4, <2>5, <2>6, <1>9, InsideKeeps DEF Reached
  <2> QED
    BY <2>7 DEF Pulls, StartFails
<1> QED
  BY <1>f, <1>g, <1>3, <1>t

LEMMA FrontsKeeps ==
    ASSUME Distinct, IInv, Fronts
    PROVE  IInv' /\ Pulls
<1>1. At("front") /\ door.step = "front" /\ door.step # "none"
  BY DEF Fronts, At
<1>2. PICK d \in Kinds : door.kind = d /\ Within(d)
  BY <1>1, Someone
<1>d. door # Nobody /\ DoorFits(door)
  BY <1>1, Someone
<1>3. /\ Down(d) /\ Of(d) = {} /\ devices[d] = None
      /\ door.call = "open" /\ door.made # None
  BY <1>1, <1>2 DEF Within, Finds
<1>t. Typed /\ d \in {"playback", "capture"}
  BY DEF IInv, Kinds
<1>o. Of(d)' = {} /\ devices' = devices
  BY <1>3, LiveKept DEF Fronts
<1>5. door.made.geometry \in Geometries
  BY <1>3, <1>d DEF DoorFits, Doors, Streams
<1>f. CASE /\ front' = [front EXCEPT ![door.kind] = [open |-> TRUE, geometry |-> door.made.geometry]]
           /\ ring' = (ring \/ door.kind = "capture") /\ Goes("start")
  <2>2. /\ DoorFits(door') /\ door' # Nobody /\ door'.step = "start"
        /\ door'.kind = d /\ door'.call = door.call /\ door'.made = door.made
    BY <1>f, <1>1, <1>2, <1>d, DoorStep DEF Steps
  <2>a. /\ front' \in [Kinds -> [open : BOOLEAN, geometry : Geometries \cup {None}]]
        /\ front'[d] = [open |-> TRUE, geometry |-> door.made.geometry]
        /\ \A k \in Kinds : k # d => front'[k] = front[k]
    BY <1>f, <1>t, <1>2, <1>5 DEF Typed
  <2>b. ring' \in BOOLEAN /\ (d = "capture" => ring') /\ (d # "capture" => ring' = ring)
    BY <1>f, <1>t, <1>2 DEF Typed
  <2>3. Typed'
    BY <2>a, <2>b, <2>2 DEF IInv, Typed, Fronts, Inside
  <2>4. Counted'
    BY <1>d, <2>2, CountKept DEF Fronts, Inside
  <2>5. Within(d)'
    BY <2>a, <2>b, <2>2, <1>o, <1>3 DEF Within, Finds, Up
  <2>6. \A k \in Kinds : k # d => Same(k)
    BY <2>a, <2>b, <1>o, <1>t, LiveKept DEF Same, Fronts
  <2>7. IInv'
    BY <1>2, <1>d, <2>2, <2>3, <2>4, <2>5, <2>6, InsideKeeps DEF Reached
  <2>8. ring => ring'
    BY <1>f
  <2> QED
    BY <2>7, <2>8 DEF Pulls, Fronts
<1>g. CASE Leaves /\ UNCHANGED <<front, playing, ring>>
  <2>2. DoorFits(door') /\ door' = Nobody /\ door'.step = "none"
    BY <1>g, DoorLeft
  <2>4. Typed'
    BY <1>g, <2>2 DEF IInv, Typed, Fronts, Inside
  <2>5. Counted'
    BY <1>d, <2>2, CountKept DEF Fronts, Inside
  <2>6. AtRest(d)'
    BY <1>g, <1>o, <1>3, <1>t DEF AtRest, Down, Typed
  <2>8. \A k \in Kinds : k # d => Same(k)
    BY <1>g, <1>o, LiveKept DEF Same, Fronts
  <2>7. IInv'
    BY <1>2, <1>d, <2>2, <2>4, <2>5, <2>6, <2>8, InsideKeeps DEF Reached
  <2> QED
    BY <1>g, <2>7 DEF Pulls, Fronts
<1> QED
  BY <1>f, <1>g DEF Fronts

\* The slots and the ring are freed when nothing of their kind runs.
LEMMA FreesKeeps ==
    ASSUME Distinct, IInv, Frees
    PROVE  IInv' /\ Pulls
<1>1. At("free") /\ door.step = "free" /\ door.step # "none"
  BY DEF Frees, At
<1>2. PICK d \in Kinds : door.kind = d /\ Within(d)
  BY <1>1, Someone
<1>d. door # Nobody /\ DoorFits(door)
  BY <1>1, Someone
<1>t. Typed /\ d \in {"playback", "capture"}
  BY DEF IInv, Kinds
<1>3. /\ Of(d) = {} /\ devices[d] = None /\ (d = "playback" => Up(d))
      /\ (d = "capture" => ~front[d].open)
  BY <1>1, <1>2 DEF Within, Finds
<1>o. Of(d)' = {} /\ devices' = devices /\ front' = front
  BY <1>3, LiveKept DEF Frees
<1>f. CASE d = "playback"
  <2>1. filled' = FALSE /\ ring' = ring /\ Goes("shut")
    BY <1>f, <1>2 DEF Frees
  <2>2. /\ DoorFits(door') /\ door' # Nobody /\ door'.step = "shut" /\ door'.kind = d
    BY <2>1, <1>1, <1>2, <1>d, DoorStep DEF Steps
  <2>3. Typed'
    BY <2>1, <2>2 DEF IInv, Typed, Frees, Inside
  <2>4. Counted'
    BY <1>d, <2>2, CountKept DEF Frees, Inside
  <2>5. Within(d)'
    BY <2>1, <2>2, <1>o, <1>3, <1>f DEF Within, Finds, Up
  <2>6. \A k \in Kinds : k # d => Same(k)
    BY <2>1, <1>o, LiveKept DEF Same, Frees
  <2>7. IInv'
    BY <1>2, <1>d, <2>2, <2>3, <2>4, <2>5, <2>6, InsideKeeps DEF Reached
  <2>8. \A s \in live : s.kind # "playback"
    BY <1>3, <1>f DEF Of
  <2> QED
    BY <2>7, <2>8, <2>1 DEF Pulls
<1>g. CASE d = "capture"
  <2>1. ring' = FALSE /\ filled' = filled /\ Leaves
    BY <1>g, <1>2 DEF Frees
  <2>2. DoorFits(door') /\ door' = Nobody /\ door'.step = "none"
    BY <2>1, DoorLeft
  <2>3. Typed'
    BY <2>1, <2>2 DEF IInv, Typed, Frees, Inside
  <2>4. Counted'
    BY <1>d, <2>2, CountKept DEF Frees, Inside
  <2>5. AtRest(d)'
    BY <2>1, <1>o, <1>3, <1>g DEF AtRest
  <2>6. \A k \in Kinds : k # d => Same(k)
    BY <2>1, <1>g, <1>o, LiveKept DEF Same, Frees
  <2>7. IInv'
    BY <1>2, <1>d, <2>2, <2>3, <2>4, <2>5, <2>6, InsideKeeps DEF Reached
  <2>8. \A s \in live : s.kind # "capture"
    BY <1>3, <1>g DEF Of
  <2> QED
    BY <2>7, <2>8, <2>1 DEF Pulls
<1> QED
  BY <1>f, <1>g, <1>t

LEMMA ShutsKeeps ==
    ASSUME Distinct, IInv, Shuts
    PROVE  IInv' /\ Pulls
<1>1. At("shut") /\ door.step = "shut" /\ door.step # "none"
  BY DEF Shuts, At
<1>2. PICK d \in Kinds : door.kind = d /\ Within(d)
  BY <1>1, Someone
<1>d. door # Nobody /\ DoorFits(door)
  BY <1>1, Someone
<1>t. Typed /\ d \in {"playback", "capture"}
  BY DEF IInv, Kinds
<1>3. Of(d) = {} /\ devices[d] = None /\ Up(d)
  BY <1>1, <1>2 DEF Within, Finds
<1>o. Of(d)' = {} /\ devices' = devices /\ ring' = ring
  BY <1>3, LiveKept DEF Shuts
<1>5. /\ front' \in [Kinds -> [open : BOOLEAN, geometry : Geometries \cup {None}]]
      /\ ~front'[d].open /\ \A k \in Kinds : k # d => front'[k] = front[k]
  BY <1>t, <1>2 DEF Shuts, Typed
<1>9. \A k \in Kinds : k # d => Same(k)
  BY <1>5, <1>o, LiveKept DEF Shuts, Same
<1>f. CASE d = "playback"
  <2>1. Leaves
    BY <1>f, <1>2 DEF Shuts
  <2>2. DoorFits(door') /\ door' = Nobody /\ door'.step = "none"
    BY <2>1, DoorLeft
  <2>3. Typed'
    BY <1>5, <2>2 DEF IInv, Typed, Shuts, Inside
  <2>4. Counted'
    BY <1>d, <2>2, CountKept DEF Shuts, Inside
  <2>5. AtRest(d)'
    BY <1>5, <1>o, <1>3, <1>f DEF AtRest
  <2>6. IInv'
    BY <1>2, <1>d, <2>2, <2>3, <2>4, <2>5, <1>9, InsideKeeps DEF Reached
  <2> QED
    BY <2>6 DEF Pulls, Shuts
<1>g. CASE d = "capture"
  <2>1. Goes("free")
    BY <1>g, <1>2 DEF Shuts
  <2>2. DoorFits(door') /\ door' # Nobody /\ door'.step = "free" /\ door'.kind = d
    BY <2>1, <1>1, <1>2, <1>d, DoorStep DEF Steps
  <2>3. Typed'
    BY <1>5, <2>2 DEF IInv, Typed, Shuts, Inside
  <2>4. Counted'
    BY <1>d, <2>2, CountKept DEF Shuts, Inside
  <2>5. Within(d)'
    BY <2>2, <1>5, <1>o, <1>3, <1>g DEF Within, Finds, Up
  <2>6. IInv'
    BY <1>2, <1>d, <2>2, <2>3, <2>4, <2>5, <1>9, InsideKeeps DEF Reached
  <2> QED
    BY <2>6 DEF Pulls, Shuts
<1> QED
  BY <1>f, <1>g, <1>t

\* A device the system names takes geometries there are, and what it is opened
\* at is one of them, whatever was asked for.
LEMMA PickIsADevice ==
    ASSUME NEW list \in SystemList, NEW index
    PROVE  Pick(list, index) \in Device \cup {None}
<1>1. AnyRate \in Device
  BY DEF AnyRate, Device
<1>2. ASSUME Refreshed(list) # None, index \in DOMAIN Refreshed(list)
      PROVE  Refreshed(list)[index] \in Device
  <2>1. CASE context = Null
    BY <2>1, <1>1, <1>2 DEF Refreshed
  <2>2. CASE context # Null
    <3>1. list \in [{1} -> Device]
      BY <2>2, <1>2 DEF Refreshed, SystemList
    <3> QED
      BY <3>1, <2>2, <1>2 DEF Refreshed
  <2> QED
    BY <2>1, <2>2
<1> QED
  BY <1>2 DEF Pick

LEMMA RateIsAGeometry ==
    ASSUME NEW asked, NEW device \in Device
    PROVE  AtRateOrItsOwn(asked, device) \in Geometries \cup {None}
BY DEF AtRateOrItsOwn, Device

LEMMA BuiltIsAGeometry ==
    ASSUME Distinct
    PROVE  Built \subseteq Geometries \cup {None}
<1>1. ASSUME NEW list \in SystemList, NEW index
      PROVE  /\ BuildPlayback(Pick(list, index), Asked) \subseteq Geometries \cup {None}
             /\ BuildCapture(Pick(list, index)) \subseteq Geometries \cup {None}
  <2>1. CASE Pick(list, index) = None
    BY <2>1 DEF BuildPlayback, BuildCapture
  <2>2. CASE Pick(list, index) # None
    <3>1. PICK device \in Device : Pick(list, index) = device
      BY <2>2, PickIsADevice
    <3>2. \A asked : AtRateOrItsOwn(asked, device) \in Geometries \cup {None}
      BY RateIsAGeometry
    <3> QED
      BY <3>1, <3>2 DEF BuildPlayback, BuildCapture
  <2> QED
    BY <2>1, <2>2
<1> QED
  BY <1>1 DEF Built

\* A stream that is made is a new open, of the kind of its door.
LEMMA MadeIsAStream ==
    ASSUME Distinct, IInv, door.step = "build", NEW geometry \in Geometries
    PROVE  Stream(geometry) \in Streams /\ Stream(geometry).kind = door.kind
<1>1. opens + 1 \in 1..MaxOpens + MaxCalls
  <2>1. Cardinality(asks) \in Nat
    BY FS_CardinalityType DEF IInv, Counted
  <2>2. Pending(door) = 1
    BY DEF Pending
  <2> QED
    BY <2>1, <2>2 DEF IInv, Counted, Distinct
<1>2. door.kind \in Kinds /\ door.follows \in BOOLEAN
  BY DEF IInv, Typed, DoorFits, Doors
<1> QED
  BY <1>1, <1>2 DEF Stream, Streams

\* What a build leaves in the door.
LEMMA DoorBuilt ==
    ASSUME DoorFits(door), door.step # "none",
           NEW STATE made, made \in Streams, made.kind = door.kind, NEW step \in {"front", "drop"},
           door' = [door EXCEPT !.made = made, !.step = step]
    PROVE  /\ DoorFits(door') /\ door' # Nobody /\ door'.step = step
           /\ door'.kind = door.kind /\ door'.call = door.call
           /\ door'.made = made /\ door'.lost = door.lost
<1>1. door \in Doors
  BY DEF DoorFits
<1>2. /\ door' \in Doors /\ door'.step = step
      /\ door'.kind = door.kind /\ door'.call = door.call
      /\ door'.made = made /\ door'.lost = door.lost
  BY <1>1 DEF Doors, Steps
<1>3. door' # Nobody
  BY <1>2 DEF Nobody
<1> QED
  BY <1>2, <1>3 DEF DoorFits

LEMMA BuildsKeeps ==
    ASSUME Distinct, IInv, Builds
    PROVE  IInv' /\ Pulls
<1>1. At("build") /\ door.step = "build" /\ door.step # "none"
  BY DEF Builds, At
<1>2. PICK d \in Kinds : door.kind = d /\ Within(d)
  BY <1>1, Someone
<1>d. door # Nobody /\ DoorFits(door)
  BY <1>1, Someone
<1>3. /\ devices[d] = None
      /\ \/ door.call = "open" /\ Down(d) /\ Of(d) = {}
         \/ door.call = "reopen" /\ Up(d) /\ Runs(d, door.lost)
  BY <1>1, <1>2 DEF Within, Finds
<1>o. /\ Of(d)' = Of(d) /\ devices' = devices /\ front' = front /\ ring' = ring
      /\ Up(d)' = Up(d) /\ Down(d)' = Down(d) /\ filled' = filled
  BY LiveKept DEF Builds, atomics, Up, Down
<1>9. \A k \in Kinds : k # d => Same(k)
  BY <1>o, LiveKept DEF Builds, Same
<1>4. PICK geometry \in Built :
          door' = IF geometry = None
                  THEN IF door.call = "open" THEN Nobody ELSE [door EXCEPT !.step = "drop"]
                  ELSE [door EXCEPT !.made = Stream(geometry),
                                    !.step = IF door.call = "open" THEN "front" ELSE "drop"]
  BY DEF Builds
<1>5. ASSUME DoorFits(door'), door'.step # "build"
      PROVE  Typed' /\ Counted'
  <2>1. Typed'
    BY <1>5, <1>o DEF IInv, Typed, Builds, Inside
  <2>2. Cardinality(asks) \in Nat
    BY FS_CardinalityType DEF IInv, Counted
  <2>3. Pending(door) = 1 /\ Pending(door') = 0
    BY <1>1, <1>5 DEF Pending
  <2>4. opens' + Cardinality(asks') + Pending(door') <= MaxOpens + calls'
    BY <2>2, <2>3 DEF IInv, Counted, Builds, Inside, Distinct
  <2>5. calls # 0
    BY <1>d DEF IInv, Counted
  <2> QED
    BY <2>1, <2>4, <2>5 DEF IInv, Counted, Builds, Inside
<1>f. CASE geometry = None /\ door.call = "open"
  <2>1. DoorFits(door') /\ door' = Nobody /\ door'.step = "none"
    BY <1>4, <1>f, DoorLeft DEF Leaves
  <2>2. AtRest(d)'
    <3>1. ~front[d].open /\ (d = "capture" => ~ring) /\ Of(d) = {}
      BY <1>3, <1>f DEF Down
    <3>2. ring \in BOOLEAN
      BY DEF IInv, Typed
    <3> QED
      BY <3>1, <3>2, <1>o, <1>3 DEF AtRest
  <2>3. IInv'
    BY <1>2, <1>d, <2>1, <2>2, <1>5, <1>9, InsideKeeps DEF Reached
  <2> QED
    BY <2>3, <1>o DEF Pulls
<1>g. CASE geometry = None /\ door.call # "open"
  <2>1. /\ DoorFits(door') /\ door' # Nobody /\ door'.step = "drop"
        /\ door'.kind = d /\ door'.call = door.call /\ door'.lost = door.lost
    BY <1>4, <1>g, <1>1, <1>2, <1>d, DoorStep DEF Goes, Steps
  <2>2. Within(d)'
    BY <2>1, <1>g, <1>o, <1>3 DEF Within, Finds, Runs
  <2>3. IInv'
    BY <1>2, <1>d, <2>1, <2>2, <1>5, <1>9, InsideKeeps DEF Reached
  <2> QED
    BY <2>3, <1>o DEF Pulls
<1>h. CASE geometry # None
  <2> DEFINE step == IF door.call = "open" THEN "front" ELSE "drop"
  <2>1. geometry \in Geometries
    BY <1>4, <1>h, BuiltIsAGeometry
  <2>2. Stream(geometry) \in Streams /\ Stream(geometry).kind = door.kind
    BY <2>1, <1>1, MadeIsAStream
  <2>3. Stream(geometry) # None
    BY <2>2 DEF Distinct
  <2>4. /\ DoorFits(door') /\ door' # Nobody /\ door'.step = step
        /\ door'.kind = d /\ door'.call = door.call
        /\ door'.made = Stream(geometry) /\ door'.lost = door.lost
    BY <1>4, <1>h, <1>1, <1>2, <1>d, <2>2, DoorBuilt
  <2>5. Within(d)'
    BY <2>3, <2>4, <1>o, <1>3 DEF Within, Finds, Runs
  <2>6. IInv'
    BY <1>2, <1>d, <2>4, <2>5, <1>5, <1>9, InsideKeeps DEF Reached
  <2> QED
    BY <2>6, <1>o DEF Pulls
<1> QED
  BY <1>f, <1>g, <1>h

-----------------------------------------------------------------------------
(* Entering a door.                                                         *)

\* With nobody inside every kind is at rest.
LEMMA NobodyInside ==
    ASSUME IInv, door = Nobody
    PROVE  \A k \in Kinds : AtRest(k)
BY DEF IInv, Stands

\* What the record of somebody entering holds.
LEMMA DoorEntered ==
    ASSUME NEW call \in {"open", "close", "reopen"}, NEW k \in Kinds,
           NEW STATE step, step \in Steps \ {"none"}, NEW asked \in Geometries \cup {None}, NEW follows \in BOOLEAN,
           NEW STATE lost, lost \in Streams \cup {None}, lost # None => lost.kind = k,
           door' = [call |-> call, kind |-> k, step |-> step, asked |-> asked, follows |-> follows,
                    lost |-> lost, made |-> None]
    PROVE  /\ DoorFits(door') /\ door' # Nobody /\ door'.kind = k
           /\ door'.call = call /\ door'.step = step /\ door'.lost = lost
<1>1. Nobody \in Doors /\ Nobody.step = "none" /\ Nobody.made = None
  BY DEF Nobody, Doors, Steps, Kinds
<1>2. /\ door' \in Doors /\ door'.kind = k /\ door'.made = None
      /\ door'.call = call /\ door'.step = step /\ door'.lost = lost
  BY <1>1 DEF Doors
<1>3. door' # Nobody
  BY <1>1, <1>2
<1> QED
  BY <1>2, <1>3 DEF DoorFits

\* A call that enters a door, or does nothing behind it, is counted.
LEMMA CallCounted ==
    ASSUME Distinct, IInv, Free, UNCHANGED <<asks, opens>>
    PROVE  Counted'
<1>1. Cardinality(asks) \in Nat
  BY FS_CardinalityType DEF IInv, Counted
<1>2. Pending(door) = 0
  BY DEF Free, Pending, Nobody
<1>3. Pending(door') \in {0, 1}
  BY DEF Pending
<1>4. opens' + Cardinality(asks') + Pending(door') <= MaxOpens + calls'
  BY <1>1, <1>2, <1>3 DEF IInv, Counted, Free, Distinct
<1>5. calls' \in Nat /\ calls' <= MaxCalls /\ calls' # 0
  BY DEF IInv, Counted, Free, Distinct
<1> QED
  BY <1>4, <1>5 DEF IInv, Counted

LEMMA OpensKeeps ==
    ASSUME Distinct, IInv, NEW d \in Kinds, NEW g \in Geometries, NEW b \in Backends,
           NEW follows \in BOOLEAN, Opens(d, g, b, follows)
    PROVE  IInv' /\ Pulls
<1>1. door = Nobody /\ AtRest(d)
  BY NobodyInside DEF Opens, Free
<1>2. devices[d] = None /\ Of(d) = {} /\ Down(d)
  BY <1>1 DEF Opens, AtRest, Down, Kinds
<1>o. Of(d)' = Of(d) /\ devices' = devices /\ front' = front /\ ring' = ring /\ filled' = filled
  BY LiveKept DEF Opens, atomics
<1>3. \A k \in Kinds : k # d => Same(k)
  BY <1>o, LiveKept DEF Opens, Same
<1>4. context' \in Backends \cup {None}
  BY DEF Opens, IInv, Typed
<1>5. Counted'
  BY CallCounted DEF Opens
<1>6. DoorFits(door') => Typed'
  BY <1>o, <1>4 DEF Opens, IInv, Typed
<1>f. CASE context' = None
  <2>1. DoorFits(door') /\ door' = Nobody
    BY <1>f, DoorLeft DEF Opens, Leaves
  <2>2. AtRest(d)'
    BY <1>1, <1>o DEF AtRest
  <2>3. IInv'
    BY <1>1, <1>3, <1>5, <1>6, <2>1, <2>2, InsideKeeps DEF Reached
  <2> QED
    BY <2>3, <1>o DEF Pulls
<1>g. CASE context' # None
  <2>a. door' = [call |-> "open", kind |-> d, step |-> "build", asked |-> g, follows |-> follows,
                 lost |-> None, made |-> None]
    BY <1>g DEF Opens, Enters, Nobody
  <2>b. "build" \in Steps \ {"none"}
    BY DEF Steps
  <2>1. /\ DoorFits(door') /\ door' # Nobody /\ door'.kind = d
        /\ door'.call = "open" /\ door'.step = "build"
    BY <2>a, <2>b, DoorEntered
  <2>2. Within(d)'
    BY <2>1, <1>2, <1>o DEF Within, Finds, Down
  <2>3. IInv'
    BY <1>1, <1>3, <1>5, <1>6, <2>1, <2>2, InsideKeeps DEF Reached
  <2> QED
    BY <2>3, <1>o DEF Pulls
<1> QED
  BY <1>f, <1>g

LEMMA ClosesKeeps ==
    ASSUME Distinct, IInv, NEW d \in Kinds, Closes(d)
    PROVE  IInv' /\ Pulls
<1> DEFINE step == IF d = "playback" THEN "silence" ELSE "drop"
<1>1. door = Nobody /\ AtRest(d) /\ devices[d] # None
  BY NobodyInside DEF Closes, Free
<1>2. Up(d) /\ Runs(d, devices[d])
  BY <1>1 DEF AtRest, Up, Runs
<1>t. Typed
  BY DEF IInv
<1>o. /\ Of(d)' = Of(d) /\ front' = front /\ ring' = ring /\ filled' = filled
      /\ devices' \in [Kinds -> Streams \cup {None}] /\ devices'[d] = None
      /\ \A k \in Kinds : k # d => devices'[k] = devices[k]
  BY LiveKept, <1>t DEF Closes, atomics, Typed
<1>3. \A k \in Kinds : k # d => Same(k)
  BY <1>o, LiveKept DEF Closes, Same
<1>4. devices[d] \in Streams /\ devices[d].kind = d
  BY <1>1, <1>t DEF Typed
<1>5. Counted'
  BY CallCounted DEF Closes
<1>a. door' = [call |-> "close", kind |-> d, step |-> step, asked |-> None, follows |-> FALSE,
               lost |-> devices[d], made |-> None]
  BY DEF Closes, Enters, Nobody
<1>b. step \in Steps \ {"none"}
  BY DEF Steps
<1>6. /\ DoorFits(door') /\ door' # Nobody /\ door'.kind = d
      /\ door'.call = "close" /\ door'.step = step /\ door'.lost = devices[d]
  <2> HIDE DEF step
  <2> QED
    BY <1>a, <1>b, <1>4, DoorEntered
<1>7. Typed'
  BY <1>6, <1>o, <1>t DEF Typed, Closes
<1>8. Within(d)'
  BY <1>2, <1>6, <1>o DEF Within, Finds, Up, Runs
<1>9. IInv'
  BY <1>1, <1>3, <1>5, <1>6, <1>7, <1>8, InsideKeeps DEF Reached
<1> QED
  BY <1>9, <1>o DEF Pulls

LEMMA ReopensKeeps ==
    ASSUME Distinct, IInv, NEW ask \in asks, Reopens(ask)
    PROVE  IInv' /\ Pulls
<1>1. door = Nobody /\ \A k \in Kinds : AtRest(k)
  BY NobodyInside DEF Reopens
<1>t. Typed /\ IsFiniteSet(asks) /\ ask.kind \in Kinds
  BY DEF IInv, Counted
<1>2. Cardinality(asks') = Cardinality(asks) - 1 /\ IsFiniteSet(asks')
  BY <1>t, FS_RemoveElement DEF Reopens
<1>3. Cardinality(asks) \in Nat /\ Cardinality(asks') \in Nat
  BY <1>t, <1>2, FS_CardinalityType
<1>4. Pending(door) = 0 /\ Pending(door') \in {0, 1}
  BY <1>1 DEF Pending, Nobody
<1>5. calls = 0 => UNCHANGED <<devices, door, live>>
  BY <1>t DEF IInv, Counted, Reopens, Named
<1>6. Counted'
  <2>1. opens' + Cardinality(asks') + Pending(door') <= MaxOpens + calls'
    BY <1>2, <1>3, <1>4 DEF IInv, Counted, Reopens, Distinct
  <2>2. asks' \subseteq [kind : Kinds, open : Nat] /\ calls' \in Nat /\ calls' <= MaxCalls /\ opens' \in Nat
    BY DEF IInv, Counted, Reopens
  <2>3. calls' = 0 => live' = {} /\ door' = Nobody /\ \A k \in Kinds : devices'[k] = None
    BY <1>5 DEF IInv, Counted, Reopens
  <2> QED
    BY <1>2, <2>1, <2>2, <2>3 DEF Counted
<1>o. front' = front /\ ring' = ring /\ filled' = filled /\ \A k \in Kinds : Of(k)' = Of(k)
  BY LiveKept DEF Reopens, atomics
<1>f. CASE Named(ask)
  <2> DEFINE step == IF context = None THEN "drop" ELSE "build"
  <2>1. PICK d \in Kinds : ask.kind = d
    BY <1>t
  <2>2. devices[d] # None /\ AtRest(d)
    BY <1>f, <1>1, <2>1 DEF Named
  <2>3. Up(d) /\ Runs(d, devices[d])
    BY <2>2 DEF AtRest, Up, Runs
  <2>4. devices[d] \in Streams /\ devices[d].kind = d
    BY <2>2, <1>t DEF Typed
  <2>5. /\ devices' \in [Kinds -> Streams \cup {None}] /\ devices'[d] = None
        /\ \A k \in Kinds : k # d => devices'[k] = devices[k]
    BY <1>f, <1>t, <2>1 DEF Reopens, Typed
  <2>6. \A k \in Kinds : k # d => Same(k)
    BY <2>5, <1>o DEF Same
  <2>a. door' = [call |-> "reopen", kind |-> d, step |-> step, asked |-> None, follows |-> TRUE,
                 lost |-> devices[d], made |-> None]
    BY <2>1, <1>f DEF Reopens, Enters, Nobody
  <2>b. step \in Steps \ {"none"}
    BY DEF Steps
  <2>7. /\ DoorFits(door') /\ door' # Nobody /\ door'.kind = d
        /\ door'.call = "reopen" /\ door'.step = step /\ door'.lost = devices[d]
    <3> HIDE DEF step
    <3> QED
      BY <2>a, <2>b, <2>4, DoorEntered
  <2>8. Typed'
    BY <2>7, <2>5, <1>o, <1>t DEF Typed, Reopens
  <2>9. Within(d)'
    BY <2>3, <2>5, <2>7, <1>o DEF Within, Finds, Up, Runs
  <2>10. IInv'
    BY <1>1, <1>6, <2>6, <2>7, <2>8, <2>9, InsideKeeps DEF Reached
  <2> QED
    BY <2>10, <1>o DEF Pulls
<1>g. CASE ~Named(ask)
  <2>1. UNCHANGED <<devices, door>>
    BY <1>g DEF Reopens
  <2>2. Typed'
    BY <2>1, <1>o, <1>t DEF Typed, Reopens
  <2>3. \A k \in Kinds : Stands(k)'
    BY <2>1, <1>o, <1>1 DEF Stands, AtRest
  <2> QED
    BY <2>2, <2>3, <1>6, <1>o DEF IInv, Pulls
<1> QED
  BY <1>f, <1>g

-----------------------------------------------------------------------------
(* What leaves the doors alone.                                             *)

\* Steps that touch none of what the invariant says of a kind.
LEMMA Stays ==
    ASSUME IInv, UNCHANGED <<context, devices, front, live, door, ring>>, filled' \in BOOLEAN, Counted'
    PROVE  IInv'
<1>1. Typed'
  BY DEF IInv, Typed
<1>2. ASSUME NEW k \in Kinds PROVE Stands(k)'
  <2>1. Of(k)' = Of(k) /\ Stands(k)
    BY LiveKept DEF IInv
  <2> QED
    BY <2>1 DEF Stands, AtRest, Within, Finds, Up, Down, Runs
<1> QED
  BY <1>1, <1>2 DEF IInv

LEMMA SchedulesKeeps ==
    ASSUME Distinct, IInv, Schedules
    PROVE  IInv' /\ Pulls
<1>1. Counted'
  BY CallCounted DEF Schedules
<1> QED
  BY <1>1, Stays DEF Schedules, Pulls

LEMMA LosesKeeps ==
    ASSUME Distinct, IInv, NEW stream \in live, Loses(stream)
    PROVE  IInv' /\ Pulls
<1> DEFINE ask == [kind |-> stream.kind, open |-> stream.open]
<1>1. ask \in [kind : Kinds, open : Nat] /\ IsFiniteSet(asks)
  BY DEF IInv, Typed, Counted, Streams, Distinct
<1>3. Cardinality(asks) \in Nat
  BY <1>1, FS_CardinalityType
<1>a. /\ IsFiniteSet(asks \cup {ask})
      /\ Cardinality(asks \cup {ask}) \in {Cardinality(asks), Cardinality(asks) + 1}
  <2> HIDE DEF ask
  <2> QED
    BY <1>1, FS_AddElement
<1>b. asks' = asks \cup {ask}
  BY DEF Loses
<1>2. Cardinality(asks') \in Nat /\ Cardinality(asks') <= Cardinality(asks) + 1 /\ IsFiniteSet(asks')
  BY <1>3, <1>a, <1>b
<1>4. Pending(door') \in {0, 1} /\ door' = door
  BY DEF Pending, Loses
<1>5. calls # 0
  BY DEF IInv, Counted
<1>6. opens' + Cardinality(asks') + Pending(door') <= MaxOpens + calls'
  BY <1>2, <1>3, <1>4, <1>5 DEF Loses, IInv, Counted, Distinct
<1>7. Counted'
  BY <1>1, <1>2, <1>5, <1>6 DEF Loses, IInv, Counted
<1>8. filled' \in BOOLEAN
  BY DEF Loses, atomics, IInv, Typed
<1> QED
  BY <1>7, <1>8, Stays DEF Loses, atomics, Pulls

\* Play, the drain and a run's end take no lock and open nothing.
LEMMA LocklessKeeps ==
    ASSUME Distinct, IInv, Lockless
    PROVE  IInv' /\ Pulls
<1>1. Counted' /\ filled' \in BOOLEAN
  BY DEF Lockless, IInv, Typed, Counted
<1> QED
  BY <1>1, Stays DEF Lockless, Pulls

-----------------------------------------------------------------------------
(* The theorems.                                                            *)

LEMMA StepHolds ==
    ASSUME Distinct, IInv, [Next]_vars
    PROVE  IInv' /\ Pulls
<1>1. CASE \E k \in Kinds, g \in Geometries, b \in Backends, follows \in BOOLEAN : Opens(k, g, b, follows)
  BY <1>1, OpensKeeps
<1>2. CASE \E k \in Kinds : Closes(k)
  BY <1>2, ClosesKeeps
<1>3. CASE Schedules
  BY <1>3, SchedulesKeeps
<1>4. CASE Inner
  <2>1. CASE Builds \/ Fronts \/ Starts \/ StartFails \/ Records
    BY <2>1, BuildsKeeps, FrontsKeeps, StartsKeeps, StartFailsKeeps, RecordsKeeps
  <2>2. CASE Silences \/ Drops \/ Fails \/ Frees \/ Shuts
    BY <2>2, SilencesKeeps, DropsKeeps, FailsKeeps, FreesKeeps, ShutsKeeps
  <2> QED
    BY <1>4, <2>1, <2>2 DEF Inner
<1>5. CASE \E s \in live : Loses(s)
  BY <1>5, LosesKeeps
<1>6. CASE \E ask \in asks : Reopens(ask)
  BY <1>6, ReopensKeeps
<1>7. CASE PlayLooks \/ PlayRuns \/ Ends \/ DrainLooks \/ DrainEnds
  BY <1>7, LocklessKeeps DEF PlayLooks, PlayRuns, Ends, DrainLooks, DrainEnds
<1>8. CASE UNCHANGED vars
  BY <1>8, LocklessKeeps DEF vars, atomics, Lockless
<1> QED
  BY <1>1, <1>2, <1>3, <1>4, <1>5, <1>6, <1>7, <1>8 DEF Next

\* The invariant holds of every behaviour, and no step frees what runs.
THEOREM DevicesStand ==
    ASSUME Distinct
    PROVE  Spec => [](IInv) /\ [][Pulls]_vars
<1>1. Init => IInv
  BY InitHolds
<1>2. IInv /\ [Next]_vars => IInv'
  BY StepHolds
<1>3. IInv /\ [Next]_vars => [Pulls]_vars
  BY StepHolds
<1> QED
  BY <1>1, <1>2, <1>3, PTL DEF Spec

\* The devices, the streams and whoever holds the door have their types.
THEOREM DevicesTyped ==
    ASSUME Distinct
    PROVE  Spec => []TypeOK
<1>1. IInv => TypeOK
  BY InvIsTyped
<1> QED
  BY <1>1, DevicesStand, PTL

\* Never two callbacks of a kind (reopen_output: "two would both move the
\* transport"), none of another geometry than the front's, and with DEVICES let
\* go the flags, the devices, what runs and what is in memory agree.
THEOREM OneCallbackAndDoorsAgree ==
    ASSUME Distinct
    PROVE  Spec => [](OneCallback /\ DoorsAgree)
<1>1. IInv => OneCallback /\ DoorsAgree
  BY InvIsOneCallback, InvIsAgreed
<1> QED
  BY <1>1, DevicesStand, PTL

\* A close, and a reopening that fails, free the slots and the ring with no
\* callback of their kind left to read them.
THEOREM NothingFreedUnderneath ==
    ASSUME Distinct
    PROVE  Spec => NobodyUnderneath
<1>1. Pulls <=> /\ filled /\ ~filled' => \A s \in live : s.kind # "playback"
                /\ ring /\ ~ring' => \A s \in live : s.kind # "capture"
  BY DEF Pulls
<1> QED
  BY <1>1, DevicesStand, PTL DEF NobodyUnderneath
=============================================================================
