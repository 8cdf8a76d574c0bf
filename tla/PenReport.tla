------------------------------ MODULE PenReport ------------------------------
(***************************************************************************)
(* What a pen's report says (native/pen/src: report.rs, hid_axis.rs, the   *)
(* reading half of raw.rs) and what the tablet driver's packet says        *)
(* (wintab.rs).  Angles are whole thousandths of a degree going in and     *)
(* whole hundredths in the word; a 64-bit word is its four 16-bit parts;   *)
(* a quotient is kept as its numerator and denominator.                    *)
(***************************************************************************)
EXTENDS Integers, Sequences, FiniteSetsExt

CONSTANT None

Sign(n) == IF n < 0 THEN -1 ELSE 1
Size(n) == n * Sign(n)
Clamped(n, low, high) == IF n < low THEN low ELSE IF n > high THEN high ELSE n
U16(n) == n % 65536
I16(n) == IF n % 65536 >= 32768 THEN (n % 65536) - 65536 ELSE n % 65536

-----------------------------------------------------------------------------
\* report.rs

Buttons == [tip |-> 1, barrel |-> 2, eraser |-> 4, invert |-> 8, secondary |-> 16]

\* The flag word: a usage that is no button of the pen adds nothing, and one
\* listed twice adds its bit once.
Flags(usages) ==
  SumSet({Buttons[u] : u \in {usages[i] : i \in DOMAIN usages} \cap DOMAIN Buttons})

\* Thousandths of a degree to the nearest hundredth, halves away from zero.
Rounded(thousandths) == Sign(thousandths) * ((Size(thousandths) + 5) \div 10)

Centi(thousandths) == U16(Rounded(Clamped(thousandths, -90000, 90000)))

\* A remainder of the sign of what is divided, as the machine's.
Remainder(n, by) == Sign(n) * (Size(n) % by)

\* mutant: a twist turned the other way is left as it is
TwistUnturned(thousandths) == U16(Remainder(Rounded(thousandths), 36000))

\* A twist, once round.
Twist(thousandths) ==
  LET c == Remainder(Rounded(thousandths), 36000)
  IN  U16(IF c < 0 THEN c + 36000 ELSE c)

\* The pose's word: bits 48, 32, 16 and 0 up.
Pose(tilt, twist) ==
  [twist |-> IF twist = None THEN 0 ELSE Twist(twist),
   bits |-> (IF tilt = None THEN 0 ELSE 1) + (IF twist = None THEN 0 ELSE 2),
   x |-> IF tilt = None THEN 0 ELSE Centi(tilt[1]),
   y |-> IF tilt = None THEN 0 ELSE Centi(tilt[2])]

\* What a poll hands over, of as many floats as the caller reads.
Snapshot(flags, sequence, pose, room) ==
  <<flags, sequence % (2^24)>>
  \o (IF room >= 5 THEN <<I16(pose.x), I16(pose.y), pose.bits % 2>> ELSE <<>>)
  \o (IF room >= 7 THEN <<pose.twist, (pose.bits \div 2) % 2>> ELSE <<>>)

-----------------------------------------------------------------------------
\* hid_axis.rs

IsAngle(axis) == axis.length = 1 /\ axis.system \in {2, 4}

\* mutant: a field with a negative minimum is read as it lies
LogicalUnsigned(axis, raw) == raw

\* A field with a negative minimum is signed: its top bit is the sign.
Logical(axis, raw) ==
  IF /\ axis.logical_min < 0 /\ axis.bit_size \in 1 .. 32
     /\ (raw \div 2^(axis.bit_size - 1)) % 2 = 1
  THEN raw - 2^axis.bit_size ELSE raw

\* The unit's power of ten, a four-bit code.
Exponent(axis) == LET e == axis.units_exp % 16 IN IF e >= 8 THEN e - 16 ELSE e

Raised(q, e) == IF e >= 0 THEN [num |-> q.num * 10^e, den |-> q.den]
                ELSE [num |-> q.num, den |-> q.den * 10^(-e)]

\* The angle, and whether it is in degrees or radians; None when the axis
\* says no angle.
Degrees(axis, raw) ==
  IF axis.logical_max <= axis.logical_min \/ ~IsAngle(axis) THEN None
  ELSE LET logical == Logical(axis, raw)
           span == axis.logical_max - axis.logical_min
           plain == axis.physical_min = 0 /\ axis.physical_max = 0
       IN  Raised(IF plain THEN [num |-> logical, den |-> 1]
                  ELSE [num |-> axis.physical_min * span
                                + (logical - axis.logical_min)
                                  * (axis.physical_max - axis.physical_min),
                        den |-> span],
                  Exponent(axis))

-----------------------------------------------------------------------------
\* raw.rs, the reading half.  A device answers a query of an axis or of a
\* report with its declaration or value, or refuses; hid.dll may lack the
\* entries that ask.

AxisOf(hid, device, usage) ==
  IF ~hid.caps \/ usage \notin DOMAIN device THEN None ELSE device[usage]

\* The axes kept of a device: a lean is two tilts.
Declared(hid, device) ==
  LET x == AxisOf(hid, device, "x") y == AxisOf(hid, device, "y")
  IN  [tilt |-> IF x = None \/ y = None THEN None ELSE <<x, y>>,
       twist |-> AxisOf(hid, device, "twist")]

AngleIn(hid, report, usage, axis) ==
  IF ~hid.value \/ usage \notin DOMAIN report.values THEN None
  ELSE Degrees(axis, report.values[usage])

\* The flags, lean and twist of a report; None when the device does not
\* declare it.
Read(hid, device, report) ==
  IF ~report.declared THEN None
  ELSE LET axes == Declared(hid, device)
           x == AngleIn(hid, report, "x", axes.tilt[1])
           y == AngleIn(hid, report, "y", axes.tilt[2])
       IN  [flags |-> Flags(report.usages),
            tilt |-> IF axes.tilt = None THEN None
                     ELSE IF x = None \/ y = None THEN None ELSE <<x, y>>,
            twist |-> IF axes.twist = None THEN None
                      ELSE AngleIn(hid, report, "twist", axes.twist)]

\* mutant: the reports are stepped through without a look at the size
HidReportsUnsized(first, size, hid, count, stride) ==
  IF ~hid \/ count = 0 \/ stride = 0 THEN <<>>
  ELSE [i \in 1 .. count |-> <<first + (i - 1) * stride, first + i * stride>>]

\* Where the reports of a HID input lie in the bytes the system wrote.
HidReports(first, size, hid, count, stride) ==
  IF ~hid \/ count = 0 \/ stride = 0 \/ first + count * stride > size THEN <<>>
  ELSE [i \in 1 .. count |-> <<first + (i - 1) * stride, first + i * stride>>]

-----------------------------------------------------------------------------
\* wintab.rs: a packet read by the axes the device declared, in integers of
\* `width' bits.

Wrapped(n, width) ==
  LET m == n % 2^width IN IF m >= 2^(width - 1) THEN m - 2^width ELSE m

\* mutant: the units of a circle are counted without a look at the count
CircleUnlooked(axis, width) ==
  IF axis.max > axis.min THEN Wrapped(axis.max - axis.min + 1, width) ELSE None

\* How many units a full circle counts; None when the axis declares none.
Circle(axis, width) ==
  LET units == Wrapped(axis.max - axis.min + 1, width)
  IN  IF axis.max > axis.min /\ units > 0 THEN units ELSE None

ScalesOf(pressure, orientation, width) ==
  [pressure |-> IF pressure = None THEN 1023
                ELSE IF pressure.max > pressure.min
                     THEN Wrapped(pressure.max - pressure.min, width) ELSE 1023,
   lean |-> IF orientation = None THEN None
            ELSE LET span == Circle(orientation[1], width)
                 IN  IF span = None \/ orientation[2].max <= 0 THEN None
                     ELSE <<span, orientation[2].max>>,
   twist |-> IF orientation = None THEN None ELSE Circle(orientation[3], width)]

Turn(units, span) == [num |-> units * 360, den |-> span]
Nought == [num |-> 0, den |-> 1]

RecordOf(scales, packet) ==
  LET p == packet.pressure * Sign(scales.pressure)   \* over |scales.pressure|
      span == Size(scales.pressure)
  IN  [pressure |-> [num |-> Clamped(p, 0, span), den |-> span],
       bearing |-> IF scales.lean = None THEN Nought ELSE Turn(packet.azimuth, scales.lean[1]),
       altitude |-> IF scales.lean = None THEN Nought
                    ELSE [num |-> packet.altitude, den |-> scales.lean[2]],
       oriented |-> scales.lean # None,
       twist |-> IF scales.twist = None THEN Nought ELSE Turn(packet.twist, scales.twist),
       twisted |-> scales.twist # None]

-----------------------------------------------------------------------------
\* The laws of a report, each over the inputs it is given.

\* The word a report leaves is read back as the report's lean and twist: a
\* lean within half a hundredth of the pen's, a twist once round, and
\* neither where there was none (report.rs pose and snapshot).
PoseReadsBack(tilt, twist) ==
  LET out == Snapshot(0, 0, Pose(tilt, twist), 7)
      near(c, t) == Size(10 * c - Clamped(t, -90000, 90000)) <= 5
  IN  /\ out[5] = (IF tilt = None THEN 0 ELSE 1)
      /\ tilt # None => near(out[3], tilt[1]) /\ near(out[4], tilt[2])
      /\ out[7] = (IF twist = None THEN 0 ELSE 1)
      /\ twist # None => /\ out[6] \in 0 .. 35999
                         /\ (out[6] - Rounded(twist)) % 36000 = 0

\* The counter a poll hands over is a whole number a float holds, and the
\* next report's is another.
CounterIsSeen(sequence) ==
  LET seen(s) == Snapshot(0, s, Pose(None, None), 2)[2]
  IN  seen(sequence) \in 0 .. 2^24 /\ seen(sequence) # seen(sequence + 1)

\* Value a of an axis' logical range, as the field carries it.
Field(axis, a) == a % 2^axis.bit_size

\* The ends of an axis' range mean the ends of its physical range, and what
\* lies between lies between (hid_axis.rs degrees).
AxisKeepsItsRange(axis) ==
  LET at(a) == Degrees(axis, Field(axis, a))
      e == Exponent(axis)
      is(q, v) == LET r == Raised([num |-> v, den |-> 1], e)
                  IN  q.num * r.den = r.num * q.den
      plain == axis.physical_min = 0 /\ axis.physical_max = 0
  IN  at(axis.logical_min) # None =>
        /\ is(at(axis.logical_min), IF plain THEN axis.logical_min ELSE axis.physical_min)
        /\ is(at(axis.logical_max), IF plain THEN axis.logical_max ELSE axis.physical_max)
        /\ \A a \in axis.logical_min .. axis.logical_max - 1 :
             plain \/ axis.physical_min <= axis.physical_max
               => at(a).num * at(a + 1).den <= at(a + 1).num * at(a).den

\* A lean is handed over where the device declares two tilts of an angle and
\* the report carries them, and half a lean is none.
LeanIsBoth(hid, device, report) ==
  LET r == Read(hid, device, report)
      carried(u) == /\ hid.caps /\ hid.value /\ u \in DOMAIN device \cap DOMAIN report.values
                    /\ Degrees(device[u], 0) # None
  IN  r # None => (r.tilt # None <=> carried("x") /\ carried("y"))

\* No report is read past the bytes the system wrote.
ReportsLieInside(first, size, hid, count, stride) ==
  \A i \in DOMAIN HidReports(first, size, hid, count, stride) :
    HidReports(first, size, hid, count, stride)[i][2] <= size

\* Whatever ranges a device declares, a record's lean and twist are over a
\* whole circle and its altitude over a right angle: nothing is divided by
\* nothing, and a turn is not run backwards.
ScalesAreWhole(pressure, orientation, width) ==
  LET s == ScalesOf(pressure, orientation, width)
      r(at) == RecordOf(s, [pressure |-> at, azimuth |-> at, altitude |-> at, twist |-> at])
  IN  /\ s.pressure # 0
      /\ \A at \in -1 .. 2 : r(at).pressure.num \in 0 .. r(at).pressure.den
      /\ s.lean # None => s.lean[1] > 0 /\ s.lean[2] > 0
      /\ s.twist # None => s.twist > 0
=============================================================================
