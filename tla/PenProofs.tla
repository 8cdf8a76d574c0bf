------------------------------ MODULE PenProofs ------------------------------
(***************************************************************************)
(* What the pens keep of their word, proved for any ring of records, any   *)
(* samples and corrections, any number of observer threads and contexts:   *)
(* the raw observer's start, stop and poll beside threads that may outlive *)
(* their stop, the driver's one context, and the ledger's late values.     *)
(***************************************************************************)
EXTENDS PenMachines, WellFoundedInduction, TLAPS

\* A set of naturals has a least member.
LEMMA LeastMember ==
  ASSUME NEW S \in SUBSET Nat, S # {}
  PROVE  \E m \in S : \A n \in S : m <= n
<1>1. IsWellFoundedOn(OpToRel(<, Nat), Nat)
  BY NatLessThanWellFounded
<1>2. PICK m \in S : \A n \in S : <<n, m>> \notin OpToRel(<, Nat)
  BY <1>1, WFMin
<1>3. ASSUME NEW n \in S PROVE m <= n
  <2>1. ~(n < m)
    BY <1>2 DEF OpToRel
  <2> QED
    BY <2>1
<1> QED
  BY <1>3

-----------------------------------------------------------------------------
(* The observer.                                                            *)

\* No thread is none of the threads.
Unnamed == MaxThreads \in Nat /\ NoThread \notin Threads

Places == {"unborn", "starting", "looping", "leaving", "gone"}
Calls == {"idle", "waits ready", "waits gone", "clears pose", "polls sequence", "polls pose"}
Taken == [report : Nat, at : {"idle", "flags", "sequence"}]
Calling == [in : Calls, of : Threads \cup {NoThread}, flags : Nat, sequence : Nat]

Shaped ==
  /\ started \in BOOLEAN /\ strayed \in BOOLEAN
  /\ thread \in Threads \cup {NoThread}
  /\ pc \in [Threads -> Places] /\ kept \in [Threads -> Pens \cup {NoThread}]
  /\ taking \in [Threads -> Taken]
  /\ call \in Calling
  /\ (call.in = "waits gone" => call.of \in Threads)
  /\ heard \in Seq(Pens) /\ FLAGS \in Nat /\ SEQUENCE \in Nat

\* A report is written out by a thread that loops, and the pose that shows is
\* a report's.
Writing == \A t \in Threads : taking[t].at # "idle" => pc[t] = "looping"
PoseRead == POSE = NoPose \/ (POSE.report \in DOMAIN heard /\ POSE.axes = heard[POSE.report])

\* While none outlived its stop, a thread that lives is the one kept, or the
\* one a stop waits for.
Owned(t) == t = thread \/ (call.in = "waits gone" /\ call.of = t)
OneOwned == ~strayed => \A t \in Live : Owned(t)

\* A stop keeps no thread; once its wait is over the words are cleared.
Stopping ==
  /\ call.in \in {"waits gone", "clears pose"} => thread = NoThread
  /\ ~strayed /\ thread = NoThread /\ call.in # "waits gone" =>
       FLAGS = 0 /\ (call.in # "clears pose" => POSE = NoPose)

\* All of it: the invariant of the observer.
OInv == Shaped /\ LiveMeansListening /\ Writing /\ PoseRead /\ OneOwned /\ Stopping

\* Doing nothing is one of the things Dart's isolate does.
LEMMA IdleIsACall ==
  Idle \in Calling /\ Idle.in = "idle"
<1>1. "idle" \in Calls
  BY DEF Calls
<1>2. NoThread \in Threads \cup {NoThread} /\ 0 \in Nat
  OBVIOUS
<1> QED
  BY <1>1, <1>2 DEF Idle, Calling

\* The invariant holds before anything is started.
LEMMA ObserverStarts ==
  ASSUME Unnamed, ObserverInit
  PROVE  OInv
<1>1. Shaped
  <2>1. NoTake \in Taken
    BY DEF NoTake, Taken
  <2>2. /\ taking \in [Threads -> Taken] /\ pc \in [Threads -> Places]
        /\ kept \in [Threads -> Pens \cup {NoThread}]
    BY <2>1 DEF ObserverInit, Places
  <2>3. heard \in Seq(Pens) /\ FLAGS \in Nat /\ SEQUENCE \in Nat /\ call \in Calling /\ call.in # "waits gone"
    BY IdleIsACall DEF ObserverInit
  <2>4. started \in BOOLEAN /\ strayed \in BOOLEAN /\ thread \in Threads \cup {NoThread}
    BY DEF ObserverInit
  <2> QED
    BY <2>2, <2>3, <2>4 DEF Shaped
<1> QED
  BY <1>1 DEF ObserverInit, OInv, LiveMeansListening, Writing, PoseRead, OneOwned, Stopping, Live, NoTake, Idle

\* The invariant is all the observer promises.
LEMMA ObserverHolds ==
  ASSUME OInv
  PROVE  ObserverIsSound
<1>1. StoppedLeavesNothing
  BY DEF OInv, Stopping, StoppedLeavesNothing
<1>2. ReadByItsOwn
  BY DEF OInv, PoseRead, ReadByItsOwn
<1> QED
  BY <1>1, <1>2 DEF ObserverIsSound, OInv

\* The lowest unborn thread is one.
LEMMA LowestIsUnborn ==
  ASSUME Unnamed, Unborn # {}
  PROVE  (CHOOSE t \in Unborn : \A u \in Unborn : t <= u) \in Unborn
<1>1. Unborn \in SUBSET Nat
  BY DEF Unborn, Unnamed, Threads
<1>3. \E t \in Unborn : \A u \in Unborn : t <= u
  BY <1>1, LeastMember
<1> QED
  BY <1>3

\* A thread is started when none is kept: while none strayed, none lives.
LEMMA StartKeeps ==
  ASSUME Unnamed, OInv, Start
  PROVE  OInv'
<1>1. CASE UNCHANGED <<pc, thread, call>>
  BY <1>1 DEF Start, OInv, Shaped, LiveMeansListening, Writing, PoseRead, OneOwned, Stopping, Live, Owned, theirs, words
<1>2. CASE Spawns(CHOOSE t \in Unborn : \A u \in Unborn : t <= u)
  <2>1. PICK t : t \in Unborn /\ Spawns(t)
    BY <1>2, LowestIsUnborn DEF Start
  <2>2. t \in Threads /\ pc[t] = "unborn" /\ t # NoThread
    BY <2>1 DEF Unborn, Unnamed
  <2>3. /\ thread' = t /\ call'.in = "waits ready"
        /\ \A u \in Threads : pc'[u] = IF u = t THEN "starting" ELSE pc[u]
        /\ pc' \in [Threads -> Places]
    BY <2>1, <2>2 DEF Spawns, Idle, OInv, Shaped, Places
  <2>4. UNCHANGED <<started, strayed, taking, kept, FLAGS, SEQUENCE, POSE, heard>>
    BY DEF Start, theirs, words
  <2>c. call' \in Calling
    BY <2>1, <2>2 DEF Spawns, Idle, Calling, Calls
  <2>5. Shaped'
    BY <2>2, <2>3, <2>4, <2>c DEF OInv, Shaped
  <2>a. LiveMeansListening'
    BY <2>2, <2>3, <2>4 DEF OInv, LiveMeansListening
  <2>b. Writing'
    BY <2>2, <2>3, <2>4 DEF OInv, Writing
  <2>6. LiveMeansListening' /\ Writing' /\ PoseRead'
    BY <2>a, <2>b, <2>4 DEF OInv, PoseRead
  <2>7. OneOwned'
    <3>1. ~strayed => Live = {}
      BY <2>2 DEF Start, OInv, OneOwned, Owned, Live, Unnamed
    <3> QED
      BY <3>1, <2>3, <2>4 DEF OneOwned, Owned, Live
  <2>8. Stopping'
    BY <2>2, <2>3 DEF Stopping
  <2> QED
    BY <2>5, <2>6, <2>7, <2>8 DEF OInv
<1> QED
  BY <1>1, <1>2 DEF Start

\* A stop lets go of the handle, and waits for its thread.
LEMMA StopKeeps ==
  ASSUME Unnamed, OInv, Stop
  PROVE  OInv'
<1>1. /\ thread \in Threads /\ thread' = NoThread
      /\ call'.in = "waits gone" /\ call'.of = thread /\ call' \in Calling
  BY DEF Stop, Idle, OInv, Shaped, Calling, Calls
<1>2. UNCHANGED <<started, strayed, pc, taking, kept, FLAGS, SEQUENCE, POSE, heard>>
  BY DEF Stop, theirs, words
<1>3. Shaped'
  BY <1>1, <1>2 DEF OInv, Shaped
<1>4. LiveMeansListening' /\ Writing' /\ PoseRead'
  BY <1>2 DEF OInv, LiveMeansListening, Writing, PoseRead
<1>5. OneOwned' /\ Stopping'
  BY <1>1, <1>2 DEF OInv, OneOwned, Owned, Live, Stop, Stopping
<1> QED
  BY <1>3, <1>4, <1>5 DEF OInv

\* The wait ends with the thread gone, or with one that outlived it.
LEMMA StopWaitedKeeps ==
  ASSUME Unnamed, OInv, StopWaited
  PROVE  OInv'
<1>1. call'.in = "clears pose" /\ FLAGS' = 0 /\ thread = NoThread /\ call.of \in Threads /\ call' \in Calling
  BY DEF StopWaited, Idle, OInv, Stopping, Shaped, Calling, Calls
<1>2. UNCHANGED <<started, thread, pc, taking, kept, SEQUENCE, POSE, heard>> /\ strayed' \in BOOLEAN
  BY DEF StopWaited
<1>3. Shaped'
  BY <1>1, <1>2 DEF OInv, Shaped
<1>4. LiveMeansListening' /\ Writing' /\ PoseRead'
  BY <1>2 DEF OInv, LiveMeansListening, Writing, PoseRead
<1>5. OneOwned'
  <2>1. ~strayed' => ~strayed /\ pc[call.of] = "gone"
    BY DEF StopWaited, OInv, Shaped
  <2>2. ~strayed' => Live = {}
    BY <2>1, <1>1 DEF OInv, OneOwned, Owned, Live, Unnamed
  <2> QED
    BY <2>2, <1>2 DEF OneOwned, Live
<1>6. Stopping'
  BY <1>1, <1>2 DEF Stopping
<1> QED
  BY <1>3, <1>4, <1>5, <1>6 DEF OInv

\* The stop clears the pose last.
LEMMA StopReturnsKeeps ==
  ASSUME Unnamed, OInv, StopReturns
  PROVE  OInv'
<1>1. call'.in = "idle" /\ POSE' = NoPose /\ call.in = "clears pose" /\ call' \in Calling
  BY DEF StopReturns, Idle, Calling, Calls
<1>2. UNCHANGED <<started, strayed, thread, pc, taking, kept, FLAGS, SEQUENCE, heard>>
  BY DEF StopReturns
<1>3. Shaped'
  BY <1>1, <1>2 DEF OInv, Shaped
<1> QED
  BY <1>1, <1>2, <1>3 DEF OInv, LiveMeansListening, Writing, PoseRead, OneOwned, Owned, Live, Stopping

\* A call's return, and a poll, change nothing but the call.
LEMMA CallKeeps ==
  ASSUME Unnamed, OInv, StartReturns \/ PollFlags \/ PollSequence \/ PollPose
  PROVE  OInv'
<1>1. call' \in Calling /\ call'.in \notin {"waits gone", "clears pose"} /\ call.in \notin {"waits gone", "clears pose"}
  <2>1. call \in Calling /\ FLAGS \in Nat /\ SEQUENCE \in Nat
    BY DEF OInv, Shaped
  <2>2. CASE StartReturns \/ PollPose
    BY <2>2, IdleIsACall DEF StartReturns, PollPose
  <2>3. CASE PollFlags
    BY <2>1, <2>3 DEF PollFlags, Idle, Calling, Calls
  <2>4. CASE PollSequence
    BY <2>1, <2>4 DEF PollSequence, Calling, Calls
  <2> QED
    BY <2>2, <2>3, <2>4
<1>2. UNCHANGED <<started, strayed, thread, pc, taking, kept, FLAGS, SEQUENCE, POSE, heard>>
  BY DEF StartReturns, PollFlags, PollSequence, PollPose, theirs, words
<1>a. Shaped'
  BY <1>1, <1>2 DEF OInv, Shaped
<1> QED
  BY <1>1, <1>2, <1>a DEF OInv, LiveMeansListening, Writing, PoseRead, OneOwned, Owned, Live, Stopping

\* A thread that writes is alive: the words are not yet cleared for good.
LEMMA WriterIsOwned ==
  ASSUME Unnamed, OInv, NEW t \in Threads, pc[t] = "looping"
  PROVE  strayed \/ thread # NoThread \/ call.in = "waits gone"
BY DEF OInv, OneOwned, Owned, Live, Unnamed, Shaped

\* A report is read with its own device's declaration, by a thread that lives.
LEMMA TakesKeeps ==
  ASSUME Unnamed, OInv, NEW t \in Threads, NEW pen \in Pens, Takes(t, pen)
  PROVE  OInv'
<1>1. UNCHANGED <<started, strayed, thread, pc, call, FLAGS, SEQUENCE>>
  BY DEF Takes, ours
<1>2. Known(t, pen) = pen
  BY DEF Known
<1>3. heard \in Seq(Pens) /\ heard' = Append(heard, pen)
  BY DEF OInv, Shaped, Takes
<1>4. /\ heard' \in Seq(Pens) /\ Len(heard') \in DOMAIN heard' /\ Len(heard') \in Nat
      /\ heard'[Len(heard')] = pen
  BY <1>3
<1>5. /\ kept' \in [Threads -> Pens \cup {NoThread}] /\ kept'[t] = pen
      /\ taking' \in [Threads -> Taken]
      /\ \A u \in Threads : u # t => taking'[u] = taking[u]
  <2>1. [report |-> Len(heard'), at |-> "flags"] \in Taken
    BY <1>4 DEF Taken
  <2> QED
    BY <1>2, <2>1 DEF OInv, Shaped, Takes
<1>6. POSE' = [report |-> Len(heard'), axes |-> pen]
  BY <1>5 DEF Takes
<1>7. Shaped'
  BY <1>1, <1>4, <1>5 DEF OInv, Shaped
<1>8. PoseRead'
  BY <1>4, <1>6 DEF PoseRead
<1>a. Writing'
  BY <1>1, <1>5 DEF OInv, Writing, Takes
<1>9. LiveMeansListening' /\ Writing' /\ OneOwned'
  BY <1>1, <1>a DEF OInv, LiveMeansListening, OneOwned, Owned, Live
<1>10. Stopping'
  BY <1>1, WriterIsOwned DEF Takes, OInv, Stopping
<1> QED
  BY <1>7, <1>8, <1>9, <1>10 DEF OInv

\* The words of a report are written by a thread that lives.
LEMMA WritesOutKeeps ==
  ASSUME Unnamed, OInv, NEW t \in Threads, TakesFlags(t) \/ TakesSequence(t)
  PROVE  OInv'
<1>1. UNCHANGED <<started, strayed, thread, pc, call, kept, POSE, heard>>
  BY DEF TakesFlags, TakesSequence, ours
<1>2. pc[t] = "looping"
  BY DEF TakesFlags, TakesSequence, OInv, Writing
<1>3. /\ taking' \in [Threads -> Taken] /\ FLAGS' \in Nat /\ SEQUENCE' \in Nat
      /\ \A u \in Threads : u # t => taking'[u] = taking[u]
  <2>1. taking \in [Threads -> Taken] /\ taking[t].report \in Nat /\ FLAGS \in Nat /\ SEQUENCE \in Nat
    BY DEF OInv, Shaped, Taken
  <2>2. PICK take \in Taken : taking' = [taking EXCEPT ![t] = take]
    <3>1. NoTake \in Taken /\ [taking[t] EXCEPT !.at = "sequence"] \in Taken
      BY <2>1 DEF NoTake, Taken
    <3>2. CASE TakesFlags(t)
      BY <3>1, <3>2 DEF TakesFlags
    <3>3. CASE TakesSequence(t)
      BY <3>1, <3>3 DEF TakesSequence
    <3> QED
      BY <3>2, <3>3
  <2> QED
    BY <2>1, <2>2 DEF TakesFlags, TakesSequence
<1>4. Shaped'
  BY <1>1, <1>3 DEF OInv, Shaped
<1>5. LiveMeansListening' /\ Writing' /\ PoseRead' /\ OneOwned'
  BY <1>1, <1>2, <1>3 DEF OInv, LiveMeansListening, Writing, PoseRead, OneOwned, Owned, Live
<1>6. Stopping'
  BY <1>1, <1>2, WriterIsOwned DEF OInv, Stopping
<1> QED
  BY <1>4, <1>5, <1>6 DEF OInv

\* A thread begins to listen, fails to, leaves its loop or ends.
LEMMA ThreadKeeps ==
  ASSUME Unnamed, OInv, NEW t \in Threads, Registers(t) \/ Fails(t) \/ Leaves(t) \/ Ends(t)
  PROVE  OInv'
<1>1. UNCHANGED <<strayed, thread, call, kept, taking, FLAGS, SEQUENCE, POSE, heard>>
  BY DEF Registers, Fails, Leaves, Ends, ours, theirs, words
<1>2. PICK place \in Places : pc' = [pc EXCEPT ![t] = place]
  BY DEF Registers, Fails, Leaves, Ends, Places
<1>3. /\ pc' \in [Threads -> Places] /\ pc'[t] = place
      /\ \A u \in Threads : u # t => pc'[u] = pc[u]
  BY <1>2 DEF OInv, Shaped
<1>4. pc[t] \in {"starting", "looping", "leaving"} /\ taking[t].at = "idle" /\ started' \in BOOLEAN
  BY DEF Registers, Fails, Leaves, Ends, OInv, Writing, Shaped
<1>5. Shaped' /\ PoseRead' /\ Stopping' /\ Writing'
  BY <1>1, <1>3, <1>4 DEF OInv, Shaped, PoseRead, Stopping, Writing
<1>6. OneOwned'
  <2>1. Live' \subseteq Live
    BY <1>3, <1>4 DEF Live
  <2> QED
    BY <2>1, <1>1 DEF OInv, OneOwned, Owned
<1>7. LiveMeansListening'
  BY <1>3 DEF Registers, Fails, Leaves, Ends, OInv, Shaped, LiveMeansListening
<1> QED
  BY <1>5, <1>6, <1>7 DEF OInv

\* An answer that reports flow is never for an observer that has ended, a stop
\* that waited its thread out leaves nothing of the pen behind, and each report
\* is read with its own device's declaration (raw.rs start, stop, poll, take).
THEOREM ObserverSound ==
  ASSUME Unnamed
  PROVE  ObserverInit /\ [][ObserverNext]_observerVars => []ObserverIsSound
<1>1. ObserverInit => OInv
  BY ObserverStarts
<1>2. OInv /\ [ObserverNext]_observerVars => OInv'
  <2> SUFFICES ASSUME OInv, [ObserverNext]_observerVars PROVE OInv'
    OBVIOUS
  <2>1. CASE Start \/ StartReturns \/ Stop \/ StopWaited \/ StopReturns \/ PollFlags \/ PollSequence \/ PollPose
    BY <2>1, StartKeeps, StopKeeps, StopWaitedKeeps, StopReturnsKeeps, CallKeeps
  <2>2. CASE \E t \in Threads :
                \/ Registers(t) \/ Fails(t) \/ TakesFlags(t) \/ TakesSequence(t)
                \/ Leaves(t) \/ Ends(t)
                \/ \E pen \in Pens : Takes(t, pen)
    BY <2>2, ThreadKeeps, WritesOutKeeps, TakesKeeps
  <2>3. CASE UNCHANGED observerVars
    BY <2>3 DEF observerVars, OInv, Shaped, LiveMeansListening, Writing, PoseRead, OneOwned, Owned, Live, Stopping
  <2> QED
    BY <2>1, <2>2, <2>3 DEF ObserverNext
<1>3. OInv => ObserverIsSound
  BY ObserverHolds
<1> QED
  BY <1>1, <1>2, <1>3, PTL

-----------------------------------------------------------------------------
(* The driver's context.                                                    *)

\* No context is no number, and a poll and the driver keep some packets.
Drives == NoContext \notin Nat /\ ROOM \in Nat /\ QUEUE \in Nat

\* The least of two numbers is the one not above the other.
LEMMA LesserOfTwo ==
  ASSUME NEW a \in Int, NEW b \in Int
  PROVE  Min({a, b}) = IF a <= b THEN a ELSE b
<1>1. \E x \in {a, b} : \A y \in {a, b} : x <= y
  OBVIOUS
<1>2. Min({a, b}) \in {a, b} /\ \A y \in {a, b} : Min({a, b}) <= y
  BY <1>1 DEF Min
<1> QED
  BY <1>2

\* The greatest of two numbers is the one not below the other.
LEMMA GreaterOfTwo ==
  ASSUME NEW a \in Int, NEW b \in Int
  PROVE  Max({a, b}) = IF a >= b THEN a ELSE b
<1>1. \E x \in {a, b} : \A y \in {a, b} : x >= y
  OBVIOUS
<1>2. Max({a, b}) \in {a, b} /\ \A y \in {a, b} : Max({a, b}) >= y
  BY <1>1 DEF Max
<1> QED
  BY <1>2

\* Packets in the order they came, and all of one sequence before another's.
Rises(s) == \A i, j \in 1..Len(s) : i < j => s[i] < s[j]
Before(s, t) == \A i \in 1..Len(s), j \in 1..Len(t) : s[i] < t[j]
UpTo(s, n) == \A i \in 1..Len(s) : s[i] <= n

PacketsInOrder ==
  /\ arrived \in Nat /\ read \in Seq(Nat) /\ queue \in Seq(Nat)
  /\ Rises(read) /\ Rises(queue) /\ Before(read, queue)
  /\ UpTo(read, arrived) /\ UpTo(queue, arrived)
OneOpen ==
  /\ made \in Nat /\ opened \in 1..made \cup {NoContext}
  /\ contexts = IF opened = NoContext THEN {} ELSE {opened}
CInv == PacketsInOrder /\ OneOpen

\* What a poll reads of the queue's front goes after what was read, and what is
\* left of the queue goes after both.
LEMMA PolledInOrder ==
  ASSUME NEW r \in Seq(Nat), NEW q \in Seq(Nat), NEW n \in Nat,
         NEW given \in 0..Len(q), NEW k \in 0..given,
         Rises(r), Rises(q), Before(r, q), UpTo(r, n), UpTo(q, n)
  PROVE  LET more == r \o SubSeq(q, 1, k)
             left == SubSeq(q, given + 1, Len(q))
         IN  /\ more \in Seq(Nat) /\ left \in Seq(Nat)
             /\ Rises(more) /\ Rises(left) /\ Before(more, left)
             /\ UpTo(more, n) /\ UpTo(left, n)
<1> DEFINE front == SubSeq(q, 1, k)
           more == r \o front
           left == SubSeq(q, given + 1, Len(q))
<1>1. front \in Seq(Nat) /\ Len(front) = k /\ \A i \in 1..k : front[i] = q[i]
  OBVIOUS
<1>2. /\ left \in Seq(Nat) /\ Len(left) = Len(q) - given
      /\ \A i \in 1..Len(q) - given : left[i] = q[given + i]
  OBVIOUS
<1> HIDE DEF front
<1>3. more \in Seq(Nat) /\ Len(more) = Len(r) + k
  <2>1. front \in Seq(Nat) /\ Len(front) = k
    BY <1>1
  <2> QED
    BY <2>1
<1>4. Len(r) \in Nat /\ Len(q) \in Nat
  OBVIOUS
<1>a. \A i \in 1..Len(r) : more[i] = r[i]
  BY <1>1
<1>b. \A m \in 1..k : more[Len(r) + m] = q[m]
  <2> SUFFICES ASSUME NEW m \in 1..k PROVE more[Len(r) + m] = q[m]
    OBVIOUS
  <2>1. Len(r) + m \in 1..Len(r) + Len(front) /\ Len(r) + m > Len(r) /\ (Len(r) + m) - Len(r) = m
    BY <1>1, <1>4
  <2>2. more[Len(r) + m] = front[m]
    BY <2>1, <1>1
  <2> QED
    BY <2>2, <1>1
<1> HIDE DEF more, left
\* What a poll read is old, or of the queue's front.
<1>c. \A i \in 1..Len(r) + k : i \in 1..Len(r) \/ \E m \in 1..k : i = Len(r) + m
  <2> SUFFICES ASSUME NEW i \in 1..Len(r) + k, i \notin 1..Len(r) PROVE \E m \in 1..k : i = Len(r) + m
    OBVIOUS
  <2>1. i - Len(r) \in 1..k /\ i = Len(r) + (i - Len(r))
    BY <1>4
  <2> QED
    BY <2>1
<1>6. Rises(more)
  <2> SUFFICES ASSUME NEW i \in 1..Len(r) + k, NEW j \in 1..Len(r) + k, i < j PROVE more[i] < more[j]
    BY <1>3 DEF Rises
  <2>1. CASE j \in 1..Len(r)
    <3>1. i \in 1..Len(r)
      BY <2>1, <1>4
    <3>2. r[i] < r[j]
      BY <3>1, <2>1 DEF Rises
    <3> QED
      BY <3>1, <3>2, <2>1, <1>a
  <2>2. ASSUME NEW m \in 1..k, j = Len(r) + m PROVE more[i] < more[j]
    <3>1. m \in 1..Len(q)
      BY <1>4
    <3>2. CASE i \in 1..Len(r)
      <4>1. r[i] < q[m]
        BY <3>1, <3>2 DEF Before
      <4> QED
        BY <4>1, <3>2, <2>2, <1>a, <1>b
    <3>3. ASSUME NEW l \in 1..k, i = Len(r) + l PROVE more[i] < more[j]
      <4>1. l < m /\ l \in 1..Len(q)
        BY <3>3, <2>2, <1>4
      <4>2. q[l] < q[m]
        BY <4>1, <3>1 DEF Rises
      <4> QED
        BY <4>2, <3>3, <2>2, <1>b
    <3> QED
      BY <3>2, <3>3, <1>c
  <2> QED
    BY <2>1, <2>2, <1>c
<1>7. Rises(left)
  <2> SUFFICES ASSUME NEW i \in 1..Len(q) - given, NEW j \in 1..Len(q) - given, i < j PROVE left[i] < left[j]
    BY <1>2 DEF Rises
  <2>1. given + i \in 1..Len(q) /\ given + j \in 1..Len(q) /\ given + i < given + j
    BY <1>4
  <2>2. q[given + i] < q[given + j]
    BY <2>1 DEF Rises
  <2> QED
    BY <2>2, <1>2
<1>8. Before(more, left)
  <2> SUFFICES ASSUME NEW i \in 1..Len(r) + k, NEW j \in 1..Len(q) - given PROVE more[i] < left[j]
    BY <1>2, <1>3 DEF Before
  <2>a. given + j \in 1..Len(q)
    BY <1>4
  <2>b. left[j] = q[given + j]
    BY <1>2
  <2>1. given + j \in 1..Len(q) /\ left[j] = q[given + j]
    BY <2>a, <2>b
  <2>2. CASE i \in 1..Len(r)
    <3>1. r[i] < q[given + j]
      BY <2>1, <2>2 DEF Before
    <3> QED
      BY <3>1, <2>1, <2>2, <1>a
  <2>3. ASSUME NEW m \in 1..k, i = Len(r) + m PROVE more[i] < left[j]
    <3>1. m \in 1..Len(q) /\ m < given + j
      BY <1>4
    <3>2. q[m] < q[given + j]
      BY <3>1, <2>1 DEF Rises
    <3> QED
      BY <3>2, <2>1, <2>3, <1>b
  <2> QED
    BY <2>2, <2>3, <1>c
<1>9. UpTo(more, n)
  <2> SUFFICES ASSUME NEW i \in 1..Len(r) + k PROVE more[i] <= n
    BY <1>3 DEF UpTo
  <2>1. CASE i \in 1..Len(r)
    <3>1. r[i] <= n
      BY <2>1 DEF UpTo
    <3> QED
      BY <3>1, <2>1, <1>a
  <2>2. ASSUME NEW m \in 1..k, i = Len(r) + m PROVE more[i] <= n
    <3>1. m \in 1..Len(q)
      BY <1>4
    <3>2. q[m] <= n
      BY <3>1 DEF UpTo
    <3> QED
      BY <3>2, <2>2, <1>b
  <2> QED
    BY <2>1, <2>2, <1>c
<1>10. UpTo(left, n)
  <2> SUFFICES ASSUME NEW j \in 1..Len(q) - given PROVE left[j] <= n
    BY <1>2 DEF UpTo
  <2>1. given + j \in 1..Len(q)
    BY <1>4
  <2>2. q[given + j] <= n
    BY <2>1 DEF UpTo
  <2> QED
    BY <2>2, <1>2
<1> QED
  BY <1>2, <1>3, <1>6, <1>7, <1>8, <1>9, <1>10 DEF more, left, front

\* A poll takes from the driver no more than it queued, and reads no more than
\* it was given, whatever the driver claims.
LEMMA DriverPollKeeps ==
  ASSUME Drives, CInv, NEW cap \in 0..ROOM + 1, NEW claimed \in Int, Poll(cap, claimed)
  PROVE  CInv'
<1> DEFINE want == Min({cap, ROOM})
           given == Min({Len(queue), want})
           got == Min({Max({claimed, 0}), want})
           k == Min({got, given})
<1>1. want \in Nat
  BY LesserOfTwo DEF Drives
<1>2. Len(queue) \in Nat
  BY DEF CInv, PacketsInOrder
<1>3. given \in 0..Len(queue)
  <2> HIDE DEF want
  <2> QED
    BY <1>1, <1>2, LesserOfTwo
<1>4. Max({claimed, 0}) \in Nat
  BY GreaterOfTwo
<1>5. got \in Nat
  <2> HIDE DEF want
  <2> QED
    BY <1>1, <1>4, LesserOfTwo
<1>6. k \in 0..given
  <2> HIDE DEF got, given
  <2> QED
    BY <1>3, <1>5, <1>2, LesserOfTwo
<1>7. read' = read \o SubSeq(queue, 1, k) /\ queue' = SubSeq(queue, given + 1, Len(queue))
  BY DEF Poll
<1> HIDE DEF k, given
<1>8. UNCHANGED <<opened, contexts, made, arrived>>
  BY DEF Poll
<1>9. PacketsInOrder'
  BY <1>3, <1>6, <1>7, <1>8, PolledInOrder DEF CInv, PacketsInOrder
<1> QED
  BY <1>8, <1>9 DEF CInv, OneOpen

\* A packet arrives after every other.
LEMMA QueuesKeeps ==
  ASSUME Drives, CInv, Queues
  PROVE  CInv'
<1>1. /\ arrived \in Nat /\ arrived' = arrived + 1 /\ read' = read
      /\ read \in Seq(Nat) /\ queue \in Seq(Nat)
  BY DEF Queues, CInv, PacketsInOrder
<1>2. OneOpen'
  BY DEF Queues, CInv, OneOpen
<1>3. UpTo(read, arrived') /\ UpTo(queue, arrived')
  BY <1>1 DEF CInv, PacketsInOrder, UpTo
<1>4. CASE queue' = queue
  BY <1>1, <1>2, <1>3, <1>4 DEF CInv, PacketsInOrder
<1>5. CASE queue' = Append(queue, arrived')
  <2>1. /\ queue' \in Seq(Nat) /\ Len(queue') = Len(queue) + 1
        /\ \A i \in 1..Len(queue) : queue'[i] = queue[i]
        /\ queue'[Len(queue) + 1] = arrived'
    BY <1>1, <1>5
  <2>2. Len(queue) \in Nat /\ \A i \in 1..Len(queue) : queue[i] \in Nat
    BY <1>1
  <2>a. \A i \in 1..Len(queue) + 1 : i \in 1..Len(queue) \/ i = Len(queue) + 1
    BY <2>2
  <2>b. \A i \in 1..Len(queue) : queue[i] <= arrived
    BY DEF CInv, PacketsInOrder, UpTo
  <2>c. \A i \in 1..Len(read) : read[i] <= arrived /\ read[i] \in Nat
    BY <1>1 DEF CInv, PacketsInOrder, UpTo
  <2>3. Rises(queue')
    <3> SUFFICES ASSUME NEW i \in 1..Len(queue) + 1, NEW j \in 1..Len(queue) + 1, i < j
                 PROVE  queue'[i] < queue'[j]
      BY <2>1 DEF Rises
    <3>1. i \in 1..Len(queue)
      BY <2>2
    <3>2. CASE j \in 1..Len(queue)
      <4>1. queue[i] < queue[j]
        BY <3>1, <3>2 DEF CInv, PacketsInOrder, Rises
      <4> QED
        BY <4>1, <3>1, <3>2, <2>1
    <3>3. CASE j = Len(queue) + 1
      <4>1. queue[i] <= arrived /\ queue[i] \in Nat
        BY <3>1, <2>b, <2>2
      <4>2. queue'[i] = queue[i] /\ queue'[j] = arrived + 1
        BY <3>1, <3>3, <2>1, <1>1
      <4> QED
        BY <4>1, <4>2, <1>1
    <3> QED
      BY <3>2, <3>3, <2>a
  <2>d. UpTo(queue', arrived')
    <3> SUFFICES ASSUME NEW i \in 1..Len(queue) + 1 PROVE queue'[i] <= arrived'
      BY <2>1 DEF UpTo
    <3>1. CASE i \in 1..Len(queue)
      <4>1. queue[i] <= arrived /\ queue[i] \in Nat /\ queue'[i] = queue[i]
        BY <3>1, <2>b, <2>2, <2>1
      <4> QED
        BY <4>1, <1>1
    <3>2. CASE i = Len(queue) + 1
      BY <3>2, <2>1, <1>1
    <3> QED
      BY <3>1, <3>2, <2>a
  <2>4. Before(read, queue')
    <3> SUFFICES ASSUME NEW i \in 1..Len(read), NEW j \in 1..Len(queue) + 1 PROVE read[i] < queue'[j]
      BY <2>1, <1>1 DEF Before
    <3>1. CASE j \in 1..Len(queue)
      <4>1. read[i] < queue[j]
        BY <3>1 DEF CInv, PacketsInOrder, Before
      <4> QED
        BY <4>1, <3>1, <2>1
    <3>2. CASE j = Len(queue) + 1
      BY <3>2, <2>1, <2>c, <1>1
    <3> QED
      BY <3>1, <3>2, <2>a
  <2> QED
    BY <1>1, <1>2, <1>3, <2>1, <2>3, <2>d, <2>4 DEF CInv, PacketsInOrder
<1> QED
  BY <1>4, <1>5 DEF Queues

\* A context is opened only where none is kept.
LEMMA OpenKeeps ==
  ASSUME Drives, CInv, Open
  PROVE  CInv'
<1>1. PacketsInOrder'
  BY DEF Open, CInv, PacketsInOrder
<1>2. OneOpen'
  BY DEF Open, CInv, OneOpen, Drives
<1> QED
  BY <1>1, <1>2 DEF CInv

\* The context closed is the one kept.
LEMMA CloseKeeps ==
  ASSUME Drives, CInv, Close
  PROVE  CInv'
<1>1. PacketsInOrder'
  <2>1. queue' = <<>> /\ queue' \in Seq(Nat) /\ Len(queue') = 0
    BY DEF Close
  <2> QED
    BY <2>1 DEF Close, CInv, PacketsInOrder, Rises, Before, UpTo
<1>2. OneOpen'
  BY DEF Close, CInv, OneOpen
<1> QED
  BY <1>1, <1>2 DEF CInv

\* The driver holds the one context the app knows of and no other, and the
\* packets are read in order, each once, whatever a poll is told it was given
\* (wintab.rs open, close, poll).
THEOREM TabletOneContext ==
  ASSUME Drives
  PROVE  TabletInit /\ [][TabletNext]_tabletVars => []OneContext
<1>1. TabletInit => CInv
  BY DEF TabletInit, CInv, PacketsInOrder, OneOpen, Rises, Before, UpTo
<1>2. CInv /\ [TabletNext]_tabletVars => CInv'
  <2> SUFFICES ASSUME CInv, [TabletNext]_tabletVars PROVE CInv'
    OBVIOUS
  <2>1. CASE Shows \/ Plugs \/ UNCHANGED tabletVars
    BY <2>1 DEF Shows, Plugs, tabletVars, CInv, PacketsInOrder, OneOpen
  <2>2. CASE Queues \/ Open \/ Close
    BY <2>2, QueuesKeeps, OpenKeeps, CloseKeeps
  <2>3. ASSUME NEW cap \in 0..ROOM + 1,
               NEW claimed \in {-1, Min({Len(queue), cap, ROOM}), ROOM + 1}, Poll(cap, claimed)
        PROVE  CInv'
    <3>1. claimed \in Int
      <4>1. {Len(queue), cap, ROOM} \in SUBSET Nat
        BY DEF CInv, PacketsInOrder, Drives
      <4>2. Min({Len(queue), cap, ROOM}) \in Nat
        BY <4>1, LeastMember DEF Min
      <4> QED
        BY <4>2 DEF Drives
    <3> QED
      BY <3>1, <2>3, DriverPollKeeps
  <2> QED
    BY <2>1, <2>2, <2>3 DEF TabletNext
<1>3. CInv => OneContext
  <2> SUFFICES ASSUME CInv PROVE OneContext
    OBVIOUS
  <2>1. DOMAIN read = 1..Len(read)
    BY DEF CInv, PacketsInOrder
  <2> QED
    BY <2>1 DEF CInv, PacketsInOrder, OneOpen, Rises, OneContext
<1> QED
  BY <1>1, <1>2, <1>3, PTL

-----------------------------------------------------------------------------
(* The ledger.                                                              *)

\* The ring keeps a record, and an empty place is no record, value or number.
Records ==
  /\ RING \in Nat \ {0} /\ MaxNotes \in Nat
  /\ NoSample \notin Nat /\ NoSample \notin Values /\ NoSample \notin Sample

Said == [micros : Stamps, kind : {"touch", "tablet", "mouse"},
         guesses : SUBSET Properties, awaited : SUBSET Properties]

\* A state and a value of a property of sample n, of which the platform says w.
Tells(state, value, n, w, property) ==
  /\ property \in w.awaited => state = ESTIMATED
  /\ property \in w.guesses \ w.awaited => state = ESTIMATED_FINAL
  /\ property \notin w.guesses => state = MEASURED /\ value = Real(n)

\* A record that says what the platform does.
Told(r, n, w) ==
  /\ r \in Sample /\ r.micros = w.micros /\ r.update_index \in {NoSample, n}
  /\ w.kind = "touch" =>
       /\ w.awaited # {} => r.update_index = n
       /\ Tells(r.state, r.value, n, w, "force")
       /\ Tells(r.altitude_state, r.altitude, n, w, "altitude")
       /\ r.tilt_state = UNREPORTED
  /\ w.kind = "tablet" =>
       /\ r.state = MEASURED /\ r.value = Real(n) /\ r.altitude_state = UNREPORTED
       /\ r.tilt_state = MEASURED /\ r.tilt = Real(n)
  /\ w.kind = "mouse" =>
       /\ r.state = NO_PRESSURE /\ r.altitude_state = UNREPORTED
       /\ r.tilt_state = UNREPORTED

\* The platform's account is well formed; the ring's places hold records or
\* nothing; and the b-th record back tells of the b-th sample back.
SaidFits ==
  /\ said \in Seq(Said) /\ Len(said) <= MaxNotes
  /\ \A n \in 1..Len(said) : said[n].awaited \subseteq said[n].guesses
RingFits == next \in 0..RING - 1 /\ ring \in [0..RING - 1 -> Sample \cup {NoSample}]
BackFits ==
  \A b \in 1..RING :
    /\ b <= Len(said) => Told(Back(b), Len(said) + 1 - b, said[Len(said) + 1 - b])
    /\ b > Len(said) => Back(b) = NoSample

LInv == SaidFits /\ RingFits /\ BackFits

\* A count below two ringfuls wraps once.
LEMMA Wraps ==
  ASSUME NEW n \in Nat \ {0}, NEW x \in 0..2 * n - 1
  PROVE  x % n = IF x < n THEN x ELSE x - n
<1> DEFINE q == x \div n
           m == x % n
<1>1. q \in Nat /\ m \in 0..n - 1 /\ x = n * q + m
  BY Z3
<1> HIDE DEF q, m
<1>2. q < 2
  <2> SUFFICES ASSUME q >= 2 PROVE FALSE
    BY <1>1
  <2>1. n * q >= n * 2
    BY <1>1, Z3
  <2> QED
    BY <1>1, <2>1, Z3
<1>3. CASE q = 0
  BY <1>1, <1>3 DEF m
<1>4. CASE q = 1
  BY <1>1, <1>4 DEF m
<1> QED
  BY <1>1, <1>2, <1>3, <1>4

\* The place b records back from the next one, and the place after it.
Place(at, b) == IF b <= at THEN at - b ELSE at + RING - b

\* The b-th record back is at its place on the ring.
LEMMA BackIsAt ==
  ASSUME Records, NEW at \in 0..RING - 1, NEW b \in 1..RING
  PROVE  (at + RING - b) % RING = Place(at, b) /\ Place(at, b) \in 0..RING - 1
<1> DEFINE x == at + RING - b
<1>1. RING \in Nat \ {0} /\ x \in 0..2 * RING - 1
  BY DEF Records
<1>2. x % RING = IF x < RING THEN x ELSE x - RING
  <2> HIDE DEF x
  <2> QED
    BY <1>1, Wraps
<1> QED
  BY <1>1, <1>2 DEF Place

\* The next place is the one after, or the first.
LEMMA NextIsAt ==
  ASSUME Records, NEW at \in 0..RING - 1
  PROVE  (at + 1) % RING = IF at + 1 = RING THEN 0 ELSE at + 1
<1> DEFINE x == at + 1
<1>1. RING \in Nat \ {0} /\ x \in 0..2 * RING - 1
  BY DEF Records
<1>2. x % RING = IF x < RING THEN x ELSE x - RING
  <2> HIDE DEF x
  <2> QED
    BY <1>1, Wraps
<1> QED
  BY <1>1, <1>2

\* A record that is taken in is the one of the sample noted, and every other is
\* one further back.
LEMMA RecordKeeps ==
  ASSUME Records, LInv, NEW r, NEW w \in Said, w.awaited \subseteq w.guesses,
         Len(said) + 1 <= MaxNotes, Told(r, Len(said) + 1, w),
         Record(r), said' = Append(said, w)
  PROVE  LInv'
<1>1. RING \in Nat \ {0} /\ next \in 0..RING - 1 /\ ring \in [0..RING - 1 -> Sample \cup {NoSample}]
  BY DEF Records, LInv, RingFits
<1>2. next' = IF next + 1 = RING THEN 0 ELSE next + 1
  BY <1>1, NextIsAt DEF Record
<1>3. r \in Sample
  BY DEF Told
<1>4. RingFits'
  BY <1>1, <1>2, <1>3 DEF RingFits, Record
<1>5. /\ said \in Seq(Said) /\ said' \in Seq(Said) /\ Len(said') = Len(said) + 1 /\ Len(said) \in Nat
      /\ said'[Len(said) + 1] = w
      /\ \A n \in 1..Len(said) : said'[n] = said[n]
  <2>1. said \in Seq(Said)
    BY DEF LInv, SaidFits
  <2> QED
    BY <2>1
<1>6. SaidFits'
  <2> SUFFICES ASSUME NEW n \in 1..Len(said) + 1 PROVE said'[n].awaited \subseteq said'[n].guesses
    BY <1>5 DEF SaidFits
  <2>1. CASE n \in 1..Len(said)
    BY <2>1, <1>5 DEF LInv, SaidFits
  <2>2. CASE n = Len(said) + 1
    BY <2>2, <1>5
  <2> QED
    BY <2>1, <2>2, <1>5
<1>7. next' \in 0..RING - 1 /\ ring'[next] = r /\ \A p \in 0..RING - 1 : p # next => ring'[p] = ring[p]
  BY <1>1, <1>4 DEF RingFits, Record
<1>8. Back(1)' = r
  <2>a. 1 \in 1..RING
    BY <1>1
  <2>b. (next' + RING - 1) % RING = Place(next', 1)
    BY <2>a, <1>7, BackIsAt
  <2>1. Back(1)' = ring'[Place(next', 1)]
    BY <2>b DEF Back
  <2>2. Place(next', 1) = next
    BY <1>1, <1>2 DEF Place
  <2> QED
    BY <2>1, <2>2, <1>7
<1>9. \A b \in 1..RING - 1 : Back(b + 1)' = Back(b)
  <2> SUFFICES ASSUME NEW b \in 1..RING - 1 PROVE Back(b + 1)' = Back(b)
    OBVIOUS
  <2>1. b + 1 \in 1..RING /\ b \in 1..RING
    BY <1>1
  <2>2. Back(b + 1)' = ring'[Place(next', b + 1)]
    BY <1>7, <2>1, BackIsAt DEF Back
  <2>3. Back(b) = ring[Place(next, b)] /\ Place(next, b) \in 0..RING - 1
    BY <1>1, <2>1, BackIsAt DEF Back
  <2>a. Place(next, b) # next
    BY <1>1 DEF Place
  <2>b. ASSUME next + 1 = RING PROVE Place(next', b + 1) = Place(next, b)
    BY <2>b, <1>1, <1>2 DEF Place
  <2>c. ASSUME next + 1 # RING PROVE Place(next', b + 1) = Place(next, b)
    BY <2>c, <1>1, <1>2 DEF Place
  <2>4. Place(next', b + 1) = Place(next, b) /\ Place(next, b) # next
    BY <2>a, <2>b, <2>c
  <2> QED
    BY <2>2, <2>3, <2>4, <1>7
<1>10. BackFits'
  <2> SUFFICES ASSUME NEW b \in 1..RING
               PROVE  /\ b <= Len(said) + 1 =>
                           Told(Back(b)', Len(said) + 2 - b, said'[Len(said) + 2 - b])
                      /\ b > Len(said) + 1 => Back(b)' = NoSample
    <3>1. Len(said') + 1 = Len(said) + 2
      BY <1>5
    <3>2. ASSUME NEW b \in 1..RING
          PROVE  /\ b <= Len(said') => Told(Back(b)', Len(said') + 1 - b, said'[Len(said') + 1 - b])
                 /\ b > Len(said') => Back(b)' = NoSample
      BY <3>1, <1>5
    <3> QED
      BY <3>2 DEF BackFits
  <2>1. CASE b = 1
    <3>1. Len(said) + 2 - b = Len(said) + 1 /\ b <= Len(said) + 1
      BY <2>1, <1>5
    <3>2. Told(Back(b)', Len(said) + 1, said'[Len(said) + 1])
      BY <2>1, <1>8, <1>5
    <3> QED
      BY <3>1, <3>2
  <2>2. CASE b # 1
    <3> DEFINE c == b - 1
    <3>1. c \in 1..RING - 1 /\ c \in 1..RING /\ c + 1 = b
      BY <2>2, <1>1
    <3>2. Back(b)' = Back(c)
      BY <3>1, <1>9
    <3>3. /\ c <= Len(said) => Told(Back(c), Len(said) + 1 - c, said[Len(said) + 1 - c])
          /\ c > Len(said) => Back(c) = NoSample
      BY <3>1 DEF LInv, BackFits
    <3>4. ASSUME b <= Len(said) + 1
          PROVE  Told(Back(b)', Len(said) + 2 - b, said'[Len(said) + 2 - b])
      <4>1. c <= Len(said) /\ Len(said) + 1 - c = Len(said) + 2 - b /\ Len(said) + 1 - c \in 1..Len(said)
        BY <3>4, <3>1, <1>5, <1>1
      <4>2. said'[Len(said) + 1 - c] = said[Len(said) + 1 - c]
        BY <4>1, <1>5
      <4> HIDE DEF c
      <4> QED
        BY <4>1, <4>2, <3>2, <3>3
    <3>5. ASSUME b > Len(said) + 1 PROVE Back(b)' = NoSample
      BY <3>5, <3>1, <3>2, <3>3, <1>5
    <3> QED
      BY <3>4, <3>5
  <2> QED
    BY <2>1, <2>2
<1> QED
  BY <1>4, <1>6, <1>10 DEF LInv

\* A touch is noted as the platform gave it; none but a pencil's is.
LEMMA NoteTouchKeeps ==
  ASSUME Records, LInv, NEW micros \in Stamps, NEW pencil \in BOOLEAN,
         NEW estimated \in SUBSET Properties, NEW awaited \in SUBSET estimated,
         NoteTouch(micros, pencil, estimated, awaited)
  PROVE  LInv'
<1> DEFINE n == Len(said) + 1
           r == [micros |-> micros, update_index |-> IF awaited = {} THEN NoSample ELSE n,
                 value |-> Carried(n, estimated, "force"),
                 state |-> StateOf(estimated, awaited, "force"),
                 altitude |-> Carried(n, estimated, "altitude"),
                 altitude_state |-> StateOf(estimated, awaited, "altitude"),
                 tilt |-> Guess(n), tilt_state |-> UNREPORTED]
           w == [micros |-> micros, kind |-> "touch", guesses |-> estimated, awaited |-> awaited]
<1>1. CASE ~pencil
  BY <1>1 DEF NoteTouch, ledgerVars, LInv, SaidFits, RingFits, BackFits, Back
<1>2. CASE pencil
  <2>1. Record(r) /\ said' = Append(said, w) /\ n <= MaxNotes
    BY <1>2 DEF NoteTouch
  <2>2. n \in 1..MaxNotes
    BY <2>1 DEF LInv, SaidFits, Records
  <2>3. w \in Said /\ w.awaited \subseteq w.guesses
    BY DEF Said
  <2>4. \A p : Carried(n, estimated, p) \in Values
    BY <2>2 DEF Carried, Guess, Real, Values
  <2>5. \A p : StateOf(estimated, awaited, p) \in States
    BY DEF StateOf, States
  <2>6. Guess(n) \in Values /\ UNREPORTED \in States
    BY <2>2 DEF Guess, Values, States
  <2>7. r \in Sample
    <3> HIDE DEF n
    <3> QED
      BY <2>2, <2>4, <2>5, <2>6 DEF Sample
  <2>8. \A p \in Properties : Tells(StateOf(estimated, awaited, p), Carried(n, estimated, p), n, w, p)
    BY DEF Tells, StateOf, Carried
  <2>9. Told(r, n, w)
    <3> HIDE DEF n
    <3>1. r.micros = w.micros /\ r.update_index \in {NoSample, n} /\ (w.awaited # {} => r.update_index = n)
      OBVIOUS
    <3>2. Tells(r.state, r.value, n, w, "force") /\ Tells(r.altitude_state, r.altitude, n, w, "altitude")
      <4> HIDE DEF w
      <4> QED
        BY <2>8 DEF Properties
    <3>3. w.kind = "touch" /\ r.tilt_state = UNREPORTED
      OBVIOUS
    <3> QED
      BY <2>7, <3>1, <3>2, <3>3 DEF Told
  <2> HIDE DEF r, w
  <2> QED
    BY <2>1, <2>3, <2>9, RecordKeeps
<1> QED
  BY <1>1, <1>2

\* A mouse's or a tablet's event is noted as the platform gave it.
LEMMA NoteEventKeeps ==
  ASSUME Records, LInv, NEW micros \in Stamps, NEW tablet \in BOOLEAN, NoteEvent(micros, tablet)
  PROVE  LInv'
<1> DEFINE n == Len(said) + 1
           r == [micros |-> micros, update_index |-> NoSample,
                 value |-> IF tablet THEN Real(n) ELSE Guess(n),
                 state |-> IF tablet THEN MEASURED ELSE NO_PRESSURE,
                 altitude |-> Guess(n), altitude_state |-> UNREPORTED,
                 tilt |-> IF tablet THEN Real(n) ELSE Guess(n),
                 tilt_state |-> IF tablet THEN MEASURED ELSE UNREPORTED]
           w == [micros |-> micros, awaited |-> {}, guesses |-> {},
                 kind |-> IF tablet THEN "tablet" ELSE "mouse"]
<1>1. Record(r) /\ said' = Append(said, w) /\ n <= MaxNotes
  BY DEF NoteEvent
<1>2. n \in 1..MaxNotes
  BY <1>1 DEF LInv, SaidFits, Records
<1>3. w \in Said /\ w.awaited \subseteq w.guesses
  BY DEF Said
<1>4. Guess(n) \in Values /\ Real(n) \in Values
  BY <1>2 DEF Guess, Real, Values
<1>5. r \in Sample
  <2>1. {UNREPORTED, MEASURED, NO_PRESSURE} \subseteq States
    BY DEF States
  <2> HIDE DEF n
  <2> QED
    BY <1>4, <2>1 DEF Sample
<1>6. Told(r, n, w)
  <2> HIDE DEF n
  <2> QED
    BY <1>5 DEF Told
<1> HIDE DEF r, w
<1> QED
  BY <1>1, <1>3, <1>6, RecordKeeps

\* A correction of a property changes what a record tells of it to what the
\* platform says once it no longer awaits it.
LEMMA CorrectedTells ==
  ASSUME NEW state, NEW value, NEW n, NEW w, NEW left \in SUBSET w.awaited,
         w.awaited \subseteq w.guesses, NEW p, Tells(state, value, n, w, p), NEW v,
         v.awaited = left, v.guesses = w.guesses \ (w.awaited \ left)
  PROVE  IF p \notin left /\ state = ESTIMATED THEN Tells(MEASURED, Real(n), n, v, p)
         ELSE Tells(state, value, n, v, p)
BY DEF Tells, ESTIMATED, ESTIMATED_FINAL, MEASURED

\* A correction changes the record of its own sample and no other.
LEMMA UpdateTouchKeeps ==
  ASSUME Records, LInv, NEW n \in DOMAIN said, NEW awaited \in SUBSET Properties, UpdateTouch(n, awaited)
  PROVE  LInv'
<1> DEFINE force == IF "force" \in awaited THEN NoSample ELSE Real(n)
           altitude == IF "altitude" \in awaited THEN NoSample ELSE Real(n)
           w == said[n]
           v == said'[n]
<1>1. said \in Seq(Said) /\ n \in 1..Len(said) /\ Len(said) \in Nat /\ Len(said) <= MaxNotes
  BY DEF LInv, SaidFits
<1>2. w \in Said /\ w.kind = "touch" /\ w.awaited # {} /\ awaited \subseteq w.awaited /\ w.awaited \subseteq w.guesses
  BY <1>1 DEF UpdateTouch, LInv, SaidFits
<1>3. /\ said' \in Seq(Said) /\ Len(said') = Len(said)
      /\ \A m \in 1..Len(said) : m # n => said'[m] = said[m]
      /\ v.micros = w.micros /\ v.kind = "touch"
      /\ v.awaited = awaited /\ v.guesses = w.guesses \ (w.awaited \ awaited)
  <2> DEFINE u == [said[n] EXCEPT !.awaited = awaited, !.guesses = @ \ (said[n].awaited \ awaited)]
  <2>1. said' = [said EXCEPT ![n] = u]
    BY DEF UpdateTouch
  <2>2. /\ u \in Said /\ u.micros = w.micros /\ u.kind = "touch"
        /\ u.awaited = awaited /\ u.guesses = w.guesses \ (w.awaited \ awaited)
    BY <1>2 DEF Said
  <2> HIDE DEF u
  <2> QED
    BY <2>1, <2>2, <1>1
<1>4. SaidFits'
  <2> SUFFICES ASSUME NEW m \in 1..Len(said) PROVE said'[m].awaited \subseteq said'[m].guesses
    BY <1>1, <1>3 DEF SaidFits
  <2>1. CASE m = n
    BY <2>1, <1>2, <1>3
  <2>2. CASE m # n
    BY <2>2, <1>3 DEF LInv, SaidFits
  <2> QED
    BY <2>1, <2>2
<1>5. Real(n) \in Values /\ Real(n) # NoSample /\ n # NoSample /\ n \in Nat
  <2>1. n \in 1..MaxNotes
    BY <1>1 DEF Records
  <2>2. Real(n) \in Values
    BY <2>1 DEF Real, Values
  <2> QED
    BY <2>1, <2>2 DEF Records
<1>6. next' = next /\ ring' = [i \in DOMAIN ring |-> Corrected(ring[i], n, force, altitude)]
  BY DEF UpdateTouch, Update
\* A record of another sample, or none, is not corrected.
<1>7. \A r : r = NoSample \/ r.update_index # n => Corrected(r, n, force, altitude) = r
  BY <1>5 DEF Corrected
<1>8. ASSUME NEW r \in Sample, Told(r, n, w)
      PROVE  Told(Corrected(r, n, force, altitude), n, v)
  <2> DEFINE f == "force" \notin awaited /\ r.state = ESTIMATED
             a == "altitude" \notin awaited /\ r.altitude_state = ESTIMATED
             c == [r EXCEPT !.value = IF f THEN Real(n) ELSE @, !.state = IF f THEN MEASURED ELSE @,
                            !.altitude = IF a THEN Real(n) ELSE @, !.altitude_state = IF a THEN MEASURED ELSE @]
  <2>1. r.update_index = n /\ r # NoSample
    BY <1>8, <1>2 DEF Told, Records
  <2>2. Corrected(r, n, force, altitude) = c
    BY <2>1, <1>5 DEF Corrected
  <2>3. /\ c \in Sample /\ c.micros = r.micros /\ c.update_index = n /\ c.tilt_state = r.tilt_state
        /\ c.value = (IF f THEN Real(n) ELSE r.value) /\ c.state = (IF f THEN MEASURED ELSE r.state)
        /\ c.altitude = (IF a THEN Real(n) ELSE r.altitude)
        /\ c.altitude_state = (IF a THEN MEASURED ELSE r.altitude_state)
    BY <2>1, <1>5 DEF Sample, States
  <2>4. Tells(r.state, r.value, n, w, "force") /\ Tells(r.altitude_state, r.altitude, n, w, "altitude")
    BY <1>8, <1>2 DEF Told
  <2>5. Tells(c.state, c.value, n, v, "force")
    <3> HIDE DEF c
    <3>1. IF f THEN Tells(MEASURED, Real(n), n, v, "force") ELSE Tells(r.state, r.value, n, v, "force")
      BY <2>4, <1>2, <1>3, CorrectedTells
    <3> QED
      BY <3>1, <2>3
  <2>6. Tells(c.altitude_state, c.altitude, n, v, "altitude")
    <3> HIDE DEF c
    <3> DEFINE state == r.altitude_state
               value == r.altitude
    <3>1. IF a THEN Tells(MEASURED, Real(n), n, v, "altitude") ELSE Tells(state, value, n, v, "altitude")
      <4>1. Tells(state, value, n, w, "altitude")
        BY <2>4
      <4> HIDE DEF state, value, v, w
      <4>2. IF "altitude" \notin awaited /\ state = ESTIMATED
            THEN Tells(MEASURED, Real(n), n, v, "altitude") ELSE Tells(state, value, n, v, "altitude")
        BY <4>1, <1>2, <1>3, CorrectedTells
      <4> QED
        BY <4>2 DEF state
    <3> QED
      BY <3>1, <2>3
  <2>7. Told(c, n, v)
    <3> HIDE DEF c
    <3> QED
      BY <2>3, <2>5, <2>6, <1>8, <1>2, <1>3 DEF Told
  <2> QED
    BY <2>2, <2>7
<1>9. ring \in [0..RING - 1 -> Sample \cup {NoSample}] /\ next \in 0..RING - 1
  BY DEF LInv, RingFits
<1>10. \A b \in 1..RING : Back(b)' = Corrected(Back(b), n, force, altitude)
  <2> SUFFICES ASSUME NEW b \in 1..RING PROVE Back(b)' = Corrected(Back(b), n, force, altitude)
    OBVIOUS
  <2>1. (next + RING - b) % RING \in 0..RING - 1
    BY <1>9, BackIsAt
  <2> QED
    BY <2>1, <1>6, <1>9 DEF Back
<1> HIDE DEF force, altitude, v, w
<1>11. BackFits'
  <2> SUFFICES ASSUME NEW b \in 1..RING
               PROVE  /\ b <= Len(said) => Told(Back(b)', Len(said) + 1 - b, said'[Len(said) + 1 - b])
                      /\ b > Len(said) => Back(b)' = NoSample
    BY <1>3 DEF BackFits
  <2> DEFINE m == Len(said) + 1 - b
  <2>1. /\ b <= Len(said) => Told(Back(b), m, said[m])
        /\ b > Len(said) => Back(b) = NoSample
    BY DEF LInv, BackFits
  <2>2. b > Len(said) => Back(b)' = NoSample
    BY <2>1, <1>7, <1>10
  <2>3. ASSUME b <= Len(said) PROVE Told(Back(b)', m, said'[m])
    <3>1. m \in 1..Len(said) /\ m # NoSample
      BY <2>3, <1>1 DEF Records
    <3>2. Told(Back(b), m, said[m]) /\ Back(b) \in Sample
      BY <2>1, <2>3 DEF Told
    <3> HIDE DEF m
    <3>3. CASE m = n
      BY <3>2, <3>3, <1>8, <1>10 DEF v, w
    <3>4. CASE m # n
      <4>1. Back(b).update_index # n
        BY <3>2, <3>4, <1>5 DEF Told
      <4>2. Back(b)' = Back(b) /\ said'[m] = said[m]
        BY <4>1, <3>1, <3>4, <1>3, <1>7, <1>10
      <4> QED
        BY <4>2, <3>2
    <3> QED
      BY <3>3, <3>4
  <2> QED
    BY <2>2, <2>3
<1>12. RingFits'
  <2>1. \A i \in 0..RING - 1 : Corrected(ring[i], n, force, altitude) \in Sample \cup {NoSample}
    <3> SUFFICES ASSUME NEW i \in 0..RING - 1
                 PROVE  Corrected(ring[i], n, force, altitude) \in Sample \cup {NoSample}
      OBVIOUS
    <3>1. ring[i] \in Sample \cup {NoSample}
      BY <1>9
    <3>2. ASSUME NEW r \in Sample PROVE Corrected(r, n, force, altitude) \in Sample
      <4>1. CASE r.update_index # n
        BY <4>1, <1>7
      <4>2. ASSUME r.update_index = n PROVE Corrected(r, n, force, altitude) \in Sample
        <5> DEFINE f == force # NoSample /\ r.state = ESTIMATED
                   a == altitude # NoSample /\ r.altitude_state = ESTIMATED
                   c == [r EXCEPT !.value = IF f THEN force ELSE @, !.state = IF f THEN MEASURED ELSE @,
                                  !.altitude = IF a THEN altitude ELSE @,
                                  !.altitude_state = IF a THEN MEASURED ELSE @]
        <5>1. Corrected(r, n, force, altitude) = c
          BY <4>2, <1>5 DEF Corrected, Records
        <5>2. force \in Values \cup {NoSample} /\ altitude \in Values \cup {NoSample} /\ MEASURED \in States
          BY <1>5 DEF force, altitude, States
        <5>3. c \in Sample
          <6> HIDE DEF Values, States
          <6> QED
            BY <5>2 DEF Sample
        <5> QED
          BY <5>1, <5>3
      <4> QED
        BY <4>1, <4>2
    <3> QED
      BY <3>1, <3>2, <1>7
  <2> QED
    BY <2>1, <1>6, <1>9 DEF RingFits
<1> QED
  BY <1>4, <1>11, <1>12 DEF LInv

\* The record found by a stamp is of the newest sample of it still kept; there
\* is none of either, or the record says what the platform does of the sample.
LEMMA Found ==
  ASSUME Records, LInv, NEW micros \in Stamps
  PROVE  \/ Newest(micros) = 0 /\ Find(micros) = NoSample
         \/ /\ Newest(micros) \in 1..Len(said)
            /\ Told(Find(micros), Newest(micros), said[Newest(micros)])
<1> DEFINE lasting == {n \in DOMAIN said : n > Len(said) - RING /\ said[n].micros = micros}
           named == {b \in 1..RING : Back(b) # NoSample /\ Back(b).micros = micros}
<1>1. RING \in Nat \ {0} /\ Len(said) \in Nat /\ DOMAIN said = 1..Len(said)
  BY DEF LInv, SaidFits, Records
<1>2. \A b \in 1..RING :
        /\ b <= Len(said) => Told(Back(b), Len(said) + 1 - b, said[Len(said) + 1 - b])
        /\ b > Len(said) => Back(b) = NoSample
  BY DEF LInv, BackFits
\* The b-th record back is of this stamp just when the sample it is of is.
<1>3. \A b \in 1..RING : b \in named <=> Len(said) + 1 - b \in lasting
  <2> SUFFICES ASSUME NEW b \in 1..RING PROVE b \in named <=> Len(said) + 1 - b \in lasting
    OBVIOUS
  <2> DEFINE n == Len(said) + 1 - b
  <2>1. ASSUME b > Len(said) PROVE b \notin named /\ n \notin lasting
    <3>1. Back(b) = NoSample
      BY <2>1, <1>2
    <3>2. n \notin DOMAIN said
      BY <2>1, <1>1
    <3> QED
      BY <3>1, <3>2
  <2>2. ASSUME b <= Len(said) PROVE b \in named <=> n \in lasting
    <3>1. n \in DOMAIN said /\ n > Len(said) - RING
      BY <2>2, <1>1
    <3>2. Told(Back(b), n, said[n])
      BY <2>2, <1>2
    <3> HIDE DEF n
    <3>3. Back(b) # NoSample /\ Back(b).micros = said[n].micros
      BY <3>2 DEF Told, Records
    <3> QED
      BY <3>1, <3>3
  <2> QED
    BY <2>1, <2>2, <1>1
<1>4. \A n \in lasting : Len(said) + 1 - n \in 1..RING /\ n \in 1..Len(said)
  BY <1>1
<1>5. named \in SUBSET Nat
  BY <1>1
<1>6. Newest(micros) = (IF lasting = {} THEN 0 ELSE CHOOSE n \in lasting : \A m \in lasting : m <= n)
  BY DEF Newest
<1>7. Find(micros) = (IF named = {} THEN NoSample ELSE Back(CHOOSE b \in named : \A c \in named : b <= c))
  BY DEF Find
<1>8. named \subseteq 1..RING
  OBVIOUS
<1> HIDE DEF lasting, named
<1>9. ASSUME named = {} PROVE Newest(micros) = 0 /\ Find(micros) = NoSample
  <2>1. ASSUME NEW n \in lasting PROVE FALSE
    <3>1. Len(said) + 1 - (Len(said) + 1 - n) = n
      BY <1>1, <1>4
    <3> QED
      BY <3>1, <1>3, <1>4, <1>9
  <2> QED
    BY <2>1, <1>6, <1>7, <1>9
<1>10. ASSUME named # {}
       PROVE  Newest(micros) \in 1..Len(said) /\ Told(Find(micros), Newest(micros), said[Newest(micros)])
  <2>1. PICK b \in named : \A c \in named : b <= c
    BY <1>5, <1>10, LeastMember
  <2>2. \A d \in named : (\A c \in named : d <= c) => d = b
    BY <2>1, <1>8
  <2>3. Find(micros) = Back(b)
    <3>1. (CHOOSE d \in named : \A c \in named : d <= c) = b
      BY <2>1, <2>2
    <3> QED
      BY <3>1, <1>7, <1>10
  <2> DEFINE n == Len(said) + 1 - b
  <2>4. n \in lasting /\ b \in 1..RING /\ n \in 1..Len(said)
    BY <1>3, <1>4, <1>8
  <2>5. \A m \in lasting : m <= n
    <3> SUFFICES ASSUME NEW m \in lasting PROVE m <= n
      OBVIOUS
    <3>1. Len(said) + 1 - m \in 1..RING /\ m \in 1..Len(said) /\ Len(said) + 1 - (Len(said) + 1 - m) = m
      BY <1>1, <1>4
    <3>2. Len(said) + 1 - m \in named
      BY <3>1, <1>3
    <3>3. b <= Len(said) + 1 - m
      BY <3>2, <2>1
    <3> QED
      BY <3>1, <3>3, <2>4, <1>1
  <2>6. \A d \in lasting : (\A m \in lasting : m <= d) => d = n
    BY <2>4, <2>5, <1>4
  <2>7. Newest(micros) = n
    <3> HIDE DEF n
    <3>1. (CHOOSE d \in lasting : \A m \in lasting : m <= d) = n
      BY <2>4, <2>5, <2>6
    <3>2. lasting # {}
      BY <2>4
    <3> QED
      BY <3>1, <3>2, <1>6
  <2>8. b <= Len(said)
    BY <2>4, <1>1
  <2>9. Told(Back(b), n, said[n])
    BY <2>4, <2>8, <1>2
  <2> HIDE DEF n
  <2> QED
    BY <2>3, <2>4, <2>7, <2>9
<1> QED
  BY <1>9, <1>10

\* What the record found tells is the platform's word.
LEMMA KeepsItsWord ==
  ASSUME Records, LInv
  PROVE  LedgerKeepsItsWord
<1> SUFFICES ASSUME NEW micros \in Stamps
             PROVE  LET n == Newest(micros)
                    IN  IF n = 0
                        THEN Value(micros) = Answer(-1) /\ Altitude(micros) = Answer(-1) /\ Tilt(micros) = NoSample
                        ELSE CASE said[n].kind = "touch" ->
                                    /\ Value(micros) = Word(n, "force")
                                    /\ Altitude(micros) = Word(n, "altitude")
                                    /\ Tilt(micros) = NoSample
                               [] said[n].kind = "tablet" ->
                                    /\ Value(micros) = Real(n)
                                    /\ Altitude(micros) = Answer(-1)
                                    /\ Tilt(micros) = Real(n)
                               [] OTHER ->
                                    /\ Value(micros) = Answer(-3)
                                    /\ Altitude(micros) = Answer(-1)
                                    /\ Tilt(micros) = NoSample
  BY DEF LedgerKeepsItsWord
<1>1. CASE Newest(micros) = 0 /\ Find(micros) = NoSample
  BY <1>1 DEF Value, Altitude, Tilt
<1>2. CASE /\ Newest(micros) \in 1..Len(said)
           /\ Told(Find(micros), Newest(micros), said[Newest(micros)])
  <2>1. PICK n \in 1..Len(said) : n = Newest(micros)
    BY <1>2
  <2>2. PICK s \in Sample : s = Find(micros)
    BY <1>2 DEF Told
  <2>3. n # 0 /\ said \in Seq(Said) /\ said[n].awaited \subseteq said[n].guesses
    BY <2>1 DEF LInv, SaidFits
  <2>4. said[n].kind \in {"touch", "tablet", "mouse"}
    <3>1. said[n] \in Said
      BY <2>1, <2>3
    <3> QED
      BY <3>1 DEF Said
  <2>5. Told(s, n, said[n]) /\ s # NoSample
    BY <1>2, <2>1, <2>2 DEF Records
  <2>6. Value(micros) = CASE s.state = ESTIMATED -> Answer(-2)
                          [] s.state = NO_PRESSURE -> Answer(-3)
                          [] s.state = ESTIMATED_FINAL -> Answer(-4)
                          [] OTHER -> s.value
    BY <2>2, <2>5 DEF Value
  <2>7. Altitude(micros) = CASE s.altitude_state = ESTIMATED -> Answer(-2)
                             [] s.altitude_state = ESTIMATED_FINAL -> Answer(-4)
                             [] s.altitude_state = MEASURED -> s.altitude
                             [] OTHER -> Answer(-1)
    BY <2>2, <2>5 DEF Altitude
  <2>8. Tilt(micros) = IF s.tilt_state = MEASURED THEN s.tilt ELSE NoSample
    BY <2>2, <2>5 DEF Tilt
  <2>9. ASSUME said[n].kind = "touch"
        PROVE  Value(micros) = Word(n, "force") /\ Altitude(micros) = Word(n, "altitude") /\ Tilt(micros) = NoSample
    <3>1. /\ Tells(s.state, s.value, n, said[n], "force")
          /\ Tells(s.altitude_state, s.altitude, n, said[n], "altitude")
          /\ s.tilt_state = UNREPORTED
      BY <2>5, <2>9 DEF Told
    <3>2. Value(micros) = Word(n, "force")
      <4>1. CASE "force" \in said[n].awaited
        BY <4>1, <3>1, <2>6 DEF Tells, Word, ESTIMATED, NO_PRESSURE, ESTIMATED_FINAL
      <4>2. CASE "force" \in said[n].guesses \ said[n].awaited
        BY <4>2, <3>1, <2>6 DEF Tells, Word, ESTIMATED, NO_PRESSURE, ESTIMATED_FINAL
      <4>3. CASE "force" \notin said[n].guesses
        BY <4>3, <3>1, <2>3, <2>6 DEF Tells, Word, ESTIMATED, NO_PRESSURE, ESTIMATED_FINAL, MEASURED
      <4> QED
        BY <4>1, <4>2, <4>3
    <3>3. Altitude(micros) = Word(n, "altitude")
      <4>1. CASE "altitude" \in said[n].awaited
        BY <4>1, <3>1, <2>7 DEF Tells, Word, ESTIMATED, ESTIMATED_FINAL, MEASURED
      <4>2. CASE "altitude" \in said[n].guesses \ said[n].awaited
        BY <4>2, <3>1, <2>7 DEF Tells, Word, ESTIMATED, ESTIMATED_FINAL, MEASURED
      <4>3. CASE "altitude" \notin said[n].guesses
        BY <4>3, <3>1, <2>3, <2>7 DEF Tells, Word, ESTIMATED, ESTIMATED_FINAL, MEASURED
      <4> QED
        BY <4>1, <4>2, <4>3
    <3>4. Tilt(micros) = NoSample
      BY <3>1, <2>8 DEF UNREPORTED, MEASURED
    <3> QED
      BY <3>2, <3>3, <3>4
  <2>10. ASSUME said[n].kind = "tablet"
         PROVE  Value(micros) = Real(n) /\ Altitude(micros) = Answer(-1) /\ Tilt(micros) = Real(n)
    BY <2>5, <2>6, <2>7, <2>8, <2>10
       DEF Told, ESTIMATED, NO_PRESSURE, ESTIMATED_FINAL, MEASURED, UNREPORTED
  <2>11. ASSUME said[n].kind = "mouse"
         PROVE  Value(micros) = Answer(-3) /\ Altitude(micros) = Answer(-1) /\ Tilt(micros) = NoSample
    BY <2>5, <2>6, <2>7, <2>8, <2>11
       DEF Told, ESTIMATED, NO_PRESSURE, ESTIMATED_FINAL, MEASURED, UNREPORTED
  <2> QED
    BY <2>1, <2>3, <2>4, <2>9, <2>10, <2>11
<1> QED
  BY <1>1, <1>2, Found

\* Of no sample the ledger tells nothing.
LEMMA LedgerStarts ==
  ASSUME Records, LedgerInit
  PROVE  LInv
<1>1. RING \in Nat \ {0} /\ MaxNotes \in Nat
  BY DEF Records
<1>2. said = <<>> /\ next = 0 /\ ring = [i \in 0..RING - 1 |-> NoSample]
  BY DEF LedgerInit
<1>3. SaidFits
  BY <1>1, <1>2 DEF SaidFits
<1>4. RingFits
  BY <1>1, <1>2 DEF RingFits
<1>5. BackFits
  <2>1. ASSUME NEW b \in 1..RING PROVE Back(b) = NoSample
    BY <1>1, <1>2, BackIsAt DEF Back
  <2>2. Len(said) = 0
    BY <1>2
  <2> QED
    BY <2>1, <2>2 DEF BackFits
<1> QED
  BY <1>3, <1>4, <1>5 DEF LInv

\* What the brush is told of a stamp is what the platform says by now of the
\* newest sample of it still kept, whatever was noted and corrected before,
\* however the ring has wrapped (ledger.rs record, find, update; apple.rs).
THEOREM LedgerTellsThePlatformsWord ==
  ASSUME Records
  PROVE  LedgerInit /\ [][LedgerNext]_ledgerVars => []LedgerKeepsItsWord
<1>1. LedgerInit => LInv
  BY LedgerStarts
<1>2. LInv /\ [LedgerNext]_ledgerVars => LInv'
  <2> SUFFICES ASSUME LInv, [LedgerNext]_ledgerVars PROVE LInv'
    OBVIOUS
  <2>1. ASSUME NEW micros \in Stamps, NEW pencil \in BOOLEAN, NEW estimated \in SUBSET Properties,
               NEW awaited \in SUBSET estimated, NoteTouch(micros, pencil, estimated, awaited)
        PROVE  LInv'
    BY <2>1, NoteTouchKeeps
  <2>2. ASSUME NEW n \in DOMAIN said, NEW awaited \in SUBSET Properties, UpdateTouch(n, awaited)
        PROVE  LInv'
    BY <2>2, UpdateTouchKeeps
  <2>3. ASSUME NEW micros \in Stamps, NEW tablet \in BOOLEAN, NoteEvent(micros, tablet)
        PROVE  LInv'
    BY <2>3, NoteEventKeeps
  <2>4. CASE UNCHANGED ledgerVars
    BY <2>4 DEF ledgerVars, LInv, SaidFits, RingFits, BackFits, Back
  <2> QED
    BY <2>1, <2>2, <2>3, <2>4 DEF LedgerNext
<1>3. LInv => LedgerKeepsItsWord
  BY KeepsItsWord
<1> QED
  BY <1>1, <1>2, <1>3, PTL
=============================================================================
