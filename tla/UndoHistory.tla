---------------------------- MODULE UndoHistory ----------------------------
(***************************************************************************)
(* The undo history of one open project (HistoryManager) over the cel its  *)
(* steps draw on: two stacks, a byte budget, the spill pass that parks the *)
(* pictures of deep entries in files of the run's volatile room, the shed  *)
(* that deletes entries, and the hold whose steps fold into one            *)
(* (HistoryRun).                                                           *)
(*                                                                         *)
(* Every operation runs to its end before another starts (one isolate) and *)
(* is one action, with what its trim does up to the first await.  A write  *)
(* of the pass - compression on a worker and the file - lands in an action *)
(* of its own, and anything may happen before it does.                     *)
(*                                                                         *)
(* Abstractions: one cel, whose picture has a tile or none at each place;  *)
(* a tile is named by the step that drew it, so two tiles are the same     *)
(* object when they have one name.  A tile weighs one.  A file of the room *)
(* is named by the snapshot it holds.                                      *)
(***************************************************************************)
EXTENDS Integers, SequencesExt

CONSTANTS
    Place,         \* places of the cel that can hold a tile
    Strokes,       \* what a step may do at each place: keep, draw or erase
    MaxEntries,    \* maxEntries: how many entries the undo stack keeps
    Normal, Tight, \* the byte budget, and under a memory warning
    FilesGetLost,  \* may a parked file be gone when it is read?
    MaxWalks,      \* bound: walks back waiting on the redo stack
    MaxEdits       \* bound: steps made in one behaviour

Half   == {"before", "after"}
Effect == {"keep", "draw", "erase"}
StepNo == 1..MaxEdits
Pic    == [Place -> 0..MaxEdits]     \* 0: no tile
Blank  == [x \in Place |-> 0]

ASSUME PlaceAssumption == IsFiniteSet(Place)
ASSUME StrokeAssumption == Strokes \subseteq [Place -> Effect]
ASSUME BudgetAssumption ==
    /\ MaxEntries \in Nat \ {0} /\ Normal \in Nat /\ Tight \in Nat
    /\ MaxEdits \in Nat /\ MaxWalks \in Nat
    /\ FilesGetLost \in BOOLEAN

VARIABLES
    cel,     \* the picture the cel shows
    undo,    \* _undoStack, the deep end first: an entry is its steps in order
    redo,    \* _redoStack; an entry of no steps is a walk back
    steps,   \* the pair of snapshots of each step on the stacks
    files,   \* the parked files in the room
    made,    \* the steps made so far
    warned,  \* MemoryPressureBudget._warned
    stood,   \* _spillStoodDown: no, or why - the room refused, the pass was stuck
    spill,   \* _activeSpill: where the pass is and what it is writing
    run,     \* HistoryRun: where the hold began and what it wrote
    open     \* not _disposed

stacks == <<undo, redo, steps, files>>
pass   == <<stood, spill>>
vars   == <<cel, stacks, made, warned, pass, run, open>>

-----------------------------------------------------------------------------
(* A step's pair of pictures.                                               *)

\* A snapshot owns the tiles the picture beside it does not share.  It holds
\* its picture, has parked its tiles in the room, or has let go with none to
\* park.  ahead is a copy read back early, as the picture it leaned on.
Snapshot(p, beside) ==
    [pic |-> p, at |-> "held", ahead |-> {},
     own |-> {x \in Place : p[x] # 0 /\ p[x] # beside[x]}]
Pair(b, a) == [before |-> Snapshot(b, a), after |-> Snapshot(a, b)]
Filing(n, pair, st) == [m \in DOMAIN st \cup {n} |-> IF m = n THEN pair ELSE st[m]]

Painted(n, stroke, p) ==
    [x \in Place |-> CASE stroke[x] = "keep"  -> p[x]
                       [] stroke[x] = "draw"  -> n
                       [] stroke[x] = "erase" -> 0]

StepsIn(stack) == UNION {Range(stack[i]) : i \in DOMAIN stack}
FilesOf(stack) == StepsIn(stack) \X Half

\* What the snapshots of a stack weigh, the halves given: the tiles they own
\* and have in memory.
InRam(s) == s.at = "held" \/ s.ahead # {}
StackWeight(stack, half, st) ==
    Cardinality({tile \in StepsIn(stack) \X Place :
        InRam(st[tile[1]][half]) /\ tile[2] \in st[tile[1]][half].own})
\* The stacks weigh the half the cel does not show.
Retained(u, r, st) == StackWeight(u, "before", st) + StackWeight(r, "after", st)

Bytes == IF warned THEN Tight ELSE Normal
OverBudget(u, r, st) == Retained(u, r, st) > Bytes'

-----------------------------------------------------------------------------
(* A snapshot put back on the cel: one held is its own answer; one let go  *)
(* takes its own tiles from its file and the others from the cel as it is. *)

SharedPlaces(s) == {x \in Place : s.pic[x] # 0} \ s.own
ReadsBack(s, file, live) ==
    /\ \A x \in SharedPlaces(s) : live[x] # 0
    /\ s.at = "room" => file
Assembled(s, live) ==
    [x \in Place |-> IF x \in s.own THEN s.pic[x]
                     ELSE IF x \in SharedPlaces(s) THEN live[x] ELSE 0]

\* A copy read ahead is taken if it leaned on the picture the cel has now.
Adopted(s, live) == s.ahead \cap {live}

\* One step's half put back, or the cel left as it is when it will not come.
Restored(k, n, half) ==
    LET s == k.steps[n][half]
        file == <<n, half>>
        adopted == Adopted(s, k.cel)
        p == IF adopted # {} THEN Assembled(s, CHOOSE q \in adopted : TRUE)
             ELSE Assembled(s, k.cel)
    IN CASE s.at = "held" -> [k EXCEPT !.cel = s.pic]
         [] s.at # "held" /\ (adopted # {} \/ ReadsBack(s, file \in k.files, k.cel)) ->
              [cel   |-> p,
               steps |-> [k.steps EXCEPT ![n][half] =
                            [@ EXCEPT !.pic = p, !.at = "held", !.ahead = {}]],
               files |-> k.files \ {file}]
         [] OTHER -> [k EXCEPT !.steps[n][half].ahead = {}]

AsItIs == [cel |-> cel, steps |-> steps, files |-> files]

\* The halves of the steps ns put back one after another.
PutBack(ns, half) ==
    LET k[i \in 0..Len(ns)] ==
            IF i = 0 THEN AsItIs ELSE Restored(k[i - 1], ns[i], half)
    IN k[Len(ns)]

\* Mutant: the steps of an entry are taken back in the order they were made.
TakenBackForwards(e) == PutBack(e, "before")

TakenBack(e) == PutBack(Reverse(e), "before")
DoneAgain(e) == PutBack(e, "after")

\* One step's half read ahead, for the cel as the steps before it leave it.
ReadEarly(k, n, half) ==
    LET s == k.steps[n][half]
        copy == [k EXCEPT !.cel = Assembled(s, k.cel), !.steps[n][half].ahead = {k.cel}]
    IN CASE s.at = "held" -> [k EXCEPT !.cel = s.pic]
         [] s.at # "held" /\ (k.cel \in s.ahead \/ ReadsBack(s, <<n, half>> \in k.files, k.cel)) ->
              copy
         [] OTHER -> [k EXCEPT !.steps[n][half].ahead = {}]

\* The halves of the steps ns read ahead one after another.
ReadAllEarly(ns, half) ==
    LET k[i \in 0..Len(ns)] ==
            IF i = 0 THEN AsItIs ELSE ReadEarly(k[i - 1], ns[i], half)
    IN k[Len(ns)]

EarlyUndo(e) == ReadAllEarly(Reverse(e), "before")
EarlyRedo(e) == ReadAllEarly(e, "after")

-----------------------------------------------------------------------------
(* The stacks as an operation leaves them: u and r, over the snapshots st  *)
(* and the files fs.  A step dropped while the pass is at its entry lasts  *)
(* until the pass has left it.                                             *)

Leave(u, r, st, fs) ==
    /\ undo' = u /\ redo' = r /\ files' = fs
    /\ steps' = [n \in StepsIn(u) \cup StepsIn(r) \cup {f[1] : f \in Range(spill'.rest)} |-> st[n]]

\* Every copy read ahead given back.
NoneAhead(st) ==
    [n \in DOMAIN st |-> [half \in Half |-> [st[n][half] EXCEPT !.ahead = {}]]]

\* How many entries _shed drops from the deep end to release excess: it
\* walks until enough is released or keep are left, and drops up to the
\* last entry that gave something.
ShedCount(stack, half, st, excess, keep) ==
    LET upTo(n) == StackWeight(SubSeq(stack, 1, n), half, st)
        enough  == {n \in 0..(Len(stack) - keep) : upTo(n) >= excess}
        walked  == IF enough # {} THEN Min(enough) ELSE Len(stack) - keep
        paying  == {n \in 1..walked : StackWeight(<<stack[n]>>, half, st) > 0}
    IN IF paying = {} THEN 0 ELSE Max(paying)

\* _shedOverBudget: the copies read ahead go, then redo to its last entry,
\* then undo but for its top.
ShedEntries(u, r, st, fs) ==
    \E excess \in {Retained(u, r, st) - Bytes'} :
    \E fromRedo \in {ShedCount(r, "after", st, excess, 0)} :
    \E left \in {excess - StackWeight(SubSeq(r, 1, fromRedo), "after", st)} :
    \E fromUndo \in {IF left > 0 /\ u # <<>> THEN ShedCount(u, "before", st, left, 1) ELSE 0} :
        Leave(SubSeq(u, fromUndo + 1, Len(u)), SubSeq(r, fromRedo + 1, Len(r)), st,
              fs \ (FilesOf(SubSeq(u, 1, fromUndo)) \cup FilesOf(SubSeq(r, 1, fromRedo))))

Shed(u, r, st, fs) ==
    IF ~OverBudget(u, r, st) THEN Leave(u, r, st, fs)
    ELSE \E bare \in {NoneAhead(st)} :
            IF ~OverBudget(u, r, bare) THEN Leave(u, r, bare, fs)
            ELSE ShedEntries(u, r, bare, fs)

-----------------------------------------------------------------------------
(* The spill pass.  It walks redo, then undo, from the deep end, the top   *)
(* entry left out; a snapshot that owns no tile is let go of at once, one  *)
(* that does is written, and the pass waits.                               *)

Idle == [stack |-> "none", index |-> 0, rest |-> <<>>, ok |-> TRUE, base |-> 0]

Slow(s) == s.at = "held" /\ s.own # {}

\* The halves of an entry in the order parkPayload takes them.
HalvesOf(e) ==
    [i \in 1..(2 * Len(e)) |->
        <<e[(i + 1) \div 2], IF i % 2 = 1 THEN "before" ELSE "after">>]

\* The halves hs as park leaves those with nothing to write: one that owns no
\* tile lets go of its picture, one parked already of its copy.
ParkBare(st, hs) ==
    [n \in DOMAIN st |-> [half \in Half |->
        IF <<n, half>> \in hs /\ ~Slow(st[n][half])
        THEN [st[n][half] EXCEPT !.at = IF @ = "held" THEN "bare" ELSE @, !.ahead = {}]
        ELSE st[n][half]]]

\* Mutant: a half with nothing of its own is written like the others.
ToWriteAll(rest, st) == rest

\* Of the halves still to park: those from the next one to write on.
ToWrite(rest, st) ==
    LET i == SelectInSeq(rest, LAMBDA f : Slow(st[f[1]][f[2]]))
    IN IF i = 0 THEN <<>> ELSE SubSeq(rest, i, Len(rest))
UpToWrite(rest, st) == Range(SubSeq(rest, 1, Len(rest) - Len(ToWrite(rest, st))))

\* A walk of a stack from entry i on, retaining total: it stops at an entry
\* with something to write, at the top, or where copies given back on the way
\* have brought it under budget.
StopsAt(stack, half, i, st, total) ==
    Min({Max({i, Len(stack)})} \cup {j \in i..Len(stack) :
        \/ \E n \in Range(stack[j]), h \in Half : Slow(st[n][h])
        \/ total - StackWeight(SubSeq(stack, i, j - 1), half, st) <= Bytes'})
WalkTo(j, stack, half, i, st, total) ==
    [index  |-> j,
     passed |-> FilesOf(SubSeq(stack, i, j - 1)),
     left   |-> total - StackWeight(SubSeq(stack, i, j - 1), half, st)]
Walk(stack, half, i, st, total) ==
    WalkTo(StopsAt(stack, half, i, st, total), stack, half, i, st, total)
NoWalk(total) == [index |-> 0, passed |-> {}, left |-> total]
ToWriteIn(stack, walk) == 0 < walk.index /\ walk.index < Len(stack) /\ walk.left > Bytes'

\* The pass before entry i of the stack named: redo's walk, and if there is
\* nothing to write in it undo's.
RedoWalk(r, st, name, i, total) ==
    IF name = "redo" THEN Walk(r, "after", i, st, total) ELSE NoWalk(total)
UndoWalk(u, r, st, name, i, redoWalk) ==
    IF ToWriteIn(r, redoWalk) THEN NoWalk(redoWalk.left)
    ELSE Walk(u, "before", IF name = "redo" THEN 1 ELSE i, st, redoWalk.left)

\* Where they lead: the next write, or the end (stack "none").
PassAt(st, name, index, halves, passed) ==
    [stack |-> name, index |-> index, rest |-> ToWrite(halves, st),
     steps |-> ParkBare(st, passed \cup UpToWrite(halves, st))]
PassOf(u, r, st, redoWalk, undoWalk) ==
    LET passed == redoWalk.passed \cup undoWalk.passed
    IN CASE ToWriteIn(r, redoWalk) ->
              PassAt(st, "redo", redoWalk.index, HalvesOf(r[redoWalk.index]), passed)
         [] ToWriteIn(u, undoWalk) ->
              PassAt(st, "undo", undoWalk.index, HalvesOf(u[undoWalk.index]), passed)
         [] OTHER -> PassAt(st, "none", 0, <<>>, passed)

Spilling(go, base) ==
    [stack |-> go.stack, index |-> go.index, rest |-> go.rest, ok |-> TRUE, base |-> base]

\* Mutant: a pass stands down and leaves the stacks over budget.
StandDownKeeps(u, r, st, fs, why) ==
    stood' = why /\ spill' = Idle /\ Leave(u, r, st, fs)

\* The end of a pass that moved nothing: it stands down, and entries go.
StandDown(u, r, st, fs, why) ==
    stood' = why /\ spill' = Idle /\ Shed(u, r, st, fs)

\* A pass from its start to its first write.  One with nothing to write has
\* moved what copies it gave back; if that was not enough it stands down.
StartPass(u, r, st, fs, total) ==
    \E rw \in {RedoWalk(r, st, "redo", 1, total)} :
    \E uw \in {UndoWalk(u, r, st, "redo", 1, rw)} :
    \E go \in {PassOf(u, r, st, rw, uw)} :
        CASE go.stack # "none" ->
               spill' = Spilling(go, total) /\ stood' = "no" /\ Leave(u, r, go.steps, fs)
          [] go.stack = "none" /\ ~OverBudget(u, r, go.steps) ->
               spill' = Idle /\ stood' = "no" /\ Leave(u, r, go.steps, fs)
          [] OTHER -> StandDown(u, r, go.steps, fs, "stuck")

\* _trimRetainedBytes: nothing, a shed, or a pass scheduled.
Trim(u, r, st, fs, stand) ==
    \E total \in {Retained(u, r, st)} :
        CASE total > Bytes' /\ stand = "no" /\ spill = Idle -> StartPass(u, r, st, fs, total)
          [] total > Bytes' /\ stand # "no" -> UNCHANGED spill /\ stood' = stand /\ Shed(u, r, st, fs)
          [] OTHER -> UNCHANGED spill /\ stood' = stand /\ Leave(u, r, st, fs)

\* The pass after an entry: it goes on, ends with bytes moved - and starts
\* anew while over budget - or ends and stands down.
Proceed(st, fs) ==
    \E total \in {Retained(undo, redo, st)} :
    \E rw \in {RedoWalk(redo, st, spill.stack, spill.index + 1, total)} :
    \E uw \in {UndoWalk(undo, redo, st, spill.stack, spill.index + 1, rw)} :
    \E go \in {PassOf(undo, redo, st, rw, uw)} :
    \E left \in {Retained(undo, redo, go.steps)} :
        CASE go.stack # "none" ->
               spill' = Spilling(go, spill.base) /\ UNCHANGED stood /\ Leave(undo, redo, go.steps, fs)
          [] go.stack = "none" /\ left >= spill.base ->
               StandDown(undo, redo, go.steps, fs, "stuck")
          [] go.stack = "none" /\ left < spill.base /\ left > Bytes' ->
               StartPass(undo, redo, go.steps, fs, left)
          [] OTHER -> spill' = Idle /\ UNCHANGED stood /\ Leave(undo, redo, go.steps, fs)

\* Mutant: a pass the room refused starts over.
EntryParkedUndeterred(ok, st, fs) ==
    IF ok THEN Proceed(st, fs)
    ELSE StartPass(undo, redo, st, fs, Retained(undo, redo, st))

\* An entry's last half came back: the pass goes on, or a half was refused.
EntryParked(ok, st, fs) ==
    IF ok THEN Proceed(st, fs) ELSE StandDown(undo, redo, st, fs, "refused")

\* Mutant: the file of a snapshot dropped while it was written is kept.
HoldsDropped(file, taken) == taken

\* Whether a file written is still some entry's.
Holds(file, taken) == taken /\ file[1] \in StepsIn(undo) \cup StepsIn(redo)

\* A write comes back, taken or refused, and the entry's other halves follow.
\* A snapshot dropped while it was written gives its file straight back.
Lands(taken) ==
    /\ spill # Idle
    /\ LET file == spill.rest[1]
           landed == IF taken THEN [steps EXCEPT ![file[1]][file[2]].at = "room"] ELSE steps
           fs == IF Holds(file, taken) THEN files \cup {file} ELSE files
           rest == ToWrite(Tail(spill.rest), landed)
           ok == spill.ok /\ taken
       IN \E st \in {ParkBare(landed, UpToWrite(Tail(spill.rest), landed))} :
          /\ UNCHANGED <<cel, made, warned, run, open>>
          /\ CASE rest # <<>> ->
                    /\ spill' = [spill EXCEPT !.rest = rest, !.ok = ok]
                    /\ UNCHANGED stood /\ Leave(undo, redo, st, fs)
               [] rest = <<>> /\ open -> EntryParked(ok, st, fs)
               [] OTHER -> spill' = Idle /\ UNCHANGED stood /\ Leave(undo, redo, st, fs)

-----------------------------------------------------------------------------
(* Steps made, and the hold.                                                *)

\* HistoryRun: since the hold began, the entries pushed and taken back, the
\* depth of the stack then, and its own steps, of which the code has the count.
NoRun == [on |-> FALSE, pushed |-> 0, retracted |-> 0, depth |-> 0, own |-> {}]
Begun == [NoRun EXCEPT !.on = TRUE, !.depth = Len(undo)]

\* Mutant: what else was pushed is never asked.
WholeUnasked == run.on

Whole == run.on /\ run.pushed = Cardinality(run.own)

\* Whether undo takes the hold's last step back (canTakeBack, keepsSince).
CanTakeBack == Whole /\ Len(undo) > run.depth

\* Mutant: entries that fall off the deep end leave their files.
PushLitters(e, st) ==
    LET grown == Append(undo, e)
        fallen == IF Len(grown) > MaxEntries THEN Len(grown) - MaxEntries ELSE 0
    IN Trim(SubSeq(grown, fallen + 1, Len(grown)), <<>>, st, files \ FilesOf(redo), "no")

\* _push: the deep end beyond the cap falls off, redo is thrown away, then
\* the trim, which a new entry arms again.
Push(e, st) ==
    LET grown == Append(undo, e)
        fallen == IF Len(grown) > MaxEntries THEN Len(grown) - MaxEntries ELSE 0
    IN Trim(SubSeq(grown, fallen + 1, Len(grown)), <<>>, st,
            files \ (FilesOf(SubSeq(grown, 1, fallen)) \cup FilesOf(redo)), "no")

\* A step draws on the cel, or a group of two is filed as one entry.
Draw(strokes) ==
    LET n == made + 1
        first == Painted(n, strokes[1], cel)
        last == IF Len(strokes) = 1 THEN first ELSE Painted(n + 1, strokes[2], first)
        one == Filing(n, Pair(cel, first), steps)
        both == IF Len(strokes) = 1 THEN one ELSE Filing(n + 1, Pair(first, last), one)
    IN /\ open /\ made + Len(strokes) <= MaxEdits
       /\ first # cel /\ (Len(strokes) = 2 => last # first)
       /\ made' = made + Len(strokes)
       /\ cel' = last
       /\ UNCHANGED <<warned, open>>
       /\ \E st \in {both} : Push([i \in 1..Len(strokes) |-> made + i], st)

Execute(stroke) ==
    /\ Draw(<<stroke>>)
    /\ run' = IF run.on THEN [run EXCEPT !.pushed = @ + 1] ELSE run

RunAsOneStep(first, second) ==
    /\ Draw(<<first, second>>)
    /\ run' = IF run.on THEN [run EXCEPT !.pushed = @ + 1] ELSE run

\* Something is taken in hand.
BeginRun == open /\ ~run.on /\ run' = Begun /\ UNCHANGED <<cel, stacks, made, warned, pass, open>>

\* The hold writes a step; where something else was pushed it begins again.
WriteInRun(stroke) ==
    /\ run.on
    /\ Draw(<<stroke>>)
    /\ LET since == IF Whole THEN run ELSE Begun
       IN run' = [since EXCEPT !.pushed = @ + 1, !.own = @ \cup {made'}]

\* Undo while the hold has a step: taken back and forgotten (retractSince).
TakeBack ==
    /\ open /\ CanTakeBack
    /\ \E e \in {Last(undo)} : \E k \in {TakenBack(e)} :
          /\ cel' = k.cel
          /\ UNCHANGED <<made, warned, pass, open>>
          /\ Leave(Front(undo), redo, k.steps, k.files \ FilesOf(<<e>>))
    /\ run' = [run EXCEPT !.retracted = @ + 1]

\* The entries foldSince makes one, where they are still whole.
Kept  == run.pushed - run.retracted
Folds == Whole /\ Kept >= 2 /\ Len(undo) = run.depth + Kept

\* Mutant: the folded steps are filed the newest first.
LetGoNewestFirst ==
    IF Folds THEN Append(SubSeq(undo, 1, run.depth),
                         FlattenSeq(Reverse(SubSeq(undo, run.depth + 1, Len(undo)))))
    ELSE undo

\* The undo stack as a hold let go leaves it.
LetGo ==
    IF Folds THEN Append(SubSeq(undo, 1, run.depth),
                         FlattenSeq(SubSeq(undo, run.depth + 1, Len(undo))))
    ELSE undo

EndRun ==
    /\ open /\ run.on
    /\ run' = NoRun
    /\ undo' = LetGo
    /\ UNCHANGED <<cel, redo, steps, files, made, warned, pass, open>>

-----------------------------------------------------------------------------
(* Steps taken back and done again, and the rest.  A document's undo, redo *)
(* or walk first lets go of what is held (onBeforeUndoRedo).               *)

\* Mutant: an undo weighs nothing anew.
UndoUntrimmed ==
    /\ open /\ undo # <<>> /\ ~CanTakeBack
    /\ run' = NoRun
    /\ \E k \in {TakenBack(Last(LetGo))} :
          /\ cel' = k.cel
          /\ UNCHANGED <<made, warned, pass, open>>
          /\ Leave(Front(LetGo), Append(redo, Last(LetGo)), k.steps, k.files)

Undo ==
    /\ open /\ undo # <<>> /\ ~CanTakeBack
    /\ run' = NoRun
    /\ \E k \in {TakenBack(Last(LetGo))} :
          /\ cel' = k.cel
          /\ UNCHANGED <<made, warned, open>>
          /\ Trim(Front(LetGo), Append(redo, Last(LetGo)), k.steps, k.files, stood)

\* A walk back is spent by the redo that takes it.
Redo ==
    /\ open /\ redo # <<>>
    /\ run' = NoRun
    /\ \E e \in {Last(redo)} : \E k \in {DoneAgain(e)} :
          /\ cel' = k.cel
          /\ UNCHANGED <<made, warned, open>>
          /\ Trim(IF e = <<>> THEN LetGo ELSE Append(LetGo, e), Front(redo),
                  k.steps, k.files, stood)

\* The next step's pictures are read ahead of it.
ReadAhead ==
    /\ open
    /\ UNCHANGED <<cel, made, warned, run, open>>
    /\ \/ /\ undo # <<>>
          /\ \E k \in {EarlyUndo(Last(undo))} : Trim(undo, redo, k.steps, files, stood)
       \/ /\ redo # <<>>
          /\ \E k \in {EarlyRedo(Last(redo))} : Trim(undo, redo, k.steps, files, stood)

\* The first undo of an edit made elsewhere only walks there.
LeaveWalkBack ==
    /\ open /\ undo # <<>> /\ ~CanTakeBack
    /\ Len(SelectSeq(redo, LAMBDA e : e = <<>>)) < MaxWalks
    /\ run' = NoRun /\ undo' = LetGo /\ redo' = Append(redo, <<>>)
    /\ UNCHANGED <<cel, steps, files, made, warned, pass, open>>

\* The system says memory is tight; and the app is in front again.
MemoryWarning ==
    /\ open /\ ~warned /\ Tight < Normal
    /\ warned' = TRUE
    /\ UNCHANGED <<cel, made, run, open>>
    /\ Trim(undo, redo, steps, files, stood)

LiftWarning ==
    /\ open /\ warned /\ warned' = FALSE
    /\ UNCHANGED <<cel, stacks, made, pass, run, open>>

Emptied == Leave(<<>>, <<>>, steps, files \ (FilesOf(undo) \cup FilesOf(redo)))

\* An import empties the history of the project it has filled.
Clear ==
    /\ open /\ ~run.on /\ undo \o redo # <<>>
    /\ stood' = "no"
    /\ UNCHANGED <<cel, made, warned, spill, run, open>>
    /\ Emptied

Dispose ==
    /\ open /\ open' = FALSE
    /\ UNCHANGED <<cel, made, warned, pass, run>>
    /\ Emptied

LoseFile ==
    /\ FilesGetLost
    /\ \E f \in files : files' = files \ {f}
    /\ UNCHANGED <<cel, undo, redo, steps, made, warned, pass, run, open>>

Land == Lands(TRUE) \/ Lands(FALSE)

Init ==
    /\ cel = Blank
    /\ undo = <<>> /\ redo = <<>> /\ steps = <<>> /\ files = {}
    /\ made = 0 /\ warned = FALSE
    /\ stood = "no" /\ spill = Idle
    /\ run = NoRun /\ open = TRUE

Next ==
    \/ \E s \in Strokes : Execute(s) \/ WriteInRun(s)
    \/ \E s, t \in Strokes : RunAsOneStep(s, t)
    \/ BeginRun \/ TakeBack \/ EndRun
    \/ Undo \/ Redo \/ ReadAhead \/ LeaveWalkBack
    \/ MemoryWarning \/ LiftWarning
    \/ Land
    \/ Clear \/ Dispose \/ LoseFile

Spec == Init /\ [][Next]_vars

\* A worker answers, and the isolate hears it.
FairSpec == Spec /\ WF_vars(Land)

-----------------------------------------------------------------------------
(* Properties.                                                              *)

Snapshots ==
    [pic : Pic, at : {"held", "room", "bare"}, own : SUBSET Place,
     ahead : {{}} \cup {{p} : p \in Pic}]

\* The stacks hold steps that were made, each with its pair, and the pass is
\* idle or awaits the write of a half that owns tiles.
TypeOK ==
    /\ cel \in Pic
    /\ undo \in Seq(Seq(1..made)) /\ redo \in Seq(Seq(1..made))
    /\ <<>> \notin Range(undo) /\ Len(undo) <= MaxEntries
    /\ DOMAIN steps = StepsIn(undo) \cup StepsIn(redo) \cup {f[1] : f \in Range(spill.rest)}
    /\ \A n \in DOMAIN steps, half \in Half : steps[n][half] \in Snapshots
    /\ files \subseteq StepNo \X Half
    /\ made \in 0..MaxEdits /\ warned \in BOOLEAN /\ open \in BOOLEAN
    /\ stood \in {"no", "refused", "stuck"}
    /\ spill # Idle => /\ spill.stack \in {"undo", "redo"} /\ spill.index > 0
                       /\ spill.rest # <<>>
                       /\ Slow(steps[spill.rest[1][1]][spill.rest[1][2]])
    /\ run.depth \in 0..MaxEntries /\ run.own \subseteq 1..made
    /\ run.retracted <= run.pushed

\* The room holds a file for each parked picture of the stacks and no other:
\* none is read back that is not there, and none is left behind by an entry
\* that was dropped, even while its write was on a worker (drop, _park).
RoomIsExact ==
    files = {f \in FilesOf(undo) \cup FilesOf(redo) : steps[f[1]][f[2]].at = "room"}

\* With no pass under way the stacks are over budget by the newest entry
\* alone: every other byte was moved or, at the last, deleted
\* (_spillLoop, _shedOverBudget, the re-arming in _push).
OverByNewestOnly ==
    open /\ spill = Idle /\ Retained(undo, redo, steps) > Bytes =>
        /\ undo # <<>>
        /\ Retained(undo, redo, steps) = StackWeight(<<Last(undo)>>, "before", steps)

\* Between the stacks u and v the newest entry took others in.
FoldedInto(u, v) ==
    /\ u # <<>> /\ v # <<>> /\ Last(u) # Last(v)
    /\ Range(Last(u)) \subseteq Range(Last(v))

\* What the hold takes back and what it folds when it lets go are steps it
\* wrote itself, whatever else was pushed, undone or fell off the deep end
\* meanwhile (takeBack, foldSince, "a run is only ever its own steps").
RunKeepsToItsOwn ==
    [][ /\ run'.retracted > run.retracted => Range(Last(undo)) \subseteq run.own
        /\ FoldedInto(undo, undo') => Range(Last(undo')) \subseteq run.own ]_vars

\* The budget deletes undo entries when the room has refused, and only then
\* (_trimRetainedBytes).
UndoShedOnlyIfRefused ==
    [][ made' = made /\ run' = run /\ open' /\ stood' # "no"
        /\ undo # <<>> /\ ~(StepsIn(Front(undo)) \subseteq StepsIn(undo') \cup StepsIn(redo'))
        => stood' = "refused" ]_vars

\* Once the hand rests, each pass comes to an end: none starts over for ever
\* on bytes it cannot move (_spillStoodDown).
HandRests == UNCHANGED <<cel, made, warned, run, open>>
SpillSettles == <>[][HandRests]_vars => []<>(spill = Idle)

\* The pictures an entry of the stacks was made on and left, over the
\* snapshots st; those ahead of the redo stack r, the nearest first, where a
\* walk back shows none; and the line of the stacks with the picture shown, p.
From(e, st) == st[e[1]].before.pic
To(e, st) == st[Last(e)].after.pic
Ahead(r, st) ==
    LET f[i \in 0..Len(r)] ==
            CASE i = 0 -> <<>>
              [] i > 0 /\ r[i] = <<>> -> f[i - 1]
              [] OTHER -> <<To(r[i], st)>> \o f[i - 1]
    IN f[Len(r)]
LineOf(u, r, st, p) == [i \in 1..Len(u) |-> From(u[i], st)] \o <<p>> \o Ahead(r, st)
Line == LineOf(undo, redo, steps, cel)

Abstract == INSTANCE UndoLine WITH line <- Line, here <- Len(undo) + 1

\* Parking, reading back, shedding and folding show nothing else than a line
\* of pictures would: each undo goes to the picture its edit was made on.
ImplementsUndoLine == Abstract!Spec

=============================================================================
