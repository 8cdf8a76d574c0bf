--------------------------- MODULE DisplayTiming ---------------------------
(***************************************************************************)
(* The display's own timing (native/display/src): the wait for a vblank,   *)
(* on one timer the process shares; the screens under the app's window,    *)
(* looked for at most every so often; and the compositor kept composing by *)
(* a swaying visual.  The window, the compositor and its objects are       *)
(* external.  A step of the clock is half a millisecond.                   *)
(***************************************************************************)
EXTENDS Integers, Sequences, SequencesExt, FiniteSetsExt

CONSTANTS Waiters, Screens,
          Fresh,              \* SCREENS_FRESH_US in steps
          MaxClock,           \* bound: the clock's steps
          NoTime

VARIABLES clock,
          timer,              \* when the process's one timer is due, or NoTime
          waits,              \* per waiter: its deadline, when its sleep gives up, and its place
          under,              \* the screens under the window, "none" with no window
          since,              \* history: per screen set the window had, when it last had it
          held,               \* HELD: when it was looked, and what was found
          answered,           \* the last screens named, and when
          composing,          \* COMPOSING: the set held, or not
          swaying             \* the compositor has a swaying visual of ours to show

displayVars == <<clock, timer, waits, under, since, held, answered, composing, swaying>>

Spin == 1                     \* SPIN_US
Late == 4                     \* the two milliseconds a sleep may run over

Away == [at |-> "away", deadline |-> 0, gives_up |-> 0]

DisplayInit ==
  /\ clock = 1 /\ timer = NoTime
  /\ waits = [w \in Waiters |-> Away]
  /\ under \in SUBSET Screens /\ since = [s \in SUBSET Screens |-> IF s = under THEN 1 ELSE 0]
  /\ held = [looked |-> 0, screens |-> {}] /\ answered = [at |-> 0, screens |-> <<>>]
  /\ composing = FALSE /\ swaying = FALSE

\* Time passes; the window goes from one set of screens to another.
Ticks == /\ clock < MaxClock /\ clock' = clock + 1
         /\ since' = [since EXCEPT ![under] = clock']
         /\ UNCHANGED <<timer, waits, under, held, answered, composing, swaying>>
Moves == /\ \E s \in SUBSET Screens \ {under} : under' = s /\ since' = [since EXCEPT ![s] = clock]
         /\ UNCHANGED <<clock, timer, waits, held, answered, composing, swaying>>

-----------------------------------------------------------------------------
\* Sleeps to within the spin of the deadline where there is time and a timer.
Wait(w, deadline) ==
  LET sleep == deadline - Spin - clock
  IN  /\ waits[w].at = "away"
      /\ \/ /\ sleep > 0
            /\ timer' = clock + sleep
            /\ waits' = [waits EXCEPT ![w] = [at |-> "asleep", deadline |-> deadline,
                                              gives_up |-> clock + (sleep \div 2) * 2 + Late]]
         \/ /\ waits' = [waits EXCEPT ![w] = [at |-> "spinning", deadline |-> deadline, gives_up |-> clock]]
            /\ UNCHANGED timer
      /\ UNCHANGED <<clock, under, since, held, answered, composing, swaying>>

\* The timer wakes one sleeper, whoever set it last; a sleep gives up on its own.
Wakes(w) ==
  /\ waits[w].at = "asleep"
  /\ \/ timer # NoTime /\ timer <= clock /\ timer' = NoTime
     \/ waits[w].gives_up <= clock /\ UNCHANGED timer
  /\ waits' = [waits EXCEPT ![w].at = "spinning"]
  /\ UNCHANGED <<clock, under, since, held, answered, composing, swaying>>

\* mutant: the wait is over when its sleep is
OverWhenAwake(w) == TRUE

\* The spin takes the rest.
Over(w) == clock >= waits[w].deadline

Returns(w) ==
  /\ waits[w].at = "spinning" /\ Over(w)
  /\ waits' = [waits EXCEPT ![w] = [@ EXCEPT !.at = "away", !.gives_up = clock]]
  /\ UNCHANGED <<clock, timer, under, since, held, answered, composing, swaying>>

-----------------------------------------------------------------------------
\* mutant: what was found is kept while there is something
StillFresh == held.looked # 0 /\ held.screens # {}

\* Read again when it was never, or the given time ago.
IsFresh == held.looked # 0 /\ clock - held.looked < Fresh

\* The screens the window's client area lies on that the display configuration
\* tells a rate of; it may tell of none.
ScreensUnder(told) == under \cap told

\* The screens the compositor keeps statistics of and the window lies on, at
\* most max, in the order of the held ones; a screen it says nothing of is
\* left out, and with no statistics at all there is no answer.
WindowScreens(max, known, told) ==
  /\ held' = IF IsFresh THEN held ELSE [looked |-> clock, screens |-> ScreensUnder(told)]
  /\ LET named == SetToSeq(held'.screens \cap known)
     IN  answered' = [at |-> clock, screens |-> SubSeq(named, 1, Min({Len(named), Max({max, 0})}))]
  /\ UNCHANGED <<clock, timer, waits, under, since, composing, swaying>>

-----------------------------------------------------------------------------
\* mutant: a start that failed part way leaves the visual it showed
LeavesTheVisual(shown) == shown

\* What a start that failed leaves: nothing, the root taken off again.
Rests(shown) == FALSE

\* Idempotent: a set is built once, and every step of it may fail.
ComposeOn ==
  /\ \/ /\ composing /\ UNCHANGED <<composing, swaying>>
     \/ /\ ~composing /\ under # {}
        /\ composing' = TRUE /\ swaying' = TRUE
     \/ /\ ~composing
        /\ \E shown \in BOOLEAN : swaying' = Rests(shown)
        /\ UNCHANGED composing
  /\ UNCHANGED <<clock, timer, waits, under, since, held, answered>>

ComposeOff ==
  /\ composing' = FALSE
  /\ swaying' = IF composing THEN FALSE ELSE swaying
  /\ UNCHANGED <<clock, timer, waits, under, since, held, answered>>

WaitNext ==
  Ticks \/ \E w \in Waiters : Wakes(w) \/ Returns(w) \/ \E d \in {clock, clock + 1, clock + 3} : Wait(w, d)

ScreenNext ==
  \/ Ticks \/ Moves \/ ComposeOn \/ ComposeOff
  \/ \E max \in {-1, 1, 2}, known, told \in SUBSET Screens : WindowScreens(max, known, told)

-----------------------------------------------------------------------------
\* A wait never ends before its deadline, though another thread's wait set
\* the one timer anew, and its sleep gives up before two milliseconds past it.
NeverEarly ==
  \A w \in Waiters :
    /\ waits[w].at = "away" => waits[w].gives_up >= waits[w].deadline
    /\ waits[w].at = "asleep" => waits[w].gives_up < waits[w].deadline + Late

\* What is named lay under the window no longer ago than what is held may be,
\* each screen once, and the compositor is swayed exactly while a set is held
\* to stop it with.
ScreensAreFresh ==
  /\ answered.screens = <<>> \/
     \E s \in SUBSET Screens : Range(answered.screens) \subseteq s /\ answered.at - since[s] <= Fresh
  /\ IsInjective(answered.screens)
SwayIsHeld == swaying <=> composing

DisplayKeepsTime == NeverEarly /\ ScreensAreFresh /\ SwayIsHeld
=============================================================================
