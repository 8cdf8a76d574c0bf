-------------------------- MODULE CompositePasses --------------------------
(***************************************************************************)
(* The composite's passes compiled apart (kernels/composite/mod.rs): a walk*)
(* asks for the pass its plan needs and takes the full one while a thread  *)
(* makes the one asked for. The list of passes is behind a lock that the   *)
(* walk holds through its whole look (`pass`) and the thread only while it *)
(* picks what to make and while it puts what it made (`compile_apart`).    *)
(*                                                                         *)
(* A pass is <<output, kind>>: the output tiles or a surface's format, and *)
(* what a plan needs of it (Compiled). <<o, Full>> takes every plan of the *)
(* output o. Tiles is the output tiles'. MaxAsks bounds the walks.         *)
(***************************************************************************)
EXTENDS Naturals, FiniteSets, SequencesExt

CONSTANTS Outputs, Kinds, Tiles, Full, MaxAsks

Wanted == Outputs \X Kinds
FullOf(pass) == <<pass[1], Full>>

VARIABLES
  asked,       \* Passes.asked: each pass asked for, in order, and whether it is made
  compiling,   \* Passes.compiling
  threads,     \* the compiling threads: each the pass it makes, or Looking
  walks        \* how many walks have asked

passesVars == <<asked, compiling, threads, walks>>

Looking == [pass |-> <<Tiles, Full>>, looks |-> TRUE]
Making(pass) == [pass |-> pass, looks |-> FALSE]

WasAsked(pass) == \E k \in DOMAIN asked : asked[k].pass = pass
Made(pass) == \E k \in DOMAIN asked : asked[k].pass = pass /\ asked[k].made
Unmade == {k \in DOMAIN asked : ~asked[k].made}

Entry(pass, made) == [pass |-> pass, made |-> made]

\* Composite::new compiles the full pass of the tiles.
PassesInit ==
  /\ asked = <<Entry(<<Tiles, Full>>, TRUE)>>
  /\ compiling = FALSE
  /\ threads = <<>>
  /\ walks = 0

\* A thread is started where none runs.
Starts == IF compiling THEN threads ELSE Append(threads, Looking)

\* `pass`, under the lock: an output's full pass is compiled there where it
\* is first asked for; what is made is taken, what was asked is waited for,
\* anything else is asked for. What it returns is GivesPass.
AsksPass(pass) ==
  LET full == FullOf(pass)
      held == IF Made(full) THEN asked ELSE Append(asked, Entry(full, TRUE))
  IN /\ walks < MaxAsks
     /\ walks' = walks + 1
     /\ IF WasAsked(pass) \/ pass = full
        THEN asked' = held /\ UNCHANGED <<compiling, threads>>
        ELSE /\ asked' = Append(held, Entry(pass, FALSE))
             /\ compiling' = TRUE
             /\ threads' = Starts

\* The pass a walk that wants `pass` dispatches now.
GivesPass(pass) == IF Made(pass) THEN pass ELSE FullOf(pass)

Latest == CHOOSE k \in Unmade : \A j \in Unmade : j <= k

\* Mutant: a thread that finds nothing ends, and says so after the lock.
PicksUnsaid(t) ==
  /\ threads[t].looks
  /\ IF Unmade = {}
     THEN threads' = RemoveAt(threads, t)
     ELSE threads' = [threads EXCEPT ![t] = Making(asked[Latest].pass)]
  /\ UNCHANGED <<asked, compiling, walks>>

\* The thread under the lock picks the latest asked for, or ends.
Picks(t) ==
  /\ threads[t].looks
  /\ IF Unmade = {}
     THEN /\ compiling' = FALSE
          /\ threads' = RemoveAt(threads, t)
     ELSE /\ threads' = [threads EXCEPT ![t] = Making(asked[Latest].pass)]
          /\ UNCHANGED compiling
  /\ UNCHANGED <<asked, walks>>

\* It has compiled without the lock, and puts what it made under it.
PutsMade(t) ==
  /\ ~threads[t].looks
  /\ asked' = [k \in DOMAIN asked |->
                 IF asked[k].pass = threads[t].pass THEN [asked[k] EXCEPT !.made = TRUE] ELSE asked[k]]
  /\ threads' = [threads EXCEPT ![t] = Looking]
  /\ UNCHANGED <<compiling, walks>>

Compiles == \E t \in DOMAIN threads : Picks(t) \/ PutsMade(t)

PassesNext == (\E pass \in Wanted : AsksPass(pass)) \/ Compiles

-----------------------------------------------------------------------------
\* One thread compiles at a time, and while any pass asked for is not made
\* there is one that will come back to the list: no pass is left to a thread
\* that has already found nothing to do. No pass is made twice, and one asked
\* for can be walked at once (composite/mod.rs "no plan waits on one but an
\* output's first").
NoPassIsForgotten ==
  /\ Len(threads) = (IF compiling THEN 1 ELSE 0)
  /\ Unmade # {} => compiling
  /\ \A j, k \in DOMAIN asked : asked[j].pass = asked[k].pass => j = k
  /\ \A k \in DOMAIN asked : Made(GivesPass(asked[k].pass))

\* Every pass asked for is made: the walks come to an end (MaxAsks), so the
\* list is in the end whole.
AskedIsMade == []<>(Unmade = {})
=============================================================================
