------------------------------- MODULE Resampler -------------------------------
(***************************************************************************)
(* A sound converted as its decoder hands it back (audio_mix/resample.rs,  *)
(* Resampler): pieces pushed, what is ready pulled, the end said once.     *)
(* It must write what the conversion of the whole sound writes, holding    *)
(* little more than its filter.                                            *)
(***************************************************************************)
EXTENDS Resample

CONSTANTS
    Inter, Deci, Half,   \* the design
    MaxInput, MaxPiece   \* bounds: input frames ever, frames to a call
ASSUME DesignAssumption == Inter \in Nat \ {0} /\ Deci \in Nat \ {0} /\ Half \in Nat
ASSUME BoundsAssumption == MaxInput \in Nat /\ MaxPiece \in Nat

D == [inter |-> Inter, deci |-> Deci, half |-> Half]

VARIABLES
    r,      \* the resampler
    heard   \* the input each written output frame was worked out from
vars == <<r, heard>>

Init == r = NewResampler /\ heard = <<>>

\* After the end nothing is taken, and nothing let go of.
Push(n) ==
    /\ ~r.ended
    /\ Total(r) + n <= MaxInput
    /\ r' = Pushed(D, r, n)
    /\ UNCHANGED heard
PushFails ==
    /\ ~r.ended
    /\ r' = LetGo(D, r)
    /\ UNCHANGED heard
End ==
    /\ r' = Ended(r)
    /\ UNCHANGED heard
Pull(room) ==
    /\ r' = Pulled(D, r, room)
    /\ heard' = [f \in 0..r'.next - 1 |-> IF f < r.next THEN heard[f] ELSE Heard(D, r.first, Total(r), f)]

Next ==
    \/ \E n \in 0..MaxPiece : Push(n) \/ Pull(n)
    \/ PushFails
    \/ End
Spec == Init /\ [][Next]_vars

-----------------------------------------------------------------------------
(* The types: the counts are natural, and each written frame's inputs known. *)
TypeOK ==
    /\ r \in [first : Nat, held : Nat, next : Nat, ended : BOOLEAN]
    /\ DOMAIN heard = 0..r.next - 1

(* Fed in pieces a sound converts as it converts whole: every frame written *)
(* was worked out from every input the whole conversion reads - those past  *)
(* the sound's end alone are skipped, none because it had not come or was   *)
(* let go of (run, ready_end, let_go).                                      *)
WritesTheWhole ==
    \A f \in 0..r.next - 1 : heard[f] = Heard(D, 0, IF r.ended THEN Total(r) ELSE f * Deci + Half + 1, f)

(* And once it has ended and is pulled dry it has written every frame of it.*)
WritesItAll == r.ended /\ Ready(D, r) = 0 => r.next = (Total(r) * Inter) \div Deci

(* A conversion pulled dry before its next piece lets go of all but what    *)
(* its filter reads (let_go).                                               *)
HoldsItsFilter ==
    [][\A n \in 0..MaxPiece : Push(n) /\ Ready(D, r) = 0 /\ Half >= Deci => r'.held - n <= TapsOf(D) \div Inter + 1]_vars
=============================================================================
