----------------------------- MODULE LossyQueue -----------------------------
(***************************************************************************)
(* What a path of audio frames promises, whatever queues and cores it runs *)
(* through: it never holds more than it has room for; frames come out in   *)
(* the order they went in and none twice; any may be lost but the newest;  *)
(* and while the path is open, frames keep coming out until it is empty.   *)
(* A path that is closed may lose the newest too.  Modules MicPath and     *)
(* SpeakerPath implement it.                                               *)
(***************************************************************************)
EXTENDS Naturals, FiniteSets

CONSTANTS MaxFrames,   \* bound: frames that go in
          Room         \* frames the path has room for

VARIABLES made,        \* number of frames that went in
          kept,        \* those that are on their way
          delivered,   \* the last that came out
          open

vars == <<made, kept, delivered, open>>

Init == made = 0 /\ kept = {} /\ delivered = 0 /\ open \in BOOLEAN

Put ==
  /\ open /\ made < MaxFrames
  /\ made' = made + 1 /\ kept' = kept \cup {made'}
  /\ Cardinality(kept') <= Room
  /\ UNCHANGED <<delivered, open>>

Lose ==
  /\ \E f \in kept : (f # made \/ ~open) /\ kept' = kept \ {f}
  /\ UNCHANGED <<made, delivered, open>>

Deliver ==
  /\ \E f \in kept :
       /\ \A g \in kept : f <= g
       /\ delivered' = f /\ kept' = kept \ {f}
  /\ UNCHANGED <<made, open>>

OpenOrClose == open' = ~open /\ UNCHANGED <<made, kept, delivered>>

Next == Put \/ Lose \/ Deliver \/ OpenOrClose

Spec == Init /\ [][Next]_vars /\ WF_vars(open /\ Deliver)
=============================================================================
