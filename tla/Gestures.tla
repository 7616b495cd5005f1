------------------------------ MODULE Gestures ------------------------------
(***************************************************************************)
(* BOOTSEL gestures (src/src/button_functions.cpp): button_check samples   *)
(* the button ten times a second and turns the samples into a hold or a    *)
(* single, double or triple click.  A sample is read with the other core   *)
(* parked; when that fails the button reads as released.                   *)
(*                                                                         *)
(* Click and hold act on bt.cpp (module BtLink), a double click on         *)
(* usb_mode.cpp (module UsbMode, composed in Panel), a triple click leaves *)
(* the firmware.                                                           *)
(***************************************************************************)
EXTENDS Naturals, Sequences, FiniteSets

CONSTANTS
  HoldSamples,    \* HOLD_SAMPLES: pressed samples that make a hold
  ClickWindow,    \* CLICK_WINDOW_SAMPLES: released samples that end a gesture
  MaxTouches,     \* bound: times the user presses within one gesture
  MaxMisses       \* bound: failed reads within one gesture

VARIABLES
  fsm,            \* button_fsm
  pressSamples, waitSamples, clickCount,   \* the counters of the same names
  act,            \* what the last sample set off
  samples,        \* history: samples as read since the gesture began
  finger,         \* the button is physically down
  touches,        \* history: times it went down during the gesture
  misses          \* history: failed reads during the gesture

buttonVars == <<fsm, pressSamples, waitSamples, clickCount>>
historyVars == <<samples, finger, touches, misses>>
vars == <<buttonVars, act, historyVars>>

Actions == {"none", "hold", "click", "toggle", "boot"}

TypeOK ==
  /\ fsm \in {"idle", "pressing", "held", "wait"}
  /\ pressSamples \in 0..HoldSamples /\ waitSamples \in 0..ClickWindow
  /\ clickCount \in 0..(MaxTouches + MaxMisses)
  /\ act \in Actions
  /\ samples \in Seq(BOOLEAN) /\ finger \in BOOLEAN
  /\ touches \in 0..MaxTouches /\ misses \in 0..MaxMisses

Init ==
  /\ fsm = "idle" /\ pressSamples = 0 /\ waitSamples = 0 /\ clickCount = 0
  /\ act = "none"
  /\ samples = <<>> /\ finger = FALSE /\ touches = 0 /\ misses = 0

\* button_dispatch
Dispatch(clicks) ==
  IF clicks <= 1 THEN "click" ELSE IF clicks = 2 THEN "toggle" ELSE "boot"

StartPress == fsm' = "pressing" /\ pressSamples' = 1

-----------------------------------------------------------------------------
(* The four cases of the switch in button_check                            *)

Idle(pressed) ==
  /\ fsm = "idle" /\ act' = "none"
  /\ IF pressed THEN StartPress ELSE UNCHANGED <<fsm, pressSamples>>
  /\ UNCHANGED <<waitSamples, clickCount>>

\* (faulty variants, used by no specification, have an underscore in their names)
Pressing_HoldKeepsClicks(pressed) ==
  /\ fsm = "pressing"
  /\ IF ~pressed
       THEN /\ fsm' = "wait" /\ waitSamples' = 0
            /\ clickCount' = clickCount + 1
            /\ act' = "none" /\ UNCHANGED pressSamples
       ELSE /\ pressSamples' = pressSamples + 1
            /\ UNCHANGED waitSamples
            /\ IF pressSamples' >= HoldSamples
                 THEN fsm' = "held" /\ act' = "hold" /\ UNCHANGED clickCount
                 ELSE UNCHANGED <<fsm, clickCount>> /\ act' = "none"

Pressing(pressed) ==
  /\ fsm = "pressing"
  /\ IF ~pressed
       THEN /\ fsm' = "wait" /\ waitSamples' = 0
            /\ clickCount' = clickCount + 1
            /\ act' = "none" /\ UNCHANGED pressSamples
       ELSE /\ pressSamples' = pressSamples + 1
            /\ UNCHANGED waitSamples
            /\ IF pressSamples' >= HoldSamples
                 THEN fsm' = "held" /\ clickCount' = 0 /\ act' = "hold"
                 ELSE UNCHANGED <<fsm, clickCount>> /\ act' = "none"

Held(pressed) ==
  /\ fsm = "held" /\ act' = "none"
  /\ IF pressed THEN UNCHANGED <<fsm, pressSamples>>
                ELSE fsm' = "idle" /\ pressSamples' = 0
  /\ UNCHANGED <<waitSamples, clickCount>>

Wait_CountsOn(pressed) ==
  /\ fsm = "wait"
  /\ IF pressed
       THEN StartPress /\ act' = "none" /\ UNCHANGED <<waitSamples, clickCount>>
       ELSE /\ waitSamples' = waitSamples + 1
            /\ UNCHANGED clickCount
            /\ IF waitSamples' >= ClickWindow
                 THEN /\ fsm' = "idle" /\ pressSamples' = 0
                      /\ act' = Dispatch(clickCount)
                 ELSE UNCHANGED <<fsm, pressSamples>> /\ act' = "none"

Wait(pressed) ==
  /\ fsm = "wait"
  /\ IF pressed
       THEN StartPress /\ act' = "none" /\ UNCHANGED <<waitSamples, clickCount>>
       ELSE /\ waitSamples' = waitSamples + 1
            /\ IF waitSamples' >= ClickWindow
                 THEN /\ fsm' = "idle" /\ pressSamples' = 0 /\ clickCount' = 0
                      /\ act' = Dispatch(clickCount)
                 ELSE UNCHANGED <<fsm, pressSamples, clickCount>> /\ act' = "none"

-----------------------------------------------------------------------------
(* What the samples say, without the state machine                         *)

\* Length of the last stretch of s whose samples are all v
Trailing(s, v) ==
  Cardinality({i \in DOMAIN s : \A j \in i..Len(s) : s[j] = v})

Presses(s) == Cardinality({i \in DOMAIN s : s[i] /\ (i = 1 \/ ~s[i - 1])})

HeldIn(s) == \E i \in DOMAIN s : i >= HoldSamples
               /\ \A j \in (i - HoldSamples + 1)..i : s[j]

\* The action that is due at the last sample: a hold as soon as a press is long
\* enough; else the clicks, when the window after the last of them has closed.
ActionOf(s) ==
  IF Trailing(s, TRUE) = HoldSamples THEN "hold"
  ELSE IF ~HeldIn(s) /\ Presses(s) > 0 /\ Trailing(s, FALSE) = ClickWindow + 1
    THEN CASE Presses(s) = 1 -> "click"
           [] Presses(s) = 2 -> "toggle"
           [] OTHER -> "boot"
  ELSE "none"

Over(s) ==
  \/ Presses(s) = 0
  \/ Trailing(s, FALSE) > ClickWindow
  \/ HeldIn(s) /\ Trailing(s, FALSE) > 0

\* The finger and the outcome of the read (button_read_bootsel) at a sample.
\* A gesture that is over is forgotten when the next sample comes.
Observe(down, missed) ==
  LET new == Over(samples)
      touch == IF down /\ (new \/ ~finger) THEN 1 ELSE 0
      miss == IF missed THEN 1 ELSE 0
      read == down /\ ~missed
      longer == Append(IF new THEN <<>> ELSE samples, read)
  IN /\ finger' = down
     /\ touches' = (IF new THEN 0 ELSE touches) + touch
     /\ misses' = (IF new THEN 0 ELSE misses) + miss
     /\ touches' <= MaxTouches /\ misses' <= MaxMisses
     \* a hold that goes on adds nothing more to the gesture
     /\ samples' = IF read /\ ~new /\ Trailing(samples, TRUE) > HoldSamples
                     THEN samples ELSE longer

\* button_check, at most every 100 ms
Check ==
  \E down \in BOOLEAN, missed \in BOOLEAN :
    LET pressed == down /\ ~missed IN
    /\ missed => down
    /\ Observe(down, missed)
    /\ Idle(pressed) \/ Pressing(pressed) \/ Held(pressed) \/ Wait(pressed)

Next == Check
Spec == Init /\ [][Next]_vars

-----------------------------------------------------------------------------
(* Properties                                                              *)

\* Whatever the order of presses, pauses and failed reads, a sample sets off
\* exactly the action that the samples of the gesture stand for: no click of an
\* earlier gesture is counted, no hold is followed by a click.
ActionIsWhatWasRead == act = ActionOf(samples)

\* Only a failed read splits a press: the clicks counted are at most the presses
\* of the finger plus the reads that failed, so the mode is not changed (nor the
\* firmware left) by one undisturbed press.
SplitsNeedMissedReads ==
  /\ clickCount <= touches + misses
  /\ act = "toggle" => touches + misses >= 2
  /\ act = "boot" => touches + misses >= 3
=============================================================================
