------------------------------- MODULE Panel --------------------------------
(***************************************************************************)
(* What the BOOTSEL button does: the gestures of module Gestures drive the *)
(* USB mode and the configuration flash of module UsbMode.  button_check   *)
(* and usb_mode_task are called from the same loop (main.cpp:346-364), so  *)
(* a sample and the whole action it sets off are one step; while a sector  *)
(* is being written nothing else runs.  Click and hold only concern the    *)
(* Bluetooth link and are left to module BtLink.                           *)
(***************************************************************************)
EXTENDS Naturals, Sequences, FiniteSets

CONSTANTS HoldSamples, ClickWindow, MaxTouches, MaxMisses, Retry, HostBodies

VARIABLES fsm, pressSamples, waitSamples, clickCount, act, samples, finger,
          touches, misses,
          active, ramMode, body, pending, wait, flash, saving, spoilt

G == INSTANCE Gestures
M == INSTANCE UsbMode

ASSUME TimesAssumption ==
  /\ HoldSamples \in Nat \ {0, 1} /\ ClickWindow \in Nat \ {0}
  /\ MaxTouches \in Nat /\ MaxMisses \in Nat /\ Retry \in Nat
ASSUME BodiesAssumption == HostBodies \subseteq M!AnyBody

buttonVars == <<fsm, pressSamples, waitSamples, clickCount, act, samples,
                finger, touches, misses>>
modeVars == <<active, ramMode, body, pending, wait, flash, saving, spoilt>>
vars == <<buttonVars, modeVars>>

TypeOK == G!TypeOK /\ M!TypeOK

Init == G!Init /\ M!Init

\* button_check; a triple click reboots into BOOTSEL (reset_usb_boot), from where
\* the firmware starts anew
Press ==
  /\ saving = "no"
  /\ G!Check
  /\ act' # "boot"
  /\ IF act' = "toggle" THEN M!Toggle ELSE UNCHANGED modeVars

Restart ==
  /\ fsm' = "idle" /\ pressSamples' = 0 /\ waitSamples' = 0 /\ clickCount' = 0
  /\ act' = "none"
  /\ samples' = <<>> /\ finger' = FALSE /\ touches' = 0 /\ misses' = 0
  /\ M!Reboot

\* The third click: the sample that closes its window is the last one taken
TripleClick ==
  /\ saving = "no" /\ fsm = "wait"
  /\ waitSamples + 1 >= ClickWindow /\ G!Dispatch(clickCount) = "boot"
  /\ Restart

PowerCut == Restart

Firmware ==
  /\ M!Task \/ M!Tick \/ M!HostSetsConfig \/ M!HostSetsVolume \/ M!HostSaves
     \/ M!Programmed \/ M!Misprogrammed
  /\ UNCHANGED buttonVars

Next == Press \/ TripleClick \/ PowerCut \/ Firmware

\* The main loop runs on, and a flash that takes writes again and again takes
\* one in the end.
Spec ==
  /\ Init /\ [][Next]_vars
  /\ WF_vars(M!Tick /\ UNCHANGED buttonVars)
  /\ SF_vars(M!Task /\ saving' # "no" /\ UNCHANGED buttonVars)
  /\ WF_vars((M!Programmed \/ M!Misprogrammed) /\ UNCHANGED buttonVars)
  /\ SF_vars(saving # "host" /\ M!Programmed /\ UNCHANGED buttonVars)

-----------------------------------------------------------------------------
(* Properties                                                              *)

\* A sample sets off exactly the action its gesture stands for (see Gestures).
ActionIsWhatWasRead == G!ActionIsWhatWasRead

\* Only failed reads split a press (see Gestures).
SplitsNeedMissedReads == G!SplitsNeedMissedReads

\* A power cut brings the bridge back in the mode it was in (see UsbMode).
ModeSurvivesPowerCut == M!ModeSurvivesPowerCut

\* A failed save of the mode is made up for (see UsbMode).
SavesEnd == M!SavesEnd

\* The mode changes at every double click and, restarts aside, at nothing else:
\* not at the end of a hold, a triple click or a double click cut short, and
\* not when the host sends or saves settings.
ModeChangesByDoubleClick ==
  [][samples' # <<>> =>
       (active' # active <=> samples' # samples /\ G!ActionOf(samples') = "toggle")]_vars
=============================================================================
