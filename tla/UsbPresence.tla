---------------------------- MODULE UsbPresence -----------------------------
(***************************************************************************)
(* When the bridge is on the USB bus, and as what: bt.cpp connects the     *)
(* device when a controller has told whether it is an Edge, and takes it   *)
(* off when the controller is lost, unless wake is enabled or the host is  *)
(* asleep; the button and the host's reconnect command enumerate it anew.  *)
(* The host reads the descriptors (usb_descriptors.cpp) when the device    *)
(* comes, and only then.                                                   *)
(*                                                                         *)
(* controller_mode is 2, "automatic".                                      *)
(***************************************************************************)
EXTENDS Naturals

Kinds == {"DualSense", "Edge"}

VARIABLES
  link,        \* the controller with an open HID channel, or "none"
  check,       \* check_dse
  request,     \* external: GET 0x70 is on its way, or its answer
  isDse,       \* is_dse
  wake,        \* config.enable_wake
  switching,   \* usb_mode_is_switch()
  shown,       \* the device is on the bus (tud_connect, tud_disconnect)
  face,        \* external: what the host has enumerated, "none" when not shown
  asleep,      \* tud_suspended()
  missed,      \* history: a controller answered while the device was off the
               \* bus and the bus suspended, and no one has shown it since
  foreign,     \* history: a controller answered on a device that stayed shown
               \* as something else
  owed         \* history: a controller was lost without wake while asleep,
               \* and no one has asked for the device since

vars == <<link, check, request, isDse, wake, switching, shown, face, asleep,
          missed, foreign, owed>>

TypeOK ==
  /\ link \in Kinds \cup {"none"} /\ check \in BOOLEAN /\ request \in BOOLEAN
  /\ isDse \in BOOLEAN /\ wake \in BOOLEAN /\ switching \in BOOLEAN
  /\ shown \in BOOLEAN /\ face \in Kinds \cup {"Switch Pro", "none"}
  /\ asleep \in BOOLEAN /\ missed \in BOOLEAN /\ foreign \in BOOLEAN
  /\ owed \in BOOLEAN

\* main hides the device before any controller comes
Init ==
  /\ link = "none" /\ check = FALSE /\ request = FALSE /\ isDse = FALSE
  /\ wake \in BOOLEAN /\ switching \in BOOLEAN
  /\ shown = FALSE /\ face = "none" /\ asleep = FALSE
  /\ missed = FALSE /\ foreign = FALSE /\ owed = FALSE

\* ds_mode and the descriptor callbacks
Face(switch, edge) ==
  IF switch THEN "Switch Pro" ELSE IF edge THEN "Edge" ELSE "DualSense"

-----------------------------------------------------------------------------
(* bt.cpp                                                                  *)

\* HID open: init_feature asks for report 0x70; a failed l2cap_send goes
\* unnoticed
Opened ==
  /\ link = "none" /\ link' \in Kinds
  /\ check' = TRUE /\ request' \in BOOLEAN
  /\ UNCHANGED <<isDse, wake, switching, shown, face, asleep, missed, foreign,
                 owed>>

\* The answer: report 0x70, or a refusal.  A device that is on the bus is not
\* enumerated again.  (The faulty variant connects for an Edge only.)
Answered_EdgeOnly ==
  /\ request /\ request' = FALSE
  /\ check /\ check' = FALSE
  /\ isDse' = (link = "Edge")
  /\ shown' = (shown \/ (~asleep /\ isDse'))
  /\ face' = IF shown' /\ ~shown THEN Face(switching, isDse') ELSE face
  /\ foreign' = (shown /\ face # Face(switching, isDse'))
  /\ missed' = (~shown /\ asleep) /\ owed' = FALSE
  /\ UNCHANGED <<link, wake, switching, asleep>>

Answered ==
  /\ request /\ request' = FALSE
  /\ check /\ check' = FALSE
  /\ isDse' = (link = "Edge")
  /\ shown' = (shown \/ ~asleep)
  /\ face' = IF shown' /\ ~shown THEN Face(switching, isDse') ELSE face
  /\ foreign' = (shown /\ face # Face(switching, isDse'))
  /\ missed' = (~shown /\ asleep) /\ owed' = FALSE
  /\ UNCHANGED <<link, wake, switching, asleep>>

\* HCI_EVENT_DISCONNECTION_COMPLETE; check_dse is kept
Lost ==
  /\ link # "none" /\ link' = "none" /\ request' = FALSE /\ missed' = FALSE
  /\ IF ~wake /\ ~asleep
       THEN shown' = FALSE /\ face' = "none" /\ foreign' = FALSE /\ owed' = FALSE
       ELSE /\ owed' = (shown /\ ~wake)
            /\ UNCHANGED <<shown, face, foreign>>
  /\ UNCHANGED <<check, isDse, wake, switching, asleep>>

-----------------------------------------------------------------------------
(* The button and the host                                                 *)

Enumerate(switch) ==
  /\ shown' = TRUE /\ face' = Face(switch, isDse) /\ asleep' = FALSE
  /\ missed' = FALSE /\ foreign' = FALSE

\* usb_mode_toggle_and_reconnect, with a controller or without one
Toggle ==
  /\ switching' = ~switching
  /\ Enumerate(switching') /\ owed' = FALSE
  /\ UNCHANGED <<link, check, request, isDse, wake>>

\* pico_cmd_set 0x03 and 0x01
Reconnect ==
  /\ shown /\ ~asleep /\ ~switching
  /\ Enumerate(switching) /\ owed' = FALSE
  /\ UNCHANGED <<link, check, request, isDse, wake, switching>>

SetWake ==
  /\ shown /\ ~asleep /\ ~switching
  /\ wake' = ~wake
  /\ UNCHANGED <<link, check, request, isDse, switching, shown, face, asleep,
                 missed, foreign, owed>>

\* The host suspends the bus, or the bus of a device that was taken off looks
\* like it (wake.cpp:130)
HostSleeps ==
  /\ ~asleep /\ asleep' = TRUE
  /\ UNCHANGED <<link, check, request, isDse, wake, switching, shown, face,
                 missed, foreign, owed>>

\* A host that wakes may enumerate the device anew, or go on with it
HostWakes ==
  /\ asleep
  /\ \/ asleep' = FALSE /\ UNCHANGED <<shown, face, missed, foreign>>
     \/ shown /\ Enumerate(switching)
  /\ UNCHANGED <<link, check, request, isDse, wake, switching, owed>>

Next ==
  \/ Opened \/ Answered \/ Lost \/ Toggle \/ Reconnect \/ SetWake
  \/ HostSleeps \/ HostWakes

\* A controller that was asked answers.
Spec == Init /\ [][Next]_vars /\ WF_vars(Answered)

-----------------------------------------------------------------------------
(* Properties                                                              *)

\* A controller that has answered is on the bus, even with the host asleep, and
\* as what it is, unless another kind of device had stayed there, or it answered
\* while a suspend kept a device that was off the bus from coming back.
AnsweredIsShown ==
  link # "none" /\ ~check =>
    missed \/ (shown /\ (foreign \/ face = Face(switching, link = "Edge")))

\* A connected controller gets its device on the bus, and the right one, in
\* whatever order controllers come and go, the host sleeps and wakes and the
\* mode changes; unless the request for report 0x70 was not sent, another kind
\* of device had stayed on the bus, or the answer found the bus suspended
\* without a device.
ControllerIsShown ==
  \A k \in Kinds :
    link = k ~> \/ shown /\ face = Face(switching, k = "Edge")
                \/ link # k \/ asleep \/ missed \/ foreign \/ (check /\ ~request)

\* bt.cpp:605 "Defer the hide until the host is awake": a controller lost while
\* the host was asleep is hidden when it has woken up, unless someone has asked
\* for the device since.
DeferredHideHappens ==
  owed /\ ~asleep ~> ~shown \/ ~owed \/ link # "none" \/ wake \/ asleep
=============================================================================
