----------------------------- MODULE HidOutput ------------------------------
(***************************************************************************)
(* Output reports in DualSense mode: the host's settings (rumble, lights,  *)
(* triggers, volumes) are merged into one state (state_mgr.cpp), which     *)
(* goes to the controller at once or, while the speaker interface is open, *)
(* with the next audio packet (tud_hid_set_report_cb in main.cpp, and      *)
(* audio_loop).                                                            *)
(*                                                                         *)
(* The state is one value, 0 or 1, for the rumble motors and one for each  *)
(* of the groups of fields that an Allow flag of the report guards.        *)
(***************************************************************************)
EXTENDS Naturals

CONSTANTS
  Groups,     \* the guarded groups
  Held,       \* those that the configuration keeps from the host
              \* (trigger_reduce and speaker_gain, when they are not 0)
  MaxDrops    \* bound: packets that find the Bluetooth queue full

Fields == Groups \cup {"rumble"}
Settings == [Fields -> 0..1]
\* state_init: constants, and volumes, gain and trigger strength as configured
Initial == {s \in Settings : s["rumble"] = 0}

VARIABLES
  st,         \* state of state_mgr.cpp
  want,       \* history: what the host has asked for since the controller came
  ctl,        \* external: what the controller has been told
  connected,  \* hid_interrupt_cid # 0
  spk,        \* spk_active
  streaming,  \* external: the host sends audio
  drops,      \* history: dropped packets so far
  lost        \* history: the last one that carried a state was dropped, the
              \* interface was closed over a state it was to carry, or the
              \* state was set without a packet

vars == <<st, want, ctl, connected, spk, streaming, drops, lost>>

TypeOK ==
  /\ st \in Settings /\ want \in Settings /\ ctl \in Settings
  /\ connected \in BOOLEAN /\ spk \in BOOLEAN /\ streaming \in BOOLEAN
  /\ drops \in 0..MaxDrops /\ lost \in BOOLEAN

Init ==
  /\ st \in Initial /\ want = st /\ ctl = st
  /\ connected = FALSE /\ spk = FALSE /\ streaming = FALSE
  /\ drops = 0 /\ lost = FALSE

\* state_update: allowed groups are taken, rumble always, and it is 0 unless one
\* of the UseRumbleNotHaptics flags is set
StateUpdate(old, new, allow, useRumble) ==
  [f \in Fields |->
     IF f = "rumble" THEN IF useRumble THEN new[f] ELSE 0
     ELSE IF f \in allow \ Held THEN new[f] ELSE old[f]]

\* A packet that carries the state goes into the queue, or finds it full
Send(s) ==
  \/ ctl' = s /\ lost' = FALSE /\ UNCHANGED drops
  \/ drops < MaxDrops /\ drops' = drops + 1 /\ lost' = TRUE /\ UNCHANGED ctl

\* bt_write of such a packet
Write(s) == IF connected THEN Send(s) ELSE UNCHANGED <<ctl, drops, lost>>

\* tud_hid_set_report_cb, report 0x02; state_update takes nothing from a report
\* that is too short, and the state is sent all the same.  (The faulty variant
\* leaves before the merge, not after it.)
HostOutput_AudioFirst ==
  \E new \in Settings, allow \in SUBSET Groups, useRumble \in BOOLEAN :
    /\ want' = StateUpdate(want, new, allow, useRumble)
    /\ st' = IF ~useRumble /\ spk THEN st
             ELSE StateUpdate(st, new, allow, useRumble)
    /\ IF ~useRumble /\ spk THEN UNCHANGED <<ctl, drops, lost>> ELSE Write(st')
    /\ UNCHANGED <<connected, spk, streaming>>

HostOutput ==
  \E new \in Settings, allow \in SUBSET Groups, useRumble \in BOOLEAN :
    /\ \/ /\ want' = StateUpdate(want, new, allow, useRumble)
          /\ st' = StateUpdate(st, new, allow, useRumble)
       \/ UNCHANGED <<want, st>>
    /\ IF ~useRumble /\ spk THEN UNCHANGED <<ctl, drops, lost>> ELSE Write(st')
    /\ UNCHANGED <<connected, spk, streaming>>

\* audio_loop, when it has gathered a packet
AudioPacket ==
  /\ spk /\ streaming
  /\ Write(st)
  /\ UNCHANGED <<st, want, connected, spk, streaming>>

\* tud_audio_set_itf_cb; a state that waits for an audio packet waits on
SetInterface ==
  /\ spk' = ~spk /\ streaming' = spk'
  /\ lost' = (lost \/ (~spk' /\ st # ctl))
  /\ UNCHANGED <<st, want, ctl, connected, drops>>

\* The host stops its audio without closing the interface: it pauses, it resets
\* the bus, or the bridge changes its mode; the flag is kept
StreamStops ==
  /\ streaming /\ streaming' = FALSE
  /\ UNCHANGED <<st, want, ctl, connected, spk, drops, lost>>

\* HID open on L2CAP: state_init, and report 0x32 with it.  The queue is empty,
\* unless only the interrupt channel was lost: nothing but the end of the ACL
\* link empties it
ControllerComes ==
  /\ ~connected /\ connected' = TRUE
  /\ st' \in Initial /\ want' = st' /\ Send(st')
  /\ UNCHANGED <<spk, streaming>>

\* set_volume, set_gain, set_trigger_reduce: the settings (set_config) and the
\* volume of the USB audio control write the state and send nothing
SetDirectly ==
  /\ \E g \in Groups, v \in 0..1 :
       st' = [st EXCEPT ![g] = v] /\ want' = [want EXCEPT ![g] = v]
  /\ lost' = TRUE
  /\ UNCHANGED <<ctl, connected, spk, streaming, drops>>

ControllerLeaves ==
  /\ connected /\ connected' = FALSE
  /\ UNCHANGED <<st, want, ctl, spk, streaming, drops, lost>>

Next ==
  \/ HostOutput \/ AudioPacket \/ SetInterface \/ StreamStops
  \/ ControllerComes \/ ControllerLeaves \/ SetDirectly

\* A host that streams goes on to, and audio_loop with it.
Spec == Init /\ [][Next]_vars /\ WF_vars(AudioPacket)

-----------------------------------------------------------------------------
\* The merged state is what the host has asked for, and with the speaker
\* interface closed the controller has been told all of it; or the packet was
\* dropped, or the state was set without one.
SettingsAreNotLost ==
  /\ st = want
  /\ connected /\ ~spk /\ ~lost => ctl = want

\* What the host asked for last reaches the controller, whether it is sent at
\* once or left to the audio packets.  Otherwise the packet was dropped, or the
\* speaker interface is open and nothing is streamed, it was closed before the
\* packet that was to carry the state, or the state was set without a report.
OutputArrives ==
  \A w \in Settings :
    connected /\ want = w
      ~> ctl = w \/ want # w \/ ~connected \/ lost \/ (spk /\ ~streaming)
=============================================================================
