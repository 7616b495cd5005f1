---------------------------- MODULE SwitchRumble ----------------------------
(***************************************************************************)
(* Rumble in Switch mode (src/src/switch_rumble_adapter.cpp): the host's   *)
(* last command is synthesised into haptics packets at a fixed pace until  *)
(* it is silent, and a host that says nothing more is silenced.            *)
(*                                                                         *)
(* Amplitudes are 0 and 1: a packet is longer than the ramp (module        *)
(* SwitchData), so after one packet the synthesiser is at its target.      *)
(* Times are in ticks; the due time of a packet is relative to now.        *)
(***************************************************************************)
EXTENDS Integers

CONSTANTS
  Interval,    \* HAPTICS_PACKET_INTERVAL_US
  RumbleLimit, \* RUMBLE_COMMAND_TIMEOUT_US
  Tail,        \* SILENCE_TAIL_PACKETS
  MaxDrops     \* bound: packets that find the Bluetooth queue full

VARIABLES
  switching,        \* usb_mode_is_switch()
  vibration,        \* vibration_enabled_ of the protocol
  target, level,    \* the oscillators' target and present amplitude
  due,              \* next_packet_us - now, NoPacket for 0 or long past
  commandAge,       \* now - last_command_us, "none" for 0
  tail,             \* silence_tail_packets
  transport,        \* transport_active
  wasConnected,     \* controller_was_connected
  connected,        \* bt_is_connected()
  loud,             \* external: the last packet the controller got ends loud
  host,             \* external: the host still sends commands
  drops,            \* history: packets dropped so far
  stopLost          \* history: the packet of the last stop was one of them

vars == <<switching, vibration, target, level, due, commandAge, tail, transport, wasConnected,
                connected, loud, host, drops, stopLost>>

NoPacket == -(Interval + 1)

NoCommand == RumbleLimit + 1

TypeOK ==
  /\ switching \in BOOLEAN /\ vibration \in BOOLEAN
  /\ target \in 0..1 /\ level \in 0..1
  /\ due \in NoPacket..Interval
  /\ commandAge \in 0..RumbleLimit \cup {NoCommand}
  /\ tail \in 0..Tail
  /\ transport \in BOOLEAN /\ wasConnected \in BOOLEAN
  /\ connected \in BOOLEAN /\ loud \in BOOLEAN
  /\ host \in BOOLEAN /\ drops \in 0..MaxDrops /\ stopLost \in BOOLEAN

Init ==
  /\ switching \in BOOLEAN /\ vibration = FALSE
  /\ target = 0 /\ level = 0 /\ due = NoPacket /\ commandAge = NoCommand
  /\ tail = 0 /\ transport = FALSE /\ wasConnected = FALSE
  /\ connected = FALSE /\ loud = FALSE
  /\ host = TRUE /\ drops = 0 /\ stopLost = FALSE

\* audio_send_haptics_pcm, of a packet that ends at amplitude a; bt_write drops
\* it when its queue is full
SendPcm(a) ==
  \/ loud' = (a > 0) /\ UNCHANGED drops
  \/ drops < MaxDrops /\ drops' = drops + 1 /\ UNCHANGED loud

\* switch_rumble_adapter_apply
Apply(a) ==
  /\ target' = a
  /\ commandAge' = 0
  /\ due' = IF transport THEN due ELSE NoPacket
  /\ transport' = TRUE
  /\ tail' = IF a = 0 THEN Tail ELSE 0
  /\ UNCHANGED <<level, wasConnected, connected, loud, drops, stopLost>>

\* synth.reset with the times, as stop and a lost controller have it
Silence ==
  /\ target' = 0 /\ level' = 0 /\ due' = NoPacket /\ commandAge' = NoCommand
  /\ tail' = 0 /\ transport' = FALSE

\* switch_rumble_adapter_stop: a single silent packet
Stop ==
  /\ Silence
  /\ IF connected THEN SendPcm(0) ELSE UNCHANGED <<loud, drops>>
  /\ stopLost' = loud'
  /\ UNCHANGED <<wasConnected, connected>>

-----------------------------------------------------------------------------
(* switch_rumble_adapter_task                                              *)

\* Without a controller: what is left of the last one is forgotten, a command
\* that came since is kept for the next one
TaskUnconnected ==
  /\ ~connected
  /\ IF wasConnected
       THEN Silence
       ELSE UNCHANGED <<target, level, transport, tail, due, commandAge>>
  /\ wasConnected' = FALSE
  /\ UNCHANGED <<loud, drops>>

TaskIdle ==
  /\ connected /\ ~transport
  /\ wasConnected' = TRUE
  /\ UNCHANGED <<target, level, due, commandAge, tail, transport, loud, drops>>

\* The host has been silent for too long
TimedOut == (target = 1 \/ level = 1) /\ commandAge = RumbleLimit

\* The next packet is due Interval after this one was, unless that is past
NextDue == IF due < -Interval THEN Interval ELSE due + Interval

\* (faulty: no silence tail)
TaskActive_StopsAtOnce ==
  /\ connected /\ transport
  /\ wasConnected' = TRUE
  /\ LET goal == IF TimedOut THEN 0 ELSE target
     IN
     /\ target' = goal
     /\ commandAge' = IF TimedOut THEN NoCommand ELSE commandAge
     /\ tail' = 0
     /\ IF due > 0
          THEN UNCHANGED <<level, transport, due, loud, drops>>
          ELSE /\ SendPcm(goal) /\ level' = goal
               /\ transport' = (goal = 1)
               /\ due' = IF goal = 1 THEN NextDue ELSE NoPacket

TaskActive ==
  /\ connected /\ transport
  /\ wasConnected' = TRUE
  /\ LET goal == IF TimedOut THEN 0 ELSE target
         left == IF TimedOut THEN Tail ELSE tail
     IN
     /\ target' = goal
     /\ commandAge' = IF TimedOut THEN NoCommand ELSE commandAge
     /\ IF due > 0
          THEN tail' = left /\ UNCHANGED <<level, transport, due, loud, drops>>
          ELSE /\ SendPcm(goal) /\ level' = goal
               /\ IF goal = 0 /\ left = 0
                    THEN transport' = FALSE /\ due' = NoPacket /\ tail' = left
                    ELSE /\ tail' = IF goal = 0 THEN left - 1 ELSE left
                         /\ due' = NextDue /\ UNCHANGED transport

\* Only in Switch mode (main.cpp:56)
RumbleTask ==
  /\ switching
  /\ TaskUnconnected \/ TaskIdle \/ TaskActive
  /\ UNCHANGED <<switching, vibration, connected, host, stopLost>>

-----------------------------------------------------------------------------
(* Its callers and its environment                                         *)

\* switch_pro_usb_set_report: a rumble command of amplitude a, or subcommand
\* 0x48, which takes effect on the rumble bytes it carries itself
HostRumble ==
  /\ switching /\ host
  /\ \E a \in 0..1, v \in BOOLEAN :
       /\ vibration' = v /\ Apply(IF v THEN a ELSE 0)
  /\ UNCHANGED <<switching, host>>

\* The host falls silent and stays so
HostGone ==
  /\ host' = FALSE
  /\ UNCHANGED <<switching, vibration, target, level, due, commandAge, tail,
                 transport, wasConnected, connected, loud, drops, stopLost>>

\* usb_mode_toggle_and_reconnect: switch_pro_usb_reset, whatever the new mode
Toggle ==
  /\ switching' = ~switching
  /\ vibration' = FALSE
  /\ Stop
  /\ UNCHANGED host

\* A controller comes, or leaves and takes its rumble with it
LinkChanges ==
  /\ connected' = ~connected /\ loud' = FALSE
  /\ UNCHANGED <<switching, vibration, target, level, due, commandAge, tail,
                 transport, wasConnected, host, drops, stopLost>>

Tick ==
  /\ due' = IF due > NoPacket THEN due - 1 ELSE NoPacket
  /\ commandAge' = IF commandAge < RumbleLimit THEN commandAge + 1 ELSE commandAge
  /\ UNCHANGED <<switching, vibration, target, level, tail, transport,
                 wasConnected, connected, loud, host, drops, stopLost>>

Next == RumbleTask \/ HostRumble \/ HostGone \/ Toggle \/ LinkChanges \/ Tick

\* The main loop runs on, and so does the clock.
Spec == Init /\ [][Next]_vars /\ WF_vars(RumbleTask) /\ WF_vars(Tick)

-----------------------------------------------------------------------------
\* While the controller rumbles there are packets to come, the silent ones at
\* the end above all, one more than SILENCE_TAIL_PACKETS: unless as many have been
\* dropped, only the single packet of a change of mode may be lost for good.
StopIsNotLost == loud /\ ~transport => stopLost \/ drops > Tail

\* A host that vanishes does not leave the actuators running
\* (switch_rumble_adapter.cpp:79), although as many packets are dropped as the
\* silence tail has.  The exception is a change of mode: the one silent packet
\* it sends may be lost, and nothing sends another.
RumbleEnds == ~host /\ loud ~> ~loud \/ stopLost
=============================================================================
