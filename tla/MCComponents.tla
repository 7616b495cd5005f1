---------------------------- MODULE MCComponents ----------------------------
(* Ten components that meet nowhere but in the main loop, checked in one run:
   a behaviour picks one of them, which takes all its steps, and the others
   rest in an initial state.  Their product would show nothing more. *)
EXTENDS Naturals

CONSTANTS Inputs, Interval, MaxCommands, MaxResets, RumbleLimit, SilenceTail,
          RumbleDrops, MaxFailures, MaxChanges, Groups, Held, OutputDrops,
          Debounce, Long, Release, MaxFlashes, Capacity, MicFrames, SpeakerFrames

\* Queues have room, numbers of ticks, packets and the like are numbers, and a
\* controller that is not there is in the neutral state.
ASSUME SizesAssumption ==
  /\ Capacity \in Nat \ {0} /\ MicFrames \in Nat /\ SpeakerFrames \in Nat
  /\ Inputs \subseteq Nat /\ 0 \in Inputs
  /\ Interval \in Nat /\ MaxCommands \in Nat /\ MaxResets \in Nat
  /\ RumbleLimit \in Nat /\ SilenceTail \in Nat /\ RumbleDrops \in Nat
  /\ MaxFailures \in Nat /\ MaxChanges \in Nat /\ OutputDrops \in Nat
  /\ Debounce \in Nat /\ Long \in Nat /\ Release \in Nat /\ MaxFlashes \in Nat \ {0}

VARIABLES
  part,
  proSwitching, initialized, ready, response, dirty, inputAge, state, ep, seen,
  asked, answered, resets, proFailures, dropped,
  rumbleSwitching, vibration, target, level, due, commandAge, tail, transport,
  wasConnected, rumbleConnected, loud, host, rumbleDrops, stopLost,
  byte,
  hidSwitching, mode2, in, hidDirty, hidEp, hidSeen, failures, changes, forgotten,
  st, want, ctl, connected, spk, streaming, drops, lost,
  shortcut, listening, pressed, highAge, was, pressAge, fired, pending,
  releaseIn, busy, key, keyFailures, stuck,
  acl, linked, inquiring, ledStatus, flashes, disabled, fresh, low, blinking,
  blinkOn, pin, misled,
  active, fifo, decodeFifo, hand0, full0, hand1, full1, decoded, made, delivered,
  enabled, audioFifo, gathered, audioFull, taken, encoding, frames, opus,
  link, check, request, isDse, wake, switching, shown, face, asleep, missed,
  foreign, owed

proVars == <<proSwitching, initialized, ready, response, dirty, inputAge, state,
             ep, seen, asked, answered, resets, proFailures, dropped>>
rumbleVars == <<rumbleSwitching, vibration, target, level, due, commandAge, tail,
                transport, wasConnected, rumbleConnected, loud, host,
                rumbleDrops, stopLost>>
hidVars == <<hidSwitching, mode2, in, hidDirty, hidEp, hidSeen, failures,
             changes, forgotten>>
outputVars == <<st, want, ctl, connected, spk, streaming, drops, lost>>
keyVars == <<shortcut, listening, pressed, highAge, was, pressAge, fired,
             pending, releaseIn, busy, key, keyFailures, stuck>>
ledVars == <<acl, linked, inquiring, ledStatus, flashes, disabled, fresh, low,
             blinking, blinkOn, pin, misled>>
micVars == <<active, fifo, decodeFifo, hand0, full0, hand1, full1, decoded,
             made, delivered>>
speakerVars == <<enabled, audioFifo, gathered, audioFull, taken, encoding,
                 frames, opus>>
presenceVars == <<link, check, request, isDse, wake, switching, shown, face,
                  asleep, missed, foreign, owed>>
vars == <<part, proVars, rumbleVars, byte, hidVars, outputVars, keyVars, ledVars,
          micVars, speakerVars, presenceVars>>

Pro == INSTANCE SwitchPro
         WITH switching <- proSwitching, failures <- proFailures
Rumble == INSTANCE SwitchRumble
            WITH Tail <- SilenceTail, MaxDrops <- RumbleDrops,
                 switching <- rumbleSwitching, connected <- rumbleConnected,
                 drops <- rumbleDrops
Data == INSTANCE SwitchData
Hid == INSTANCE HidInput
         WITH switching <- hidSwitching, dirty <- hidDirty, ep <- hidEp,
              seen <- hidSeen
Output == INSTANCE HidOutput WITH MaxDrops <- OutputDrops
Keys == INSTANCE PsShortcut
          WITH enabled <- shortcut, failures <- keyFailures
Lamp == INSTANCE Led
Mic == INSTANCE MicPath WITH MaxFrames <- MicFrames
Speaker == INSTANCE SpeakerPath
             WITH MaxFrames <- SpeakerFrames, fifo <- audioFifo,
                  hand0 <- gathered, full0 <- audioFull, hand1 <- taken,
                  made <- frames
Presence == INSTANCE UsbPresence

-----------------------------------------------------------------------------
Init ==
  /\ part \in {"Switch Pro", "rumble", "data", "input", "output", "keys", "LED",
               "microphone", "speaker", "presence"}
  /\ Pro!Init /\ (part # "Switch Pro" => ~proSwitching)
  /\ Rumble!Init /\ (part # "rumble" => ~rumbleSwitching)
  /\ Data!Init
  /\ Hid!Init /\ (part # "input" => hidSwitching /\ ~mode2)
  /\ Output!Init /\ (part # "output" => \A f \in DOMAIN st : st[f] = 0)
  /\ Keys!Init /\ (part # "keys" => ~shortcut)
  /\ Lamp!Init /\ (part # "LED" => ~disabled)
  /\ Mic!Init
  /\ Speaker!Init /\ (part # "speaker" => ~enabled)
  /\ Presence!Init /\ (part # "presence" => ~wake /\ ~switching)

ProStep ==
  /\ part = "Switch Pro" /\ Pro!Next
  /\ UNCHANGED <<part, rumbleVars, byte, hidVars, outputVars, keyVars, ledVars,
                 micVars, speakerVars, presenceVars>>
RumbleStep ==
  /\ part = "rumble" /\ Rumble!Next
  /\ UNCHANGED <<part, proVars, byte, hidVars, outputVars, keyVars, ledVars,
                 micVars, speakerVars, presenceVars>>
DataStep ==
  /\ part = "data" /\ Data!NextByte
  /\ UNCHANGED <<part, proVars, rumbleVars, hidVars, outputVars, keyVars, ledVars,
                 micVars, speakerVars, presenceVars>>
InputStep ==
  /\ part = "input" /\ Hid!Next
  /\ UNCHANGED <<part, proVars, rumbleVars, byte, outputVars, keyVars, ledVars,
                 micVars, speakerVars, presenceVars>>
OutputStep ==
  /\ part = "output" /\ Output!Next
  /\ UNCHANGED <<part, proVars, rumbleVars, byte, hidVars, keyVars, ledVars,
                 micVars, speakerVars, presenceVars>>
KeyStep ==
  /\ part = "keys" /\ Keys!Next
  /\ UNCHANGED <<part, proVars, rumbleVars, byte, hidVars, outputVars, ledVars,
                 micVars, speakerVars, presenceVars>>
LedStep ==
  /\ part = "LED" /\ Lamp!Next
  /\ UNCHANGED <<part, proVars, rumbleVars, byte, hidVars, outputVars, keyVars,
                 micVars, speakerVars, presenceVars>>
MicStep ==
  /\ part = "microphone" /\ Mic!Next
  /\ UNCHANGED <<part, proVars, rumbleVars, byte, hidVars, outputVars, keyVars,
                 ledVars, speakerVars, presenceVars>>
SpeakerStep ==
  /\ part = "speaker" /\ Speaker!Next
  /\ UNCHANGED <<part, proVars, rumbleVars, byte, hidVars, outputVars, keyVars,
                 ledVars, micVars, presenceVars>>
PresenceStep ==
  /\ part = "presence" /\ Presence!Next
  /\ UNCHANGED <<part, proVars, rumbleVars, byte, hidVars, outputVars, keyVars,
                 ledVars, micVars, speakerVars>>

Next ==
  \/ ProStep \/ RumbleStep \/ DataStep \/ InputStep \/ OutputStep \/ KeyStep
  \/ LedStep \/ MicStep \/ SpeakerStep \/ PresenceStep

\* The fairness of each component's Spec, when it is the one that takes steps.
Fairness ==
  /\ WF_proVars(part = "Switch Pro" /\ Pro!Task)
  /\ WF_proVars(part = "Switch Pro" /\ Pro!HostReads)
  /\ WF_proVars(part = "Switch Pro" /\ Pro!Tick)
  /\ WF_rumbleVars(part = "rumble" /\ Rumble!RumbleTask)
  /\ WF_rumbleVars(part = "rumble" /\ Rumble!Tick)
  /\ WF_hidVars(part = "input" /\ Hid!Send)
  /\ WF_hidVars(part = "input" /\ Hid!HostReads)
  /\ WF_outputVars(part = "output" /\ Output!AudioPacket)
  /\ SF_keyVars(part = "keys" /\ listening /\ shortcut /\ ~busy /\ Keys!Report)
  /\ WF_keyVars(part = "keys" /\ Keys!HostReads)
  /\ WF_keyVars(part = "keys" /\ Keys!Tick)
  /\ WF_ledVars(part = "LED" /\ Lamp!InquiringLed)
  /\ WF_ledVars(part = "LED" /\ Lamp!BatteryTick)
  /\ WF_micVars(part = "microphone" /\ Mic!Core0)
  /\ WF_micVars(part = "microphone" /\ Mic!Core1)
  /\ WF_speakerVars(part = "speaker" /\ Speaker!Core0)
  /\ WF_speakerVars(part = "speaker" /\ Speaker!Core1)
  /\ WF_presenceVars(part = "presence" /\ Presence!Answered)

Spec == Init /\ [][Next]_vars /\ Fairness

-----------------------------------------------------------------------------
(* The properties of the components, stated where they are defined.        *)

\* Queues, counters and timers of all components stay in their ranges.
TypeOK ==
  /\ Pro!TypeOK /\ Rumble!TypeOK /\ byte \in 0..255 /\ Hid!TypeOK
  /\ Output!TypeOK /\ Keys!TypeOK /\ Lamp!TypeOK /\ Mic!TypeOK /\ Speaker!TypeOK
  /\ Presence!TypeOK

\* The arithmetic of Switch mode is sound for every byte (SwitchData).
ConversionsSound == part = "data" => Data!ConversionsSound

\* The safety half of the liveness properties below: what has not arrived is on
\* its way, in a slot, a flag or a timer, in every state of every component.
NothingIsLost ==
  /\ Pro!AnswerIsNotLost /\ Rumble!StopIsNotLost /\ Hid!ReportIsNotLost
  /\ Output!SettingsAreNotLost /\ Keys!ReleaseIsNotLost /\ Lamp!LedIsNotForgotten
  /\ Presence!AnsweredIsShown

\* A vanished host's rumble ends (SwitchRumble).
RumbleEnds == Rumble!RumbleEnds

\* The host gets its answers and sees the controller's last state, in Switch mode
\* (SwitchPro) and in DualSense mode (HidInput).
HostIsServed == Pro!LastCommandAnswered /\ Pro!FreshInput /\ Hid!LastReportArrives

\* The host's last settings reach the controller (HidOutput).
OutputArrives == Output!OutputArrives

\* A key that went down comes up (PsShortcut).
KeysComeUp == Keys!KeysComeUp

\* The LED tells the state of the link when all is at rest (Led).
LedSettles == Lamp!LedSettles

\* Both audio paths implement LossyQueue (MicPath, SpeakerPath).
AudioPathsAreLossyQueues == Mic!MicIsLossyQueue /\ Speaker!SpeakerIsLossyQueue

\* A connected controller gets the right device on the bus (UsbPresence).
ControllerIsShown == Presence!ControllerIsShown
=============================================================================
