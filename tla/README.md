# TLA+ models of Pico DualSense Switch Bridge

The bridge is firmware for a Raspberry Pi Pico W / Pico 2 W: a DualSense connects to it
by Bluetooth, and it shows the host a DualSense or a Nintendo Switch Pro Controller on
USB. This directory holds TLA+ models of its control logic, TLC configurations that check
them on small instances, and TLAPS proofs of the properties that matter most.

File and line references are to `src/src/` of the repository unless a path is given.

    tlc -workers 2 -config Wake.cfg MCWake.tla     one of the runs
    tlapm WakeProofs.tla                           one of the proofs

## How the program runs

Core 0 runs one loop (`main.cpp:346-364`): `cyw43_arch_poll` delivers BTstack's HCI and L2CAP
events to `bt.cpp`, `tud_task` delivers TinyUSB's callbacks, then `wake_task`,
`audio_loop`, the USB input report, the battery LED, `button_check`, `usb_mode_task`,
the inquiry LED and `dse_task` each get a turn. Nothing preempts a handler on this core, so
**one handler is one step** in every model. What makes the program hard is the order in which these
steps come: BTstack, the controllers, the host and the user each act on their own, most calls
into BTstack or TinyUSB are answered by an event some turns later, a turn of the loop can be late (flash writes,
`sleep_ms(150)` in the USB reconnect), and a power cut or the 1 s watchdog can fall between
any two flash writes. Core 1 only decodes and encodes audio and shares queues with core 0.

## Inventory

| Part | State | Operations | What is hard, and what must hold | Module |
|---|---|---|---|---|
| Bluetooth link, `bt.cpp` | `current_device_addr`, `device_found`, `new_pair`, `bt_inquiring`, `acl_handle`, two channel ids | HCI and L2CAP events, click | events of two controllers interleave with one set of variables; nothing of a lost link may be used; never unreachable; no link nobody owns | `BtLink` |
| Blacklist, `bt.cpp` | `bt_cleared_addrs`, dirty flag, TLV flash, link keys | hold, remove at HID open, deferred persist, load | crashes between flash writes; BTstack accepts connections by itself; a forgotten controller stays out | `BtLink` |
| Output report queue, `bt.cpp` | `send_fifo`, BTstack's can-send-now request | `bt_write`, CAN_SEND_NOW, drain | lost wakeup; reports on the wrong link | `SendFifo` |
| Edge profiles, `dse.cpp` | unlock, prefetch, post-save cycle, gate | connect, profile write, `dse_task` | two cycles share one sequencer; timeouts on one timestamp; the gate opens, and only on a complete snapshot | `DseProfiles` |
| Wake, `wake.cpp` | suspended/resumed flags, FSM, power-off timer, grace | five callbacks, reconnect note, `wake_task` | races of suspend, resume, timeouts and presses; no power-off of a controller in use; every attempt ends | `Wake` |
| BOOTSEL gestures, `button_functions.cpp` | FSM, sample counters | 10 Hz poll | a failed read splits a hold; exactly one action per sequence | `Gestures` |
| USB mode and config, `usb_mode.cpp`, `config.cpp`, `cmd.cpp` | active mode, pending save, flash sector | toggle, retry every 2 s, save, load, the host's settings | power cut between erase and program; RAM and flash agree in the end | `UsbMode`, `ConfigBody`; with the button in `Panel` |
| USB presence, `bt.cpp:606, 679, 686`, `cmd.cpp:96-102`, `usb_mode.cpp:59-73` | device on or off the bus, and as what | disconnect, check answer, reconnect, mode change | a controller gets its device, and the right one; nothing on the bus without a controller unless wake is on | `UsbPresence` |
| Switch Pro protocol, `switch_pro_protocol.cpp`, `switch_pro_usb.cpp` | ready, initialised, one response slot, last input | output reports, `next_report` | commands faster than replies; stale input | `SwitchPro`, conversions in `SwitchData` |
| Switch rumble, `switch_rumble*.cpp`, `switch_haptics_synth.cpp` | last rumble, pacing, timeout, silence tail | apply, task, stop | rumble ends when its host does, although packets are dropped | `SwitchRumble`, arithmetic in `SwitchData` |
| Audio, `audio.cpp` | three queues of two places | producers on both cores, drop-oldest | core 0 and core 1 race on a full queue | `MicPath`, `SpeakerPath`, refining `LossyQueue` |
| LED, `battery_led.cpp`, `bt_inquiring_led` | blink states, one pin | reports, ticks, link events, settings | five writers of one pin | `Led` |
| PS shortcut, `ps_shortcut.cpp` | press times, release pending | tick per report | a key left down | `PsShortcut` |
| Parsing, `dualsense_parser.cpp` | none | parse | boundary values, width of the arithmetic | `SwitchData` |
| Input reports, `main.cpp` | last report, `report_dirty` | `on_bt_data`, `interrupt_loop` | a report sent once and lost is a state lost | `HidInput` |
| Output state, `main.cpp`, `state_mgr.cpp`, `audio.cpp` | merged state, `spk_active` | output report, audio packet, setters | a state left to a packet that never comes | `HidOutput` |

## Modules

Each component has a module, an `MC...` module that TLC runs and, where something is proved of it, a
`...Proofs` module. Where components share state they are composed: `Panel` drives `UsbMode` with `Gestures`. Ten
components that share nothing but the main loop are run together by `MCComponents` (see Runs). In every component module, definitions whose name has an underscore
(`Refuse_WithoutDisconnect`) are faulty variants: a plausible bug of that definition that the
property named in `PROJECT.json` must catch. No specification uses them.

### BtLink: link, pairing and blacklist

Program state keeps its meaning and nearly its names: `current`, `found`, `newPair`,
`inquiring`, `acl`, `cid`, and for the blacklist `blocked` (RAM), `dirty`, `flash`. What BTstack
and the radio know is in `stage` (none, setup, up, authed, secure), `peer`, `dir`, `closing`, `chan`, `inquiry`,
`connectable`, `keys`, `refused`. There is one ACL link and one channel
per PSM because `btstack_config.h` allows no more.

One action per event of `hci_packet_handler` and `l2cap_packet_handler` that changes state. Some
points to know when comparing with the code:

- `ConnectionRequest` of a blacklisted address may still be followed by a link: BTstack
  accepts by itself and the handler's reject races with it (`bt.cpp:477-479`). The guard that counts is `Blacklisted`
  in `ConnectionComplete`.
- `InquiryComplete(natural)`: one event or two, depending on whether the inquiry ran out or was
  cancelled; only the second switches page scan on (`bt.cpp:433-437`).
- `CreateConnection` while another link is up is refused by BTstack in a later event (`refused`), and the
  handler of that event resets flags that now belong to the other link.
- A hold is four kinds of step, `Hold`, `HoldDeleteKey` per stored key, `HoldPersist`, because each
  of them writes a flash record; `phase = "deleting"` keeps all other handlers out
  in between and leaves `Reboot` possible.
- The evicted key in `StoreKey` is any key: BTstack's choice depends on ages the model does not keep.
- `Reboot` loses RAM and keeps `flash` and `keys`; each TLV record is written atomically by BTstack.

Left out: RSSI, log output, the LED pattern after a hold, the feature report cache
(`bt.cpp:846-908`), link key and PIN replies (`bt.cpp:509-545`), which answer and keep nothing.

### SendFifo: output reports

`bt_write` asks BTstack for one can-send-now event when the queue becomes non-empty, and each event
asks for the next: a chain that must never break. Reports are numbers in the order of the
`bt_write` calls; `first`, `sent`, `written` and `stalled` are history variables. A channel can open, close or fail to open while
the ACL link stays, and then the queue is not drained (only DISCONNECTION_COMPLETE drains it);
`stalled` marks that case, in which the code does lose its wakeup until the link ends. `NoLostWakeup`
says that this is the only case.

### DseProfiles: Edge profiles

One action `Task` for `dse_task` whose primed variables are the composition of its three blocks in
their order; `next`, `mark`, `getAge` are `prefetch_next`, `prefetch_mark_ready` and the age of
`prefetch_last_ms`. Ages instead of clock values keep the model finite: an age stops at the largest value it
is compared with. `Tick` may come any number of times between two turns of the loop.
`ctrl = "closed"` becomes `"gone"` when `dse_task` has seen it: a new control channel takes several radio round trips.

### Wake: waking and sleeping with the host

Ages as above. `bus`, `busAge`, `ready` and `f15` are the host's side; `MaskedSuspend` is a suspend
a hub hides. `Task` is `wake_task`: the deferred power-off, then the state machine with its early returns, only while wake is enabled, and only in DualSense mode
(`main.cpp:352`). `NoteUsbReconnect` is called for the host's reconnect command and for a mode change.
A send that fails does what an endpoint that is not ready does, since `wake_task` looks at the result (`sent`), so `ready` stands for both.
`downs` counts the F15 key-downs of a request; `offs` marks a step that called
`bt_power_off_controller`. `wake_on_bt_disconnect` is not modelled: nothing calls it.

### Gestures, UsbMode and Panel: the button, the mode and the flash

`Gestures` has one action, `Check`, for `button_check`: the finger is up or down, the read succeeds or fails
(`button_read_bootsel` returns "released" when the other core cannot be parked), and one of the four states of `button_fsm`
takes the sample. `samples` is the history of the gesture as read; `ActionOf` says what a sequence of samples stands for without any
state machine, and is the abstract specification that `ActionIsWhatWasRead` compares the code with at every sample.

`ConfigBody` is the table of `Config_body`'s fields with the ranges and defaults of `config_valid`.
`UsbMode` writes the sector in two steps, as `config_save` does: `BeginSave` erases, `Programmed` or `Misprogrammed` ends the call. `saving`
names the caller and keeps everything else out meanwhile; only `Reboot` can fall in between and finds the page erased, whole, or with
an intact mode record and a damaged body. `flash_safe_execute` may refuse before the erase. `Valid` covers both
faces of `config_valid`: a record of another version is treated as all ones. `spoilt` marks a failed save by the host, whose result `cmd.cpp:94` ignores.

`Panel` composes both: one sample and the whole action it sets off are one step. A triple click reboots. Click and hold act on
the Bluetooth link and are `BtLink`'s.

### SwitchPro, SwitchRumble and SwitchData: Switch mode

`SwitchPro`: a report is the number of the command it answers and the input it carries. `HostAsks` is
`switch_pro_usb_set_report` with a command that is answered, which overwrites the one slot; `SendResponse`, `Identify` and
`SendInput` are the three outcomes of `next_report` in their order. `Hand` is the call of `tud_hid_report` that follows (`switch_pro_usb.cpp:127-129`): `next_report`
has already cleared its slot or flag, so a report that the call does not take is gone. `dropped` marks an answer lost that way. `AnswerIsNotLost` and `LastCommandAnswered` take
the code's promise as it is: a command that is overtaken gets no answer, the last one gets its own unless that one call failed. `FreshInput` has no such
exception: the input that a failed call took is sent again when the interval has passed.

`SwitchRumble`: amplitude 0 or 1, since a packet is longer than the ramp. `TaskUnconnected`, `TaskIdle` and `TaskActive` are
the branches of `switch_rumble_adapter_task`; every packet may find the Bluetooth queue full (`MaxDrops` in a row). `loud` is what the controller plays.

`SwitchData` has no control: its one variable is a byte that takes all values, and `ConversionsSound` is about every
computation of that byte: sticks stay within 12 bits, are monotone and survive packing, opposite directions are never pressed
together, SPI reads stay within the table and the report, the amplitude table is monotone and the frequencies are within what the haptics stream
carries, a ramp ends at its target without overshoot, the products of the synthesiser fit 32 bits and its sum 8, and two bands at a gain of one never
clip. It has one part for each of these, so that each can be proved of more than the byte. Its sensor part claims that motion values keep their sign and fit 16 bits, and no more: the
repository's README calls motion unusable in Switch mode (`README.md:52, 127` at its root).

### HidInput and HidOutput: reports in DualSense mode

`HidInput` is `on_bt_data` and `interrupt_loop` with its two polling behaviours; `Report` is also the neutral report of a lost controller. `forgotten` marks
the one gap: the host re-enumerates, or the polling changes, when mode 2 has nothing left to send.

`HidOutput` keeps one value for each group of fields behind an Allow flag. `HostOutput` merges (`state_update`) and sends, or leaves the sending
to the audio packet while the speaker interface is open; a report too short for `state_update` merges nothing and the state is sent all the same. `lost` and `spk /\ ~streaming` name the cases in which nothing sends the state. Every
packet may find the Bluetooth queue full, the first one of a controller too, since a queue left by a lost interrupt channel is not drained.

### PsShortcut and Led

`PsShortcut`: `Report` is `ps_shortcut_tick`, with the key-up before the press logic as in the code, and a keyboard endpoint that can be busy at either.
`Tell` is a keyboard report whose result the code ignores: a press that is not taken is not typed, a release that is not taken leaves the keys down (`stuck`)
until the next press.
`Led` has one action for each writer of the pin, and `LinkComes` and `ChannelLost` for what changes the link without writing it: `linked` is
`hid_interrupt_cid # 0`, which the loss of the interrupt channel or a failed open clears (`bt.cpp:766-767, 788-790`), `acl` is the link whose end
switches the LED off. `misled` records that the last writer was one that does not look at the link
(a settings command without a controller, a stale blink). `LedSettles` is about a controller with its channels and about no link at all; between the two the LED
keeps what was last written.

### MicPath, SpeakerPath and LossyQueue: audio between the cores

Every queue call of the Pico SDK is atomic, but "full? remove, then add" is three of them, and the other core takes a
frame in between. `hand0` and `hand1` are the frames the cores hold. `LossyQueue` is what both paths promise: bounded, in order, nothing twice, the newest never
dropped while open, and no standstill while open. `MicIsLossyQueue` and `SpeakerIsLossyQueue` are the refinements, with the frames on their way (`Kept`) as mapping.

### UsbPresence

`shown` is the pull-up, `face` the device the host has enumerated; the host reads descriptors only when a device comes. `Answered` is the answer to
GET 0x70 (`bt.cpp:667-690`), `Lost` is the disconnect handler's `tud_disconnect`, with its exceptions for wake and for a sleeping host. `foreign` marks a controller of another
kind that came while the device stayed on the bus. A bus torn down may look suspended (`wake.cpp:130-131`), so `HostSleeps` needs no shown device; `missed` marks
a controller that answered then, which `bt.cpp` does not connect.

## Runs

| Run | Instance | Shows |
|---|---|---|
| `btlink_safety` | 3 controllers, 2 keys, symmetric | `TypeOK`, `NoStaleLink`, `UnownedLinkIsClosing`, `ReachableWhenIdle`, `InquiryLedHonest`, `FlashCoversBlacklist`, `BlockedPageNeedsInquiry` |
| `btlink_liveness` | 2 controllers, 1 key, fair | `RemovalPersists`, `UnwantedLinkEnds` |
| `btlink_hold` | 2 controllers, 1 key | **violated**: `HoldKeepsForgotten` |
| `btlink_wrong_mac` | 2 controllers, 1 key | **violated**: `PairUnblocksPeerOnly` |
| `send_fifo` | 2 places, 7 writes, fair | `NoLostWakeup`, `SentInOrderOnOwnLink`, `QueuedIsSent` |
| `dse` | 3 reports, scaled times, fair | `SnapshotComplete`, `QuietEdgeBecomesReady`, `SaveIsReplayed` |
| `dse_connected` | the same, loop never late | **violated**: `ConnectedEdgeBecomesReady` |
| `wake` | scaled times, 2 attempts, fair | `PowerOffOnlyAfterSleep`, `PowerOffNotInGrace`, `NoExtraF15`, `SleepPowersOff`, `KeyReleased`, `WakeEnds` |
| `wake_second_f15` | the same | **violated**: `SecondF15Sent` |
| `panel` | gestures of up to 3 presses and 1 failed read, 2 bodies, fair | `ActionIsWhatWasRead`, `SplitsNeedMissedReads`, `ModeSurvivesPowerCut`, `SavesEnd`, `ModeChangesByDoubleClick` |
| `parts` | ten components, see below, fair | `ConversionsSound`, `NothingIsLost`, `RumbleEnds`, `HostIsServed`, `OutputArrives`, `KeysComeUp`, `LedSettles`, `AudioPathsAreLossyQueues`, `ControllerIsShown` |
| `presence_deferred_hide` | complete | **violated**: `DeferredHideHappens` |

The passing runs also check their module's `TypeOK`. `parts` chooses one of its components in the initial state, which takes all steps of the
behaviour while the others rest: their states add up instead of multiplying, and nothing is lost because they share no variable. Each
component keeps its own properties and fairness (`MCComponents` only adds whose turn it is), so that a failure names its component in `part`.
`NothingIsLost` is the safety half of the liveness properties of `parts`, one conjunct per component: what has not arrived is on its way.

- `AnswerIsNotLost`: the answer to the last command is in the slot or the endpoint until it is read or a reset takes it, `dropped` aside; and no older answer follows it.
- `StopIsNotLost`: while the controller rumbles packets are to come, unless a whole silence tail, or the one packet of a mode change, was dropped.
- `ReportIsNotLost`: when polling mode 2 has nothing to send, the host has the last state or is about to read it, `forgotten` aside.
- `SettingsAreNotLost`: the merged state is what the host asked for, and with the speaker interface closed a connected controller has all of it, `lost` aside.
- `ReleaseIsNotLost`: no key is down without its release pending, `stuck` aside.
- `LedIsNotForgotten`: with the interrupt channel open, or without a link, a wrong LED is one a tick will put right, `misled` aside.
- `AnsweredIsShown`: a controller that has answered is on the bus, and as what it is, `foreign` and `missed` aside.

Bounds and why they suffice:

- *Controllers.* The code keeps one address, one link and one list. Two controllers give every confusion of two addresses, a third one
  lets a connected, a found and a paging controller differ.
- *Keys.* `MaxKeys` (4 in the build) only matters where it is reached: with 2 keys and 3 controllers the store
  evicts and a hold meets a full table.
- *Queue.* 2 places instead of 10: empty, one, full are the cases `bt_write` tells apart; 7 writes fill it on
  several links one after another. `MaxWrites` is the only bound of the model.
- *Times.* The cfgs keep the order of the code's constants. Wake: Hold 80 ms < Settle 150 ms, UpSettle 200 ms < Debounce 3 s < Timeout 5 s =
  Grace 5 s. DSE: Pace 80 ms <= SaveDelay 500 ms < PollStart 1 s < UnlockWait 4 s < RefetchAt 5.5 s; three reports instead of twelve. Panel: a hold is 2 samples
  (15 in the build), the click window 2 (5), the retry 1 tick. The proofs hold for
  every value that meets the named assumptions.
- *Gestures.* Three presses reach every case of `button_dispatch`, and one failed read splits a press at any sample of it.
- *Settings.* Two bodies: one of the right version with a field out of range and `enable_wake` set, and one of an older version. They reach the branches
  of `config_valid`; a body may be sent in part.
- *Switch mode.* Three commands fill, overwrite and empty the one slot; one bus reset. Rumble: two dropped packets, as many as the silence tail
  has, so that a tail can be lost completely. The conversions are checked for all 256 bytes.
- *Reports.* Two inputs, two changes; one failed call each for the input reports, the Switch reports and the keyboard (`MaxFailures`): one is enough to lose an answer,
  an input or a release, and leaves the recovery to be checked; two groups of output fields, one of them kept from the host by the configuration, one dropped packet.
- *Audio.* Queues of 2 as in the build; 7 (microphone) and 6 (speaker) frames: more than the path has room for, so every queue overflows.
- *LED, keys.* Two flashes; a debounce of 1, a long press of 3 and a release time of 1 tick.

Fairness, and what in the code justifies it:

- `DseProfiles`, `Wake`: the main loop calls `dse_task` and `wake_task` for ever (weak fairness of `Task`; `wake_task` in DualSense mode) and
  time passes (`Tick`). A host that is awake polls the keyboard endpoint (`EndpointFreed`); this
  assumes that the keyboard interface is enumerated, which is the case once the host has enumerated the device with wake enabled.
- `SendFifo`: BTstack delivers a requested can-send-now event while the channel is open.
- `BtLink`: the hold runs to its end and `button_check` is called again and again (weak fairness); after
  the bridge has sent a disconnect the completion event comes. That event is kept by BTstack while a hold blocks the loop, so it is
  strong fairness of `closing /\ Disconnected`. Nothing is assumed of
  controllers, inquiries or the user.
- `Panel`, `UsbMode`: the loop calls `usb_mode_task`, time passes, a write that was begun ends (weak). That a write succeeds in the end is strong fairness of
  `Programmed` and of an accepted `Task`: a flash that fails for ever is a broken one.
- `SwitchPro`, `SwitchRumble`, `HidInput`, `PsShortcut`, `Led`: the task each is called from runs for ever, the clock goes on, and a host reads what is in
  the endpoint (weak). `PsShortcut` needs strong fairness of a report that meets a free endpoint: a connected controller sends a report
  every few milliseconds, and the keyboard endpoint is polled more often than keys are typed.
- `HidOutput`: audio packets go on while the host streams. `MicPath`, `SpeakerPath`: each core runs on. `UsbPresence`: a controller
  that was asked for report 0x70 answers, or refuses, while it is connected.

## What the violations show

- `HoldKeepsForgotten`: `bt_bootsel_hold_action` rebuilds the blacklist from the keys stored now (`bt.cpp:304`). The
  controllers a first hold forgot have no key any more, so a second hold takes them off the list.
- `PairUnblocksPeerOnly`: at HID open `bt_blacklist_remove(current_device_addr)` may name
  a controller found or paging meanwhile (`bt.cpp:416, 593, 728`).
- `ConnectedEdgeBecomesReady`: a profile saved shortly before a reconnect makes the post-save `prefetch_start(false)` fall into the
  unlock prefetch of the new connection and clear its ready mark (`dse.cpp:139`); profile reads stay NAKed.
- `SecondF15Sent`: `key_attempts` is counted before the endpoint is tested (`wake.cpp:315`), so a busy endpoint costs the second F15.
- `DeferredHideHappens`: the comment at `bt.cpp:602-605` calls the hiding of the USB device deferred until the host is awake; the handler records
  nothing (`bt.cpp:606`), so the device stays on the bus without a controller.

Met while modelling, without a run of their own:

- The comment at `bt.cpp:281` says a click on a connected controller restarts the inquiry through the disconnect
  handler; that call is commented out (`bt.cpp:626-627`).
- A hold between ACL setup and HID open neither disconnects (`bt.cpp:334` looks at the interrupt channel) nor lasts: the HID
  open that follows takes the controller off the list again.
- A failed authentication (`bt.cpp:551-554`) drops a key and leaves the ACL link to the peer's patience.
- A controller lost during the prefetch leaves the profile gate closed (`dse.cpp:116-119`), one lost during the unlock
  wait opens it (`dse.cpp:152-155`).
- In Switch mode `wake_task` does not run but the callbacks do: a sleeping host's controller is not powered off, and a
  reconnecting controller wakes the host without F15.
- When the click window closes between two clicks, or a read fails inside a press, a gesture changes its meaning; `SplitsNeedMissedReads` bounds
  how far: an undisturbed press never toggles the mode.
- `config_save`'s result is ignored for the host's save (`cmd.cpp:94`): after a failed write the sector may load as DualSense mode and
  defaults until something is saved again (`spoilt`).
- `state_update` (`state_mgr.cpp:111-116`) and `set_volume` write volumes into the settings that `config_valid` would refuse; they are stored with
  the next save and replaced by the defaults at the next start.
- A volume of -20 dB set by the host reaches `set_volume` as 80 (`usb.cpp:74`), and is read back as -80 dB (`usb.cpp:115`).
- `switch_pro_usb_task` ignores the result of `tud_hid_report` (`switch_pro_usb.cpp:128`) after `next_report` has cleared the response: one failed call loses the answer
  to a command for good. The roadmap of the repository (`README.md:384` at its root) lists replies that are "resilient to endpoint backpressure" as still to do.
- `ps_shortcut_tick` ignores the result of its keyboard reports (`ps_shortcut.cpp:46, 59, 69`): a release that fails is not sent again.
- A controller that loses its interrupt channel and keeps its control channel leaves the LED as it was last written; an inquiry or a settings command may then
  leave it either way until the ACL link ends.
- A controller that answers while the bus of a device off the bus looks suspended is not shown (`bt.cpp:679, 686`), and nothing shows it later.
- The single silent packet of `switch_rumble_adapter_stop` (`switch_rumble_adapter.cpp:53-58`) may find the queue full; nothing repeats it (`stopLost`).
- A Win+G or Win+Tab is typed and the controller lost before its release: the keys stay down until it is back, since `ps_shortcut_reset` has no caller.
- `battery_led.cpp:41-44` expects no tick to arm a blink until a report comes on the next connection; the neutral report of the disconnect handler also passes `battery_led_note_report`.
- When the host pauses its stream with the speaker interface open, a state left to the next audio packet (`main.cpp:253`) waits as long as the pause; a state set by
  `set_config` or by a USB volume request is sent with the next report only.
- `usb_mode_apply_config` and the second `set_config` are called by nothing.

## Proofs

For every value of the constants, from the named assumptions of the modules only: `NoAddr` is no
address (`BtLink`); sizes, limits and times are natural numbers and queues have room (`SendFifo`, `MCComponents`); the order of the times where
an age is compared with two of them (`DseProfiles`, `Wake`); the state of a controller that is not there is one of the inputs (`MCComponents`); a hold is longer than one sample (`Panel`:
it is 15 in the build, and with 1 the code would act one sample late, since the first pressed sample only starts the count); what the host
sends as settings is a body (`Panel`).
Each proof has the same shape: the invariant holds initially, one step per action preserves it, and the
theorems follow. `tlapm --summary` counts the obligations.

| Module | Theorems | The strengthening, and why it is needed |
|---|---|---|
| `BtLinkProofs` | `TypeCorrect`, `HandlesAreFresh`, `UnknownLinkIsClosing`, `IdleIsReachable`, `BlinkIsHonest`, `CrashKeepsBlacklist`, `BlockedPageIsRefused`, `TablesFit`, `UnwantedIsClosed`, `PeerIsUnblocked` | an existing link has a peer and a found or linked address is a controller's; an authenticated link is owned; `new_pair` without a recorded link implies `device_found` (else a stale `new_pair` would let a blacklisted page in); page scan is on until a link is up; while a hold has not written its list yet, nothing is said of the flash; keys and both lists fit their arrays together, since each is filled from another |
| `SendFifoProofs` | `TypeCorrect`, `WakeupIsNotLost`, `ReportsInOrder`, `AcceptedIsSentOrLinkLost` | the queue is strictly increasing, above `sent`, at most `written`, and not below `first`; a queue that is not empty has a request and a channel id, or was stranded; lemmas about `Append` and `Tail` carry this over the queue operations |
| `DseProfilesProofs` | `TypeCorrect`, `GateOpensComplete`, `GateIsNotForgotten` | while the prefetch is marked, the reports asked for are exactly those below `next`; a mark or an unlock in progress belongs to the connected Edge, or to a channel whose loss `dse_task` has still to see; the check of an Edge is over only while its control channel is open |
| `WakeProofs` | `TypeCorrect`, `PowerOffIsSleep`, `ReconnectIsNoSleep`, `F15IsBounded`, `CountdownEndsInPowerOff`, `SecondF15IfFree` | a pending power-off has counted exactly the present suspend and no reconnect came since; the key-downs of a request are at most one more than the attempts counted; `host_suspended` is set whenever a power-off is pending |
| `PanelProofs` | `TypeCorrect`, `ActionsAreRead`, `PressesAreNotSplit`, `ModeChangesOnlyByDoubleClick`, `ModeIsStored`, `OwedSavesAreKept` | `GestureInv`, below; the mode in RAM, from which pages are written, is the active one, and a page is loaded as a mode whatever it holds |
| `AudioProofs` | `SpeakerTypeCorrect`, `SpeakerLosesAndKeepsOrder`, `MicTypeCorrect`, `MicLosesAndKeepsOrder` | `SpeakerInv` and `MicInv`: an order of all frames along the path |
| `ComponentsProofs` | `TypeCorrect`, `NothingIsLostEver`, `AnswersInOrder`, `AudioPathsLoseAndKeepOrder`, `ConversionsSoundEver` | one invariant per component, below |
| `DataProofs` | `ConversionsAreSound`, from `StickUnpacks`, `ButtonsKept`, `SpiStaysInside`, `AmplitudeRises`, `FrequencyRange`, `RampArrives`, `SineIsAWave`, `BandsDoNotClip` | none: no state, but induction, below |

*Gestures.* `ActionOf` reads the whole history of samples, `button_fsm` keeps a state and two counters. `MachineInv` ties each state to the shape
of the history: in "pressing" it ends with exactly `pressSamples` pressed samples after a released one, has one press more
than the clicks counted and holds no long press; in "wait" it ends with `waitSamples + 1` released ones; in "held" with a press that is long enough, and the hold
was acted on at the sample that made it so. The lemmas at the head of `PanelProofs` say what one more sample does to runs, presses and long presses of a sequence (`RunAppend`, `PressesAppend`, `HeldInAppend`); presses are
a cardinality, so they rest on the library's facts about finite sets, not on recursion. `SplitInv` counts: a press read while the finger is down
needs a touch or a missed read of its own, and one that is under way is not used up yet.

*Audio.* "Full? remove, then add" is three steps of one core with the other core taking in between, so the frame that is removed need not be the one that made the
queue full. What saves it is the order of all frames on their way: played, in the queue, in the hand of one core, in the next queue, in the hand of
the other, each older than the next. Whatever is dropped is then older than the frame in hand, and `Kept` holds at most the room the path has (lemmas `SpeakerHasRoom`,
`BothQueuesAreFew`: places plus hands). A core that found its queue not full may trust that a place is still free, since it alone adds to it; without that
clause the bound is not inductive.
Every step of a path is then one of `LossyQueue`'s or a stutter (`SpeakerStepIsQueueStep`, `MicStepIsQueueStep`).

*Components.* A step of `MCComponents` is a step of one part that leaves the others alone (`PartsStep`), so the conjunction of the parts' invariants is
inductive. What each needs beyond its conjunct of `NothingIsLost` and its types:
`ProInv`, that the slot holds the answer to the last command and no other, and the endpoint none that was not asked for; `RumbleInv`, that a controller which rumbles is connected,
and that packets dropped and silent packets left together make a whole tail while the target is silence (without it, the last silent packet could be
dropped with nothing to follow); `LedInv`, that a channel has its ACL link and nothing is low or blinks without one; `PresenceInv`, that the flag `is_dse` tells
the truth once the controller has answered.

*Conversions.* The run tries the 256 bytes; the theorems of `DataProofs` speak of all pairs of 12-bit coordinates, all three button bytes, all addresses and lengths,
all amplitudes, all phases and all targets. Three computations are loops in the code and recursive functions in `SwitchData` (the amplitude table,
the frequency table, the ramp). The library's induction theorems take an operator, which the provers cannot instantiate; instead, every set of numbers has a least
element (`LeastElement`), since the segments 1..n are well-founded under inclusion, and a set of counterexamples would have one. That a recursive function
obeys its own equation is shown the same way: up to each n one function follows the equation, and any two agree. Frequencies are bounded octave by octave: a step
multiplies by the 32nd root of two and rounds, so 32 of them double with a small error, which five squarings bound.

*The safety half of liveness.* A promise that something happens in the end has a part that says it is never given up meanwhile, and that part is proved:
`CountdownEndsInPowerOff` for `SleepPowersOff`, `UnwantedIsClosed` for `UnwantedLinkEnds`, `AcceptedIsSentOrLinkLost` for `QueuedIsSent`, `OwedSavesAreKept` for `SavesEnd`,
`CrashKeepsBlacklist` for `RemovalPersists` (the two lists differ only while a write is due or a hold is under way), `WakeupIsNotLost` and `NothingIsLostEver` for those of the reports and the parts. Fairness adds only that the step which is due comes.

*What the violations leave.* Three of the violated promises are kept unless exactly the event of their counterexample happens, and the theorems name it as their hypothesis:
`PeerIsUnblocked` when no other controller's event overwrites `current_device_addr` during a link (`AddressIsKept`), `GateIsNotForgotten` when no refetch after a save begins during
an unlock prefetch (`RefetchesKeepClear`; the safety half of `ConnectedEdgeBecomesReady`), `SecondF15IfFree` when each retry finds the endpoint free (`AttemptsFindEndpoint`). So each shows
that there is no second way to the violation. The hypotheses are met by ordinary use: one controller at a time, no reconnect right after a profile was saved, a host that polls the keyboard.

Only model-checked:

- all liveness properties: `RemovalPersists`, `UnwantedLinkEnds`, `QueuedIsSent`, `QuietEdgeBecomesReady`, `SaveIsReplayed`, `SleepPowersOff`, `KeyReleased`,
  `WakeEnds`, `SavesEnd`, `RumbleEnds`, `HostIsServed`, `OutputArrives`, `KeysComeUp`, `LedSettles`, `ControllerIsShown`. They rest on fairness and ENABLED, which the prover does
  not handle; safety halves as above;
- the fairness of `LossyQueue` in `AudioPathsAreLossyQueues`: its initial condition and steps are proved, that frames keep coming out is checked.

## Plan

1. A composition of `UsbPresence`, `Wake` and `BtLink`'s connection events: today `Wake` sees a deliberate reconnect as an action of its own, and
   `UsbPresence` a controller as one event.
2. The feature report cache (`bt.cpp:846-908`) with the gate of `dse.cpp`.

## Not modelled

- USB descriptors and `tusb_config.h`: constant tables. That the host reads them only at enumeration is in `UsbPresence`.
- Audio arithmetic: resampling, Opus, the sequence and mute bytes, `set_headset`.
- The CRC of the configuration record as a number: a record is valid or not. `pico_cmd_get` and `tud_hid_get_report_cb`, which read and keep nothing.
- The bytes of each Switch subcommand's answer beyond its kind, and the history of three motion samples.
- RSSI, log output, the LED flashes of the watchdog before the loop, the clock setup.
- `ram_mem.c` and `utils.h` but for `SetStateData`: memory routines, logging, checksums.
- Build files, `tests/` and `tools/`.
- BTstack, TinyUSB, the Pico SDK, the controllers and the host are environment: modelled by what the code in `src/` has to expect of them.
