-------------------------------- MODULE Led ---------------------------------
(***************************************************************************)
(* The onboard LED, one pin and five writers that do not know of each      *)
(* other: the link (bt.cpp: on with the interrupt channel, off with the    *)
(* end of the ACL link),                                                   *)
(* the blink of an inquiry and the flash that confirms a cleared blacklist *)
(* (bt_inquiring_led), the blink of a low battery (battery_led.cpp) and    *)
(* the host's settings (set_config).  Blinks take any time between two     *)
(* changes; a report goes stale after 2 s.                                 *)
(***************************************************************************)
EXTENDS Naturals

CONSTANTS MaxFlashes    \* bt_clear_flash_toggles_remaining of a flash: even

VARIABLES
  acl,         \* external: a controller has an ACL link
  linked,      \* hid_interrupt_cid # 0
  inquiring,   \* bt_inquiring
  ledStatus,   \* led_status of bt_inquiring_led
  flashes,     \* bt_clear_flash_toggles_remaining
  disabled,    \* config.disable_pico_led
  fresh,       \* a report came in the last 2 s (last_report_us)
  low,         \* the battery byte of interrupt_in_data is low
  blinking,    \* blinking of battery_led.cpp
  blinkOn,     \* led_state of battery_led.cpp
  pin,         \* the LED
  misled       \* history: the last writer had no regard for the link

vars == <<acl, linked, inquiring, ledStatus, flashes, disabled, fresh, low,
          blinking, blinkOn, pin, misled>>

TypeOK ==
  /\ acl \in BOOLEAN /\ linked \in BOOLEAN
  /\ inquiring \in BOOLEAN /\ ledStatus \in BOOLEAN
  /\ flashes \in 0..MaxFlashes /\ disabled \in BOOLEAN
  /\ fresh \in BOOLEAN /\ low \in BOOLEAN /\ blinking \in BOOLEAN
  /\ blinkOn \in BOOLEAN /\ pin \in BOOLEAN /\ misled \in BOOLEAN

Init ==
  /\ acl = FALSE /\ linked = FALSE /\ inquiring = FALSE /\ ledStatus = FALSE /\ flashes = 0
  /\ disabled \in BOOLEAN /\ fresh = FALSE /\ low = FALSE /\ blinking = FALSE
  /\ blinkOn = FALSE /\ pin = FALSE /\ misled = FALSE

-----------------------------------------------------------------------------
(* bt.cpp                                                                  *)

\* An ACL link comes up, the HID channels come later
LinkComes ==
  /\ ~acl /\ acl' = TRUE
  /\ UNCHANGED <<linked, inquiring, ledStatus, flashes, disabled, fresh, low,
                 blinking, blinkOn, pin, misled>>

\* HID open: a disabled LED is not written, although an inquiry may have left
\* it on
Opened ==
  /\ acl /\ ~linked /\ linked' = TRUE
  /\ pin' = (pin \/ ~disabled)
  /\ misled' = (disabled /\ pin)
  /\ UNCHANGED <<acl, inquiring, ledStatus, flashes, disabled, fresh, low,
                 blinking, blinkOn>>

\* L2CAP_EVENT_CHANNEL_CLOSED of the interrupt channel, or an open that failed:
\* hid_interrupt_cid is cleared and the LED is not written.  The ACL link stays
\* as long as the control channel does, and until the disconnect is complete.
ChannelLost ==
  /\ linked /\ linked' = FALSE
  /\ UNCHANGED <<acl, inquiring, ledStatus, flashes, disabled, fresh, low,
                 blinking, blinkOn, pin, misled>>

\* DISCONNECTION_COMPLETE, with a HID channel or without one:
\* battery_led_on_disconnect, and then a neutral report, whose battery is full
Disconnected ==
  /\ acl /\ acl' = FALSE /\ linked' = FALSE
  /\ pin' = FALSE /\ blinking' = FALSE /\ blinkOn' = FALSE /\ misled' = FALSE
  /\ fresh' = TRUE /\ low' = FALSE
  /\ UNCHANGED <<inquiring, ledStatus, flashes, disabled>>

StartInquiry ==
  /\ ~inquiring /\ inquiring' = TRUE
  /\ UNCHANGED <<acl, linked, ledStatus, flashes, disabled, fresh, low, blinking,
                 blinkOn, pin, misled>>

StopInquiry ==
  /\ inquiring /\ inquiring' = FALSE
  /\ UNCHANGED <<acl, linked, ledStatus, flashes, disabled, fresh, low, blinking,
                 blinkOn, pin, misled>>

\* bt_bootsel_hold_action
Cleared ==
  /\ flashes' = MaxFlashes
  /\ UNCHANGED <<acl, linked, inquiring, ledStatus, disabled, fresh, low,
                 blinking, blinkOn, pin, misled>>

\* bt_inquiring_led: the flash before all else, even over a link; nothing else
\* with a link; and off again and again after an inquiry.  (The faulty variant
\* leaves the LED as the inquiry left it.)
InquiringLed_LeavesPin ==
  /\ IF flashes > 0
       THEN /\ flashes' = flashes - 1
            /\ pin' = (flashes' % 2 = 1)
            /\ misled' = linked
            /\ UNCHANGED ledStatus
       ELSE /\ ~linked /\ inquiring
            /\ ledStatus' = ~ledStatus /\ pin' = ledStatus' /\ misled' = FALSE
            /\ UNCHANGED flashes
  /\ UNCHANGED <<acl, linked, inquiring, disabled, fresh, low, blinking, blinkOn>>

\* (Another counts the flash down past its end.)
InquiringLed_Underflows ==
  /\ flashes' = flashes - 1 /\ pin' = (flashes' % 2 = 1) /\ misled' = linked
  /\ UNCHANGED <<acl, linked, inquiring, ledStatus, disabled, fresh, low,
                 blinking, blinkOn>>

InquiringLed ==
  /\ IF flashes > 0
       THEN /\ flashes' = flashes - 1
            /\ pin' = (flashes' % 2 = 1)
            /\ misled' = linked
            /\ UNCHANGED ledStatus
       ELSE /\ ~linked
            /\ IF inquiring
                 THEN ledStatus' = ~ledStatus /\ pin' = ledStatus'
                 ELSE ledStatus /\ pin' = FALSE /\ UNCHANGED ledStatus
            /\ misled' = FALSE
            /\ UNCHANGED flashes
  /\ UNCHANGED <<acl, linked, inquiring, disabled, fresh, low, blinking, blinkOn>>

-----------------------------------------------------------------------------
(* battery_led.cpp and its reports                                         *)

Report ==
  /\ linked
  /\ fresh' = TRUE /\ low' \in BOOLEAN
  /\ UNCHANGED <<acl, linked, inquiring, ledStatus, flashes, disabled, blinking,
                 blinkOn, pin, misled>>

GoesStale ==
  /\ fresh /\ fresh' = FALSE
  /\ UNCHANGED <<acl, linked, inquiring, ledStatus, flashes, disabled, low,
                 blinking, blinkOn, pin, misled>>

\* battery_led_tick: a stale report ends a blink with the LED off, and no
\* report that is not low turns it on again
TickStale ==
  /\ ~fresh /\ blinking
  /\ blinking' = FALSE /\ blinkOn' = FALSE /\ pin' = FALSE /\ misled' = linked

TickLow ==
  /\ fresh /\ low
  /\ blinking' = TRUE
  /\ blinkOn' = (blinking => ~blinkOn) /\ pin' = blinkOn'
  /\ misled' = FALSE

TickRecovered ==
  /\ fresh /\ ~low /\ blinking
  /\ blinking' = FALSE /\ pin' = ~disabled /\ misled' = FALSE
  /\ UNCHANGED blinkOn

BatteryTick ==
  /\ TickStale \/ TickLow \/ TickRecovered
  /\ UNCHANGED <<acl, linked, inquiring, ledStatus, flashes, disabled, fresh, low>>

\* set_config lights the LED with a controller or without one
SetConfig ==
  /\ disabled' \in BOOLEAN
  /\ pin' = ~disabled' /\ misled' = (~linked /\ pin')
  /\ UNCHANGED <<acl, linked, inquiring, ledStatus, flashes, fresh, low, blinking,
                 blinkOn>>

Next ==
  \/ LinkComes \/ Opened \/ ChannelLost \/ Disconnected
  \/ StartInquiry \/ StopInquiry \/ Cleared
  \/ InquiringLed \/ Report \/ GoesStale \/ BatteryTick \/ SetConfig

\* The main loop calls both ticks again and again.
Spec ==
  /\ Init /\ [][Next]_vars /\ WF_vars(InquiringLed) /\ WF_vars(BatteryTick)

-----------------------------------------------------------------------------
\* What is wrong with the LED one of the ticks will put right: a blink of the
\* battery over a link, the rest of a flash or an inquiry without one.  A
\* controller whose interrupt channel alone is closed is the exception: the LED
\* stays as it was until the ACL link ends (bt.cpp:766, 789).
LedIsNotForgotten ==
  misled \/ /\ linked => blinking \/ (pin <=> ~disabled)
            /\ ~acl => (pin => ledStatus \/ flashes > 0)

\* When everything has come to rest, a controller with its channels or no ACL
\* link at all, the LED tells whether a controller is connected (off, if it is
\* disabled), in whatever order its writers came last; with the exceptions that
\* misled records, and not for a link whose interrupt channel is closed.
Rest(up) ==
  acl = up /\ linked = up /\ ~inquiring /\ flashes = 0 /\ ~low /\ ~misled

LedSettles ==
  \A up \in BOOLEAN : <>[]Rest(up) => <>[](pin = (up /\ ~disabled))
=============================================================================
