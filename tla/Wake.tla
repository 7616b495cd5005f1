-------------------------------- MODULE Wake --------------------------------
(***************************************************************************)
(* Waking and sleeping with the host (src/src/wake.cpp): a button press    *)
(* wakes a suspended host and types F15 so that it stays awake; a host     *)
(* that stays suspended has its controller powered off, unless the suspend *)
(* came from a reconnect the bridge made itself.                           *)
(*                                                                         *)
(* All entry points run on core 0, so each is one step.  Time is in ticks; *)
(* an age stands for now - <timestamp> and stops where no comparison can   *)
(* tell more.  bus, busAge, ready and f15 are external: the USB bus, how   *)
(* long it has been suspended, whether the keyboard endpoint is free, and  *)
(* the key as the host last saw it.                                        *)
(***************************************************************************)
EXTENDS Naturals

CONSTANTS
  Settle,     \* WAKE_SETTLE_US: host resumed -> key down
  Hold,       \* WAKE_KEY_HOLD_US: key down -> key up
  UpSettle,   \* WAKE_KEY_UP_SETTLE_US: key up -> next attempt
  Timeout,    \* WAKE_REQUEST_TIMEOUT_US: no resume after a request
  Debounce,   \* WAKE_POWEROFF_DEBOUNCE_US: suspend -> power off
  Grace,      \* WAKE_RECONNECT_GRACE_US
  Attempts    \* WAKE_KEY_ATTEMPTS

ASSUME TimesAssumption ==
  /\ Settle \in Nat /\ Hold \in Nat /\ UpSettle \in Nat
  /\ Attempts \in Nat \ {0}
  /\ Timeout \in Nat /\ Debounce \in Nat /\ Grace \in Nat \ {0}
  /\ Settle <= Timeout /\ Hold <= Timeout /\ UpSettle <= Timeout

Buttons == {"idle", "pressed"}   \* the three button bytes of a report
Armable == {"IDLE", "DONE", "PENDING_PRESS"}
Typing == {"KEY_DOWN", "KEY_UP_SENT"}

VARIABLES
  enable,        \* get_config().enable_wake
  dualsense,     \* ~usb_mode_is_switch()
  suspended,     \* host_suspended
  resumed,       \* host_resumed_event
  state, age,    \* state and now - state_entered_us
  attempts,      \* key_attempts
  prev,          \* prev_b7, prev_b8, prev_b9
  pending,       \* suspend_at_us # 0
  pendingAge,    \* now - suspend_at_us
  grace,         \* time left until reconnect_until_us
  bus, busAge, ready, f15, \* the host's side, see above
  downs,         \* history: F15 key-downs sent since the wake was requested
  offs           \* history: bt_power_off_controller was called by this step

settings == <<enable, dualsense>>
timeVars == <<age, pendingAge, grace, busAge>>
hostVars == <<bus, ready, f15>>
vars == <<settings, suspended, resumed, state, attempts, prev, pending,
          timeVars, hostVars, downs, offs>>

TypeOK ==
  /\ enable \in BOOLEAN /\ dualsense \in BOOLEAN
  /\ suspended \in BOOLEAN /\ resumed \in BOOLEAN
  /\ state \in Armable \cup Typing \cup {"REQUESTED"}
  /\ age \in 0..(Timeout + 1) /\ pendingAge \in 0..Debounce
  /\ busAge \in 0..Debounce /\ grace \in 0..Grace
  /\ attempts \in 0..Attempts /\ downs \in Nat
  /\ prev \in Buttons /\ pending \in BOOLEAN
  /\ bus \in {"active", "suspended"} /\ ready \in BOOLEAN
  /\ f15 \in {"up", "down"} /\ offs \in BOOLEAN

Init ==
  /\ enable \in BOOLEAN /\ dualsense \in BOOLEAN
  /\ suspended = FALSE /\ resumed = FALSE
  /\ state = "IDLE" /\ age = 0 /\ attempts = 0 /\ prev = "idle"
  /\ pending = FALSE /\ pendingAge = 0 /\ grace = 0
  /\ bus = "active" /\ busAge = 0 /\ ready = TRUE /\ f15 = "up"
  /\ downs = 0 /\ offs = FALSE

EnterState(s) == state' = s /\ age' = 0

\* request_host_wake: tud_remote_wakeup works (or not) on a suspended bus, and
\* is forced when suspend was reported.
RequestHostWake ==
  \E ok \in BOOLEAN :
    /\ ok => bus = "suspended"
    /\ IF ok \/ suspended
         THEN EnterState("REQUESTED") /\ downs' = 0
         ELSE UNCHANGED <<state, age, downs>>

-----------------------------------------------------------------------------
\* tud_suspend_cb: the bus goes idle and the stack reports it ...
SuspendCb ==
  /\ bus = "active"
  /\ bus' = "suspended" /\ busAge' = 0 /\ ready' = FALSE
  /\ IF grace > 0
       THEN UNCHANGED <<suspended, resumed, state, age, attempts, prev,
                        pending, pendingAge>>
       ELSE /\ pending' = TRUE /\ pendingAge' = 0
            /\ suspended' = TRUE
            /\ resumed' = FALSE
            /\ IF enable
                 THEN /\ EnterState("PENDING_PRESS")
                      /\ prev' = "idle" /\ attempts' = 0
                 ELSE UNCHANGED <<state, age, prev, attempts>>
  /\ offs' = FALSE
  /\ UNCHANGED <<settings, grace, f15, downs>>

\* ... or a hub hides it and no callback comes.
MaskedSuspend ==
  /\ bus = "active"
  /\ bus' = "suspended" /\ busAge' = 0 /\ ready' = FALSE
  /\ offs' = FALSE
  /\ UNCHANGED <<settings, suspended, resumed, state, age, attempts, prev,
                 pending, pendingAge, grace, f15, downs>>

\* tud_resume_cb, and tud_mount_cb (the host enumerates anew: its key state and
\* the endpoint are fresh and the grace ends)
HostBack(mount) ==
  /\ bus = "suspended" \/ mount
  /\ bus' = "active" /\ busAge' = 0
  /\ ready' \in BOOLEAN /\ (mount => ready')
  /\ suspended' = FALSE
  /\ resumed' = TRUE
  /\ pending' = FALSE /\ pendingAge' = 0
  /\ IF mount THEN grace' = 0 /\ f15' = "up" ELSE UNCHANGED <<grace, f15>>
  /\ offs' = FALSE
  /\ UNCHANGED <<settings, state, age, attempts, prev, downs>>

\* The faulty variants (names with an underscore) are the plausible bugs each
\* property is tried against; no specification uses them.
NoteUsbReconnect_KeepsPending ==
  /\ grace' = Grace
  /\ \/ dualsense /\ bus = "active" /\ UNCHANGED dualsense
     \/ dualsense' = ~dualsense
  /\ offs' = FALSE
  /\ UNCHANGED <<enable, suspended, resumed, state, age, attempts, prev,
                 pending, pendingAge, busAge, hostVars, downs>>

\* wake_note_usb_reconnect, called for the host's reconnect command, which
\* Switch mode does not take, and for a double click, which changes the mode
NoteUsbReconnect ==
  /\ grace' = Grace
  /\ pending' = FALSE /\ pendingAge' = 0
  /\ \/ dualsense /\ bus = "active" /\ UNCHANGED dualsense
     \/ dualsense' = ~dualsense
  /\ offs' = FALSE
  /\ UNCHANGED <<enable, suspended, resumed, state, age, attempts, prev,
                 busAge, hostVars, downs>>

\* wake_on_bt_connect
OnBtConnect ==
  /\ enable /\ suspended /\ state \in Armable
  /\ RequestHostWake
  /\ offs' = FALSE
  /\ UNCHANGED <<settings, suspended, resumed, attempts, prev, pending,
                 pendingAge, grace, busAge, hostVars>>

\* wake_on_bt_input, which on_bt_data does not reach in Switch mode
OnBtInput(b) ==
  /\ enable /\ dualsense
  /\ prev' = b
  /\ IF b # prev /\ state \in Armable
       THEN RequestHostWake
       ELSE UNCHANGED <<state, age, downs>>
  /\ offs' = FALSE
  /\ UNCHANGED <<settings, suspended, resumed, attempts, pending, pendingAge,
                 grace, busAge, hostVars>>

\* enable_wake set over the config channel, by a host that is awake
SetEnable ==
  /\ dualsense /\ bus = "active"
  /\ enable' = ~enable
  /\ offs' = FALSE
  /\ UNCHANGED <<dualsense, suspended, resumed, state, attempts, prev, pending,
                 timeVars, hostVars, downs>>

-----------------------------------------------------------------------------
(* wake_task                                                               *)

PowerOffDue_AtOnce == pending /\ suspended
PowerOffDue_WakeOnly ==
  pending /\ suspended /\ pendingAge >= Debounce /\ enable
PowerOffDue == pending /\ suspended /\ pendingAge >= Debounce

\* A report on a free endpoint; it is taken and the endpoint is busy.  One that is
\* not taken changes nothing, as if the endpoint were not ready: the code looks at
\* the result (sent).
SendKey(k) == f15' = k /\ ready' = FALSE
KeyDown == SendKey("down") /\ EnterState("KEY_DOWN") /\ downs' = downs + 1
Wait == UNCHANGED <<ready, f15, state, age, downs>>

TaskRequested_NoTimeout ==
  /\ state = "REQUESTED" /\ UNCHANGED attempts
  /\ \/ /\ resumed \/ ~suspended
        /\ resumed' = FALSE
        /\ IF age >= Settle /\ ready THEN KeyDown ELSE Wait
     \/ ~resumed /\ suspended /\ Wait /\ UNCHANGED resumed

\* WAKE_REQUESTED: key down once the host is back and has settled
TaskRequested ==
  /\ state = "REQUESTED" /\ UNCHANGED attempts
  /\ \/ /\ resumed \/ ~suspended
        /\ resumed' = FALSE
        /\ IF age >= Settle /\ ready THEN KeyDown ELSE Wait
     \/ /\ ~resumed /\ suspended
        /\ IF age > Timeout
             THEN EnterState("DONE") ELSE UNCHANGED <<state, age>>
        /\ UNCHANGED <<resumed, ready, f15, downs>>

TaskKeyDown_NoKeyUp ==
  /\ state = "KEY_DOWN"
  /\ IF age >= Hold THEN EnterState("KEY_UP_SENT") ELSE UNCHANGED <<state, age>>
  /\ UNCHANGED <<resumed, attempts, ready, f15, downs>>

\* WAKE_KEY_DOWN: key up after the hold time
TaskKeyDown ==
  /\ state = "KEY_DOWN" /\ UNCHANGED <<resumed, attempts, downs>>
  /\ IF age >= Hold /\ ready
       THEN SendKey("up") /\ EnterState("KEY_UP_SENT")
       ELSE UNCHANGED <<ready, f15, state, age>>

TaskKeyUpSent_OneTooMany ==
  /\ state = "KEY_UP_SENT" /\ UNCHANGED resumed
  /\ \/ age < UpSettle /\ Wait /\ UNCHANGED attempts
     \/ /\ age >= UpSettle /\ attempts < Attempts
        /\ attempts' = attempts + 1
        /\ IF ready THEN KeyDown ELSE Wait
     \/ /\ age >= UpSettle /\ attempts >= Attempts
        /\ EnterState("DONE") /\ attempts' = 0
        /\ UNCHANGED <<ready, f15, downs>>

TaskKeyUpSent_NoReset ==
  /\ state = "KEY_UP_SENT" /\ UNCHANGED resumed
  /\ \/ age < UpSettle /\ Wait /\ UNCHANGED attempts
     \/ /\ age >= UpSettle
        /\ attempts' = attempts + 1
        /\ IF attempts' >= Attempts
             THEN EnterState("DONE") /\ UNCHANGED <<ready, f15, downs>>
             ELSE IF ready THEN KeyDown ELSE Wait

\* WAKE_KEY_UP_SENT: the attempt is counted before the endpoint is looked at
TaskKeyUpSent ==
  /\ state = "KEY_UP_SENT" /\ UNCHANGED resumed
  /\ \/ age < UpSettle /\ Wait /\ UNCHANGED attempts
     \/ /\ age >= UpSettle /\ attempts + 1 < Attempts
        /\ attempts' = attempts + 1
        /\ IF ready THEN KeyDown ELSE Wait
     \/ /\ age >= UpSettle /\ attempts + 1 >= Attempts
        /\ EnterState("DONE") /\ attempts' = 0
        /\ UNCHANGED <<ready, f15, downs>>

\* The main loop calls it in DualSense mode only.
Task ==
  /\ dualsense
  /\ offs' = PowerOffDue
  /\ pending' = (pending /\ ~PowerOffDue)
  /\ pendingAge' = IF PowerOffDue THEN 0 ELSE pendingAge
  /\ IF enable /\ state \notin Armable
       THEN TaskRequested \/ TaskKeyDown \/ TaskKeyUpSent
       ELSE UNCHANGED <<resumed, state, age, attempts, ready, f15, downs>>
  /\ UNCHANGED <<settings, suspended, prev, grace, bus, busAge>>

\* The host polls the keyboard endpoint.
EndpointFreed ==
  /\ bus = "active" /\ ~ready
  /\ ready' = TRUE
  /\ offs' = FALSE
  /\ UNCHANGED <<settings, suspended, resumed, state, attempts, prev, pending,
                 timeVars, bus, f15, downs>>

Older(a, limit) == IF a < limit THEN a + 1 ELSE a

Tick ==
  /\ age' = Older(age, Timeout + 1)
  /\ pendingAge' = IF pending THEN Older(pendingAge, Debounce) ELSE 0
  /\ busAge' = IF bus = "suspended" THEN Older(busAge, Debounce) ELSE 0
  /\ grace' = IF grace > 0 THEN grace - 1 ELSE 0
  /\ offs' = FALSE
  /\ UNCHANGED <<settings, suspended, resumed, state, attempts, prev, pending,
                 hostVars, downs>>

Next ==
  \/ SuspendCb
  \/ MaskedSuspend
  \/ \E mount \in BOOLEAN : HostBack(mount)
  \/ NoteUsbReconnect
  \/ OnBtConnect
  \/ \E b \in Buttons : OnBtInput(b)
  \/ SetEnable
  \/ Task
  \/ EndpointFreed
  \/ Tick

Spec == Init /\ [][Next]_vars

\* The main loop turns (Task in DualSense mode), time passes and an active
\* host polls the endpoint.
FairSpec == Spec /\ WF_vars(Task) /\ WF_vars(Tick) /\ WF_vars(EndpointFreed)
-----------------------------------------------------------------------------
(* Properties                                                              *)

\* The controller is powered off only after a whole debounce of unbroken
\* suspend: a resume or a mount that came first has cancelled it
\* (wake.cpp:137-139, 234-237).
PowerOffOnlyAfterSleep == offs => bus = "suspended" /\ busAge = Debounce

\* The suspend a deliberate USB reconnect causes never powers the controller
\* off, and neither does one that was already counting down
\* (wake.cpp:120-121, 130-132).
PowerOffNotInGrace == offs => grace = 0

\* One wake request types F15 at most WAKE_KEY_ATTEMPTS times, whatever
\* suspends, resumes and endpoint stalls fall between the attempts.
NoExtraF15 == downs <= Attempts

\* F15 does not stay down on an awake host: a key-down is followed by its
\* key-up unless the host sleeps first, or wake or DualSense mode is left.
KeyReleased ==
  (state = "KEY_DOWN" /\ f15 = "down") ~>
     (f15 = "up" \/ bus = "suspended" \/ ~enable \/ ~dualsense)

\* A host that stays asleep has its controller powered off, whether wake is
\* enabled or not (wake.cpp:137-140), while the bridge is in DualSense mode.
SleepPowersOff ==
  pending ~> offs \/ bus = "active" \/ grace > 0 \/ ~dualsense

\* A wake attempt ends, so that the next press can wake the host again.  It
\* may hang only while a suspend that was not reported, or was reported with
\* wake off, lasts.
WakeEnds ==
  state \notin Armable ~>
     \/ state \in Armable \/ ~enable \/ ~dualsense
     \/ bus = "suspended" /\ ~(suspended /\ state = "REQUESTED")

\* The comments promise a second F15 (wake.cpp:22-25) and, when the endpoint is
\* not ready, a wait until it is (wake.cpp:317-321).
SecondF15Sent ==
  [][state = "KEY_UP_SENT" /\ state' = "DONE" => downs = Attempts]_vars
=============================================================================
