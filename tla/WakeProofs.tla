----------------------------- MODULE WakeProofs -----------------------------
(***************************************************************************)
(* The power-off and the F15 key of Wake, for any times and any number of  *)
(* attempts.                                                               *)
(***************************************************************************)
EXTENDS Wake, TLAPS

\* The type invariant in three parts, which the provers take one at a time.
FlagsOK ==
  /\ enable \in BOOLEAN /\ dualsense \in BOOLEAN
  /\ suspended \in BOOLEAN /\ resumed \in BOOLEAN
  /\ pending \in BOOLEAN /\ ready \in BOOLEAN /\ offs \in BOOLEAN

NamesOK ==
  /\ state \in Armable \cup Typing \cup {"REQUESTED"}
  /\ prev \in Buttons /\ bus \in {"active", "suspended"}
  /\ f15 \in {"up", "down"}

TimesOK ==
  /\ age \in 0..(Timeout + 1) /\ pendingAge \in 0..Debounce
  /\ busAge \in 0..Debounce /\ grace \in 0..Grace
  /\ attempts \in 0..Attempts /\ downs \in Nat

LEMMA TypeParts == TypeOK <=> FlagsOK /\ NamesOK /\ TimesOK
BY DEF TypeOK, FlagsOK, NamesOK, TimesOK

\* A pending power-off counts the suspend that is still going on, and no
\* reconnect has started since.
PendingIsSleep ==
  pending => bus = "suspended" /\ busAge = pendingAge /\ grace = 0

\* Each key-down of a request is paid for by an attempt.
AttemptsCount ==
  /\ state \notin Typing => attempts = 0
  /\ state = "REQUESTED" => downs = 0
  /\ state \in Typing => downs <= attempts + 1 /\ attempts < Attempts

IInv ==
  /\ FlagsOK /\ NamesOK /\ TimesOK
  /\ PendingIsSleep
  /\ PowerOffOnlyAfterSleep
  /\ PowerOffNotInGrace
  /\ AttemptsCount
  /\ NoExtraF15

LEMMA InitEstablishes == Init => IInv
<1>. USE DEF Init
<1>1. Init => FlagsOK
  BY Zenon DEF FlagsOK
<1>2. Init => NamesOK
  BY DEF NamesOK, Typing, Armable, Buttons
<1>3. Init => TimesOK
  BY TimesAssumption DEF TimesOK
<1>4. Init => PendingIsSleep /\ PowerOffOnlyAfterSleep /\ PowerOffNotInGrace
  BY DEF PendingIsSleep, PowerOffOnlyAfterSleep, PowerOffNotInGrace
<1>5. Init => AttemptsCount /\ NoExtraF15
  BY TimesAssumption DEF AttemptsCount, NoExtraF15, Typing
<1>. QED
  BY <1>1, <1>2, <1>3, <1>4, <1>5 DEF IInv

LEMMA OlderType ==
  ASSUME NEW limit \in Nat, NEW a \in 0..limit
  PROVE  Older(a, limit) \in 0..limit
BY DEF Older

\* A wake request starts the count anew, or changes nothing.
LEMMA RequestKeeps ==
  ASSUME IInv, RequestHostWake, state \in Armable, UNCHANGED attempts
  PROVE  /\ state' \in Armable \cup {"REQUESTED"}
         /\ age' \in 0..(Timeout + 1)
         /\ downs' \in Nat
         /\ (AttemptsCount /\ NoExtraF15)'
<1>1. CASE EnterState("REQUESTED") /\ downs' = 0
  BY <1>1, TimesAssumption
  DEF IInv, TimesOK, EnterState, AttemptsCount, NoExtraF15, Typing, Armable
<1>2. CASE UNCHANGED <<state, age, downs>>
  BY <1>2 DEF IInv, TimesOK, AttemptsCount, NoExtraF15
<1>. QED
  BY <1>1, <1>2 DEF RequestHostWake

\* What one turn of the wake-up state machine keeps.
LEMMA TypingKeeps ==
  ASSUME IInv, TaskRequested \/ TaskKeyDown \/ TaskKeyUpSent
  PROVE  /\ ready' \in BOOLEAN /\ resumed' \in BOOLEAN
         /\ state' \in Armable \cup Typing \cup {"REQUESTED"}
         /\ f15' \in {"up", "down"}
         /\ age' \in 0..(Timeout + 1)
         /\ attempts' \in 0..Attempts
         /\ downs' \in Nat
         /\ (AttemptsCount /\ NoExtraF15)'
<1>. DEFINE Kept == UNCHANGED <<state, age, downs>> /\ UNCHANGED <<ready, f15>>
            Down == state' = "KEY_DOWN" /\ age' = 0 /\ downs' = downs + 1
                      /\ f15' = "down" /\ ready' = FALSE
            Up == state' = "KEY_UP_SENT" /\ age' = 0 /\ downs' = downs
                      /\ f15' = "up" /\ ready' = FALSE
            Done == state' = "DONE" /\ age' = 0 /\ downs' = downs
                      /\ UNCHANGED <<ready, f15>>
<1>1. \/ state = "REQUESTED" /\ attempts' = attempts /\ (Down \/ Kept \/ Done)
      \/ state = "KEY_DOWN" /\ attempts' = attempts /\ (Up \/ Kept)
      \/ /\ state = "KEY_UP_SENT"
         /\ \/ attempts' = attempts /\ Kept
            \/ attempts + 1 < Attempts /\ attempts' = attempts + 1
                 /\ (Down \/ Kept)
            \/ attempts' = 0 /\ Done
  BY DEF TaskRequested, TaskKeyDown, TaskKeyUpSent, EnterState, SendKey,
         KeyDown, Wait
<1>2. ready' \in BOOLEAN /\ f15' \in {"up", "down"}
  BY <1>1 DEF IInv, FlagsOK, NamesOK
<1>3. resumed' \in BOOLEAN
  BY DEF TaskRequested, TaskKeyDown, TaskKeyUpSent, IInv, FlagsOK
<1>4. /\ state' \in Armable \cup Typing \cup {"REQUESTED"}
      /\ age' \in 0..(Timeout + 1)
  BY <1>1, TimesAssumption DEF IInv, NamesOK, TimesOK, Armable, Typing
<1>5. /\ attempts' \in 0..Attempts /\ downs' \in Nat
      /\ (AttemptsCount /\ NoExtraF15)'
  BY <1>1, TimesAssumption DEF IInv, TimesOK, AttemptsCount, NoExtraF15, Typing
<1>. QED
  BY <1>2, <1>3, <1>4, <1>5

LEMMA TaskPreserves ==
  ASSUME IInv, Task
  PROVE  IInv'
<1>1. UNCHANGED <<enable, dualsense, suspended, prev, grace, bus, busAge>>
  BY DEF Task, settings
<1>2. offs' \in BOOLEAN /\ pending' \in BOOLEAN
  BY Zenon DEF Task, PowerOffDue
<1>3. pendingAge' \in 0..Debounce
  BY TimesAssumption DEF Task, IInv, TimesOK
<1>4. PendingIsSleep'
  BY <1>1 DEF Task, IInv, PendingIsSleep
<1>5. (PowerOffOnlyAfterSleep /\ PowerOffNotInGrace)'
  <2>1. offs' => pending /\ pendingAge >= Debounce
    BY Zenon DEF Task, PowerOffDue
  <2>2. pendingAge >= Debounce => pendingAge = Debounce
    BY TimesAssumption DEF IInv, TimesOK
  <2>. QED
    BY <1>1, <2>1, <2>2
    DEF IInv, PendingIsSleep, PowerOffOnlyAfterSleep, PowerOffNotInGrace
<1>6. CASE enable /\ state \notin Armable
  <2>1. TaskRequested \/ TaskKeyDown \/ TaskKeyUpSent
    BY <1>6 DEF Task
  <2>. QED
    BY <1>1, <1>2, <1>3, <1>4, <1>5, <2>1, TypingKeeps
    DEF IInv, FlagsOK, NamesOK, TimesOK
<1>7. CASE ~(enable /\ state \notin Armable)
  <2>1. UNCHANGED <<resumed, state, age, attempts, ready, f15, downs>>
    BY <1>7 DEF Task
  <2>. QED
    BY <1>1, <1>2, <1>3, <1>4, <1>5, <2>1
    DEF IInv, FlagsOK, NamesOK, TimesOK, AttemptsCount, NoExtraF15
<1>. QED
  BY <1>6, <1>7

LEMMA StepPreserves == IInv /\ [Next]_vars => IInv'
<1> SUFFICES ASSUME IInv, [Next]_vars PROVE IInv'
  OBVIOUS
<1>. USE DEF settings, timeVars, hostVars
<1>1. CASE SuspendCb
  <2>1. FlagsOK'
    BY <1>1 DEF SuspendCb, IInv, FlagsOK
  <2>2. NamesOK'
    BY <1>1 DEF SuspendCb, EnterState, IInv, NamesOK, Armable, Buttons
  <2>3. TimesOK'
    BY <1>1, TimesAssumption DEF SuspendCb, EnterState, IInv, TimesOK
  <2>4. (PendingIsSleep /\ PowerOffOnlyAfterSleep /\ PowerOffNotInGrace)'
    <3>1. pending' => pending \/ (grace = 0 /\ pendingAge' = 0)
      <4>1. grace > 0 \/ grace = 0
        BY TimesAssumption DEF IInv, TimesOK
      <4>2. CASE grace > 0
        BY <1>1, <4>2 DEF SuspendCb
      <4>3. CASE grace = 0
        BY <1>1, <4>3 DEF SuspendCb
      <4>. QED
        BY <4>1, <4>2, <4>3
    <3>2. ~pending /\ grace' = grace /\ bus' = "suspended" /\ busAge' = 0
            /\ offs' = FALSE
      BY <1>1 DEF SuspendCb, IInv, PendingIsSleep
    <3>. QED
      BY <3>1, <3>2
      DEF PendingIsSleep, PowerOffOnlyAfterSleep, PowerOffNotInGrace
  <2>5. (AttemptsCount /\ NoExtraF15)'
    BY <1>1 DEF SuspendCb, EnterState, IInv, AttemptsCount, NoExtraF15, Typing
  <2>. QED
    BY <2>1, <2>2, <2>3, <2>4, <2>5 DEF IInv
<1>2. CASE MaskedSuspend
  <2>1. FlagsOK'
    BY <1>2 DEF MaskedSuspend, IInv, FlagsOK
  <2>2. NamesOK'
    BY <1>2 DEF MaskedSuspend, IInv, NamesOK
  <2>3. TimesOK'
    BY <1>2, TimesAssumption DEF MaskedSuspend, IInv, TimesOK
  <2>4. (PendingIsSleep /\ PowerOffOnlyAfterSleep /\ PowerOffNotInGrace)'
    BY <1>2
    DEF MaskedSuspend, IInv, PendingIsSleep, PowerOffOnlyAfterSleep,
        PowerOffNotInGrace
  <2>5. (AttemptsCount /\ NoExtraF15)'
    BY <1>2 DEF MaskedSuspend, IInv, AttemptsCount, NoExtraF15
  <2>. QED
    BY <2>1, <2>2, <2>3, <2>4, <2>5 DEF IInv
<1>3. ASSUME NEW mount \in BOOLEAN, HostBack(mount) PROVE IInv'
  <2>1. FlagsOK'
    BY <1>3 DEF HostBack, IInv, FlagsOK
  <2>2. NamesOK'
    BY <1>3 DEF HostBack, IInv, NamesOK
  <2>3. TimesOK'
    BY <1>3, TimesAssumption DEF HostBack, IInv, TimesOK
  <2>4. (PendingIsSleep /\ PowerOffOnlyAfterSleep /\ PowerOffNotInGrace)'
    BY <1>3
    DEF HostBack, IInv, PendingIsSleep, PowerOffOnlyAfterSleep,
        PowerOffNotInGrace
  <2>5. (AttemptsCount /\ NoExtraF15)'
    BY <1>3 DEF HostBack, IInv, AttemptsCount, NoExtraF15
  <2>. QED
    BY <2>1, <2>2, <2>3, <2>4, <2>5 DEF IInv
<1>4. CASE NoteUsbReconnect
  <2>1. FlagsOK'
    BY <1>4 DEF NoteUsbReconnect, IInv, FlagsOK
  <2>2. NamesOK'
    BY <1>4 DEF NoteUsbReconnect, IInv, NamesOK
  <2>3. TimesOK'
    BY <1>4, TimesAssumption DEF NoteUsbReconnect, IInv, TimesOK
  <2>4. (PendingIsSleep /\ PowerOffOnlyAfterSleep /\ PowerOffNotInGrace)'
    BY <1>4
    DEF NoteUsbReconnect, IInv, PendingIsSleep, PowerOffOnlyAfterSleep,
        PowerOffNotInGrace
  <2>5. (AttemptsCount /\ NoExtraF15)'
    BY <1>4 DEF NoteUsbReconnect, IInv, AttemptsCount, NoExtraF15
  <2>. QED
    BY <2>1, <2>2, <2>3, <2>4, <2>5 DEF IInv
<1>5. CASE OnBtConnect
  <2>1. RequestHostWake /\ state \in Armable /\ UNCHANGED attempts
    BY <1>5 DEF OnBtConnect
  <2>. QED
    BY <1>5, <2>1, RequestKeeps
    DEF OnBtConnect, IInv, FlagsOK, NamesOK, TimesOK, PendingIsSleep,
        PowerOffOnlyAfterSleep, PowerOffNotInGrace
<1>6. ASSUME NEW b \in Buttons, OnBtInput(b) PROVE IInv'
  <2>1. CASE b # prev /\ state \in Armable
    <3>1. RequestHostWake /\ UNCHANGED attempts
      BY <1>6, <2>1 DEF OnBtInput
    <3>. QED
      BY <1>6, <2>1, <3>1, RequestKeeps
      DEF OnBtInput, IInv, FlagsOK, NamesOK, TimesOK, PendingIsSleep,
          PowerOffOnlyAfterSleep, PowerOffNotInGrace
  <2>2. CASE ~(b # prev /\ state \in Armable)
    BY <1>6, <2>2
    DEF OnBtInput, IInv, FlagsOK, NamesOK, TimesOK, PendingIsSleep,
        PowerOffOnlyAfterSleep, PowerOffNotInGrace, AttemptsCount, NoExtraF15
  <2>. QED
    BY <2>1, <2>2
<1>7. CASE SetEnable
  <2>1. FlagsOK'
    BY <1>7 DEF SetEnable, IInv, FlagsOK
  <2>2. NamesOK'
    BY <1>7 DEF SetEnable, IInv, NamesOK
  <2>3. TimesOK'
    BY <1>7, TimesAssumption DEF SetEnable, IInv, TimesOK
  <2>4. (PendingIsSleep /\ PowerOffOnlyAfterSleep /\ PowerOffNotInGrace)'
    BY <1>7
    DEF SetEnable, IInv, PendingIsSleep, PowerOffOnlyAfterSleep,
        PowerOffNotInGrace
  <2>5. (AttemptsCount /\ NoExtraF15)'
    BY <1>7 DEF SetEnable, IInv, AttemptsCount, NoExtraF15
  <2>. QED
    BY <2>1, <2>2, <2>3, <2>4, <2>5 DEF IInv
<1>8. CASE Task
  BY <1>8, TaskPreserves
<1>9. CASE EndpointFreed
  <2>1. FlagsOK'
    BY <1>9 DEF EndpointFreed, IInv, FlagsOK
  <2>2. NamesOK'
    BY <1>9 DEF EndpointFreed, IInv, NamesOK
  <2>3. TimesOK'
    BY <1>9, TimesAssumption DEF EndpointFreed, IInv, TimesOK
  <2>4. (PendingIsSleep /\ PowerOffOnlyAfterSleep /\ PowerOffNotInGrace)'
    BY <1>9
    DEF EndpointFreed, IInv, PendingIsSleep, PowerOffOnlyAfterSleep,
        PowerOffNotInGrace
  <2>5. (AttemptsCount /\ NoExtraF15)'
    BY <1>9 DEF EndpointFreed, IInv, AttemptsCount, NoExtraF15
  <2>. QED
    BY <2>1, <2>2, <2>3, <2>4, <2>5 DEF IInv
<1>10. CASE Tick
  <2>1. FlagsOK'
    BY <1>10 DEF Tick, IInv, FlagsOK
  <2>2. NamesOK'
    BY <1>10 DEF Tick, IInv, NamesOK
  <2>3. TimesOK'
    BY <1>10, OlderType, TimesAssumption DEF Tick, IInv, TimesOK
  <2>4. (PendingIsSleep /\ PowerOffOnlyAfterSleep /\ PowerOffNotInGrace)'
    BY <1>10
    DEF Tick, IInv, PendingIsSleep, PowerOffOnlyAfterSleep, PowerOffNotInGrace
  <2>5. (AttemptsCount /\ NoExtraF15)'
    BY <1>10 DEF Tick, IInv, AttemptsCount, NoExtraF15
  <2>. QED
    BY <2>1, <2>2, <2>3, <2>4, <2>5 DEF IInv
<1>11. CASE UNCHANGED vars
  <2>1. FlagsOK'
    BY <1>11 DEF vars, IInv, FlagsOK
  <2>2. NamesOK'
    BY <1>11 DEF vars, IInv, NamesOK
  <2>3. TimesOK'
    BY <1>11, TimesAssumption DEF vars, IInv, TimesOK
  <2>4. (PendingIsSleep /\ PowerOffOnlyAfterSleep /\ PowerOffNotInGrace)'
    BY <1>11
    DEF vars, IInv, PendingIsSleep, PowerOffOnlyAfterSleep, PowerOffNotInGrace
  <2>5. (AttemptsCount /\ NoExtraF15)'
    BY <1>11 DEF vars, IInv, AttemptsCount, NoExtraF15
  <2>. QED
    BY <2>1, <2>2, <2>3, <2>4, <2>5 DEF IInv
<1>. QED
  BY <1>1, <1>2, <1>3, <1>4, <1>5, <1>6, <1>7, <1>8, <1>9, <1>10, <1>11
  DEF Next

LEMMA Invariance == Spec => []IInv
BY InitEstablishes, StepPreserves, PTL DEF Spec

\* The wake state machine and the power-off timer keep their types.
THEOREM TypeCorrect == Spec => []TypeOK
<1>1. IInv => TypeOK
  BY TypeParts DEF IInv
<1>. QED
  BY <1>1, Invariance, PTL

\* Only a suspend that lasted the whole debounce powers a controller off.
THEOREM PowerOffIsSleep == Spec => []PowerOffOnlyAfterSleep
<1>1. IInv => PowerOffOnlyAfterSleep
  BY DEF IInv
<1>. QED
  BY <1>1, Invariance, PTL

\* A reconnect of the bridge's own making never does.
THEOREM ReconnectIsNoSleep == Spec => []PowerOffNotInGrace
<1>1. IInv => PowerOffNotInGrace
  BY DEF IInv
<1>. QED
  BY <1>1, Invariance, PTL

\* F15 is typed at most WAKE_KEY_ATTEMPTS times for one request.
THEOREM F15IsBounded == Spec => []NoExtraF15
<1>1. IInv => NoExtraF15
  BY DEF IInv
<1>. QED
  BY <1>1, Invariance, PTL

-----------------------------------------------------------------------------
(* What the power-off and the second F15 rest on                           *)

\* A power-off that is due is not held up by host_suspended: the flag is set and
\* cleared together with the countdown.
PendingIsSuspended == pending => suspended

\* suspend, resume and mount write both, and nothing else starts a countdown.
LEMMA PendingKeeps == PendingIsSuspended /\ [Next]_vars => PendingIsSuspended'
<1> SUFFICES ASSUME PendingIsSuspended, [Next]_vars PROVE PendingIsSuspended'
  OBVIOUS
<1>1. CASE SuspendCb
  BY <1>1 DEF SuspendCb, PendingIsSuspended
<1>2. ASSUME NEW mount \in BOOLEAN, HostBack(mount) PROVE PendingIsSuspended'
  BY <1>2 DEF HostBack, PendingIsSuspended
<1>3. CASE NoteUsbReconnect
  BY <1>3 DEF NoteUsbReconnect, PendingIsSuspended
<1>4. CASE Task
  BY <1>4 DEF Task, PendingIsSuspended
<1>5. ASSUME UNCHANGED <<pending, suspended>> PROVE PendingIsSuspended'
  BY <1>5 DEF PendingIsSuspended
<1> QED
  BY <1>1, <1>2, <1>3, <1>4, <1>5
  DEF Next, MaskedSuspend, OnBtConnect, OnBtInput, SetEnable, EndpointFreed,
      Tick, vars

\* The safety half of SleepPowersOff: a countdown is given up only for a power-off, a
\* host that is back or a reconnect, and a turn of wake_task that finds a whole
\* debounce counted does power off, whatever enable_wake is (wake.cpp:232-243).
CountdownIsKept ==
  [][/\ pending /\ ~pending' => offs' \/ bus' = "active" \/ grace' > 0
     /\ Task /\ pending /\ busAge = Debounce => offs']_vars

\* It holds for every debounce and grace.
THEOREM CountdownEndsInPowerOff == Spec => CountdownIsKept
<1>1. ASSUME [Next]_vars, pending, ~pending'
      PROVE  offs' \/ bus' = "active" \/ grace' > 0
  <2>1. CASE SuspendCb
    BY <1>1, <2>1 DEF SuspendCb
  <2>2. ASSUME NEW mount \in BOOLEAN, HostBack(mount) PROVE bus' = "active"
    BY <2>2 DEF HostBack
  <2>3. CASE NoteUsbReconnect
    BY <2>3, TimesAssumption DEF NoteUsbReconnect
  <2>4. CASE Task
    BY <1>1, <2>4, Zenon DEF Task
  <2>5. ASSUME UNCHANGED pending PROVE FALSE
    BY <1>1, <2>5
  <2> QED
    BY <1>1, <2>1, <2>2, <2>3, <2>4, <2>5
    DEF Next, MaskedSuspend, OnBtConnect, OnBtInput, SetEnable, EndpointFreed,
        Tick, vars
<1>2. ASSUME IInv, PendingIsSuspended, Task, pending, busAge = Debounce
      PROVE  offs'
  <2>1. pendingAge >= Debounce
    BY <1>2, TimesAssumption DEF IInv, PendingIsSleep
  <2> QED
    BY <1>2, <2>1, Zenon DEF PendingIsSuspended, PowerOffDue, Task
<1>3. Init => PendingIsSuspended
  BY DEF Init, PendingIsSuspended
<1>4. IInv /\ PendingIsSuspended /\ [Next]_vars =>
        [/\ pending /\ ~pending' => offs' \/ bus' = "active" \/ grace' > 0
         /\ Task /\ pending /\ busAge = Debounce => offs']_vars
  BY <1>1, <1>2
<1> QED
  BY <1>3, <1>4, PendingKeeps, Invariance, PTL DEF Spec, CountdownIsKept

\* While F15 is being typed, each attempt counted but the present one was a key-down.
DownsAreAttempts == state \in Typing => downs = attempts + 1

\* An attempt is counted on a free endpoint only.
AttemptsFindEndpoint == [][attempts' > attempts => ready]_vars

\* The second F15 that the comments promise (wake.cpp:22-25) is sent, for every number
\* of attempts, as long as each retry finds the keyboard endpoint free: what breaks
\* SecondF15Sent is the busy endpoint of wake.cpp:315 and nothing else.
THEOREM SecondF15IfFree == Spec /\ AttemptsFindEndpoint => SecondF15Sent
<1>1. Init => DownsAreAttempts
  BY DEF Init, DownsAreAttempts, Typing
<1>2. ASSUME IInv, DownsAreAttempts, [Next]_vars,
             [attempts' > attempts => ready]_vars
      PROVE  /\ DownsAreAttempts'
             /\ state = "KEY_UP_SENT" /\ state' = "DONE" => downs = Attempts
  <2> USE DEF DownsAreAttempts, Typing
  <2>1. CASE SuspendCb
    BY <1>2, <2>1 DEF SuspendCb, EnterState
  <2>2. ASSUME NEW mount \in BOOLEAN, HostBack(mount)
        PROVE  UNCHANGED <<state, attempts, downs>>
    BY <2>2 DEF HostBack
  <2>3. ASSUME RequestHostWake, state \in Armable, UNCHANGED attempts
        PROVE  DownsAreAttempts' /\ state # "KEY_UP_SENT"
    BY <1>2, <2>3 DEF RequestHostWake, EnterState, Armable
  <2>4. CASE Task
    <3>1. CASE state = "REQUESTED"
      <4>1. attempts = 0 /\ downs = 0
        BY <1>2, <3>1 DEF IInv, AttemptsCount
      <4> QED
        BY <2>4, <3>1, <4>1, <1>2
        DEF Task, TaskRequested, TaskKeyDown, TaskKeyUpSent, EnterState, KeyDown,
            SendKey, Wait
    <3>2. CASE state = "KEY_DOWN"
      BY <1>2, <2>4, <3>2
      DEF Task, TaskRequested, TaskKeyDown, TaskKeyUpSent, EnterState, SendKey
    <3>3. CASE state = "KEY_UP_SENT"
      <4>1. downs = attempts + 1 /\ attempts < Attempts /\ attempts \in Nat
        BY <1>2, <3>3 DEF IInv, AttemptsCount, TimesOK
      <4>2. attempts' = attempts + 1 => ready
        BY <1>2, <4>1 DEF vars
      <4>3. CASE UNCHANGED <<state, attempts, downs>>
        BY <1>2, <3>3, <4>3
      <4>4. CASE TaskKeyUpSent
        BY <3>3, <4>1, <4>2, <4>4, TimesAssumption
        DEF TaskKeyUpSent, EnterState, KeyDown, SendKey, Wait
      <4> QED
        BY <2>4, <3>3, <4>3, <4>4 DEF Task, TaskRequested, TaskKeyDown
    <3>4. CASE state \in Armable
      BY <2>4, <3>4 DEF Task, Armable
    <3> QED
      BY <1>2, <3>1, <3>2, <3>3, <3>4 DEF IInv, NamesOK
  <2>5. ASSUME UNCHANGED <<state, attempts, downs>>
        PROVE  DownsAreAttempts' /\ ~(state = "KEY_UP_SENT" /\ state' = "DONE")
    BY <1>2, <2>5
  <2>6. CASE OnBtConnect
    BY <2>3, <2>6 DEF OnBtConnect
  <2>7. ASSUME NEW b \in Buttons, OnBtInput(b)
        PROVE  /\ DownsAreAttempts'
               /\ ~(state = "KEY_UP_SENT" /\ state' = "DONE")
    BY <2>3, <2>5, <2>7 DEF OnBtInput
  <2> QED
    BY <1>2, <2>1, <2>2, <2>4, <2>5, <2>6, <2>7
    DEF Next, MaskedSuspend, NoteUsbReconnect, SetEnable, EndpointFreed, Tick, vars
<1>3. /\ IInv /\ DownsAreAttempts /\ [Next]_vars
      /\ [attempts' > attempts => ready]_vars
      => /\ DownsAreAttempts'
         /\ [state = "KEY_UP_SENT" /\ state' = "DONE" => downs = Attempts]_vars
  BY <1>2
<1> QED
  BY <1>1, <1>3, Invariance, PTL DEF Spec, AttemptsFindEndpoint, SecondF15Sent
=============================================================================
