-------------------------- MODULE ComponentsProofs --------------------------
(***************************************************************************)
(* The components that meet in the main loop only (MCComponents): types,   *)
(* that nothing is lost, and that the arithmetic of Switch mode is sound,  *)
(* for every value of the constants.                                       *)
(*                                                                         *)
(* Each part has an inductive invariant of its own.  A step of MCComponents*)
(* is a step of one part that leaves the others alone (PartsStep), so that *)
(* their conjunction IInv is inductive too.                                *)
(***************************************************************************)
EXTENDS AudioProofs, DataProofs

-----------------------------------------------------------------------------
(* The Switch Pro protocol (SwitchPro)                                     *)

\* Answers come in the order of the questions: the slot only ever holds the one
\* to the last, and the endpoint none that is older than what has been read.
ProInv ==
  /\ Pro!TypeOK
  /\ response # Pro!Nothing => response.no = asked
  /\ ep.no # 0 => ep.no <= asked
  /\ Pro!AnswerIsNotLost

\* Reports carry the numbers of commands, and what answers none carries 0.
LEMMA ProNumbers ==
  /\ Pro!Nothing \in Pro!Report /\ Pro!Nothing.no = 0
  /\ Pro!Identity.no = 0 /\ Pro!Identity.input \notin Inputs
  /\ \A r \in Pro!Report : r.no \in 0..MaxCommands
  /\ \A n \in 0..MaxCommands, i \in Inputs \cup {Pro!NoInput} :
       /\ [no |-> n, input |-> i] \in Pro!Report
       /\ [no |-> n, input |-> i].no = n
BY SizesAssumption DEF Pro!Nothing, Pro!Identity, Pro!Report, Pro!NoInput

\* It holds when the protocol is reset,
LEMMA ProStarts == Pro!Init => ProInv
<1> SUFFICES ASSUME Pro!Init PROVE ProInv
  OBVIOUS
<1>1. /\ proSwitching \in BOOLEAN /\ initialized \in BOOLEAN /\ ready \in BOOLEAN
      /\ dirty \in BOOLEAN /\ dropped \in BOOLEAN
  BY Zenon DEF Pro!Init
<1>2. /\ response = Pro!Nothing /\ ep = Pro!Nothing /\ inputAge = Interval
      /\ state = 0 /\ seen = 0 /\ asked = 0 /\ answered = 0 /\ resets = 0
      /\ proFailures = 0
  BY Zenon DEF Pro!Init
<1> QED BY <1>1, <1>2, ProNumbers, SizesAssumption
           DEF ProInv, Pro!TypeOK, Pro!AnswerIsNotLost

\* a report is in the endpoint after the call, or the endpoint is as it was, and the
\* loss of an answer is noted,
LEMMA HandedOrDropped ==
  ASSUME NEW r \in Pro!Report \cup {Pro!Identity}, Pro!Hand(r),
         ep \in Pro!Report \cup {Pro!Identity}, proFailures \in 0..MaxFailures,
         dropped \in BOOLEAN
  PROVE  /\ ep' \in Pro!Report \cup {Pro!Identity}
         /\ proFailures' \in 0..MaxFailures /\ dropped' \in BOOLEAN
         /\ ep' = r \/ (ep' = ep /\ (r.no # 0 => dropped'))
         /\ dropped => dropped'
<1> USE SizesAssumption
<1>1. CASE ep' = r /\ UNCHANGED <<proFailures, dropped>>
  BY <1>1
<1>2. CASE /\ proFailures < MaxFailures /\ proFailures' = proFailures + 1
           /\ dropped' = (dropped \/ r.no # 0)
           /\ UNCHANGED ep
  <2>1. dropped' \in BOOLEAN /\ (dropped => dropped') /\ (r.no # 0 => dropped')
    BY <1>2, Zenon
  <2>2. proFailures' \in 0..MaxFailures /\ ep' = ep
    BY <1>2
  <2> QED BY <2>1, <2>2
<1> QED BY <1>1, <1>2, Zenon DEF Pro!Hand

\* every command, report, reset and tick preserves it, and no step takes the host
\* back to an older answer.
LEMMA ProSteps == ProInv /\ [Pro!Next]_proVars => ProInv' /\ answered' >= answered
<1> SUFFICES ASSUME ProInv, [Pro!Next]_proVars
             PROVE  ProInv' /\ answered' >= answered
  OBVIOUS
<1> USE SizesAssumption
<1>k. /\ Pro!TypeOK /\ asked \in 0..MaxCommands /\ answered \in 0..asked
      /\ MaxCommands \in Nat
      /\ response # Pro!Nothing => response.no = asked
      /\ ep.no # 0 => answered <= ep.no /\ ep.no <= asked
      /\ asked = answered \/ ep.no = asked \/ response.no = asked \/ dropped
      /\ proFailures \in 0..MaxFailures /\ dropped \in BOOLEAN
      /\ response \in Pro!Report /\ ep \in Pro!Report \cup {Pro!Identity}
  BY DEF ProInv, Pro!TypeOK, Pro!AnswerIsNotLost
<1>1. CASE Pro!HostConfigures
  <2>1. ready' \in BOOLEAN
    BY <1>1 DEF ProInv, Pro!TypeOK, Pro!HostConfigures
  <2>2. asked' = asked + 1 /\ asked' \in 0..MaxCommands
    BY <1>1, <1>k DEF Pro!HostConfigures, Pro!Ask
  <2>3. response' \in Pro!Report /\ response'.no = asked'
    BY <1>1, <2>2, ProNumbers DEF Pro!HostConfigures, Pro!Queue
  <2>4. UNCHANGED <<proSwitching, initialized, dirty, inputAge, state, ep, seen,
                    answered, resets, proFailures>>
    BY <1>1 DEF Pro!HostConfigures, Pro!Ask
  <2>5. dropped' \in BOOLEAN
    BY <1>1, Zenon DEF Pro!HostConfigures, Pro!Ask
  <2> QED BY <1>k, <2>1, <2>2, <2>3, <2>4, <2>5, ProNumbers
             DEF ProInv, Pro!TypeOK, Pro!AnswerIsNotLost
<1>2. CASE Pro!HostAsks
  <2>2. asked' = asked + 1 /\ asked' \in 0..MaxCommands
    BY <1>2, <1>k DEF Pro!HostAsks, Pro!Ask
  <2>3. response' \in Pro!Report /\ response'.no = asked'
    <3>1. state \in Inputs \cup {Pro!NoInput}
      BY DEF ProInv, Pro!TypeOK, Pro!AnswerIsNotLost
    <3> QED BY <1>2, <2>2, <3>1, ProNumbers DEF Pro!HostAsks, Pro!Queue
  <2>4. UNCHANGED <<proSwitching, initialized, ready, dirty, inputAge, state, ep,
                    seen, answered, resets, proFailures>>
    BY <1>2 DEF Pro!HostAsks, Pro!Ask
  <2>5. dropped' \in BOOLEAN
    BY <1>2, Zenon DEF Pro!HostAsks, Pro!Ask
  <2> QED BY <1>k, <2>2, <2>3, <2>4, <2>5, ProNumbers
             DEF ProInv, Pro!TypeOK, Pro!AnswerIsNotLost
<1>3. CASE Pro!HostReads
  <2>1. seen' \in Inputs
    BY <1>3 DEF ProInv, Pro!TypeOK, Pro!HostReads
  <2>2. /\ answered' \in 0..asked /\ answered' >= answered
        /\ asked = answered' \/ response.no = asked \/ dropped
    BY <1>3, <1>k, ProNumbers DEF Pro!HostReads
  <2>3. /\ ep' = Pro!Nothing
        /\ UNCHANGED <<proSwitching, initialized, ready, response, dirty, inputAge,
                       state, asked, resets, proFailures, dropped>>
    BY <1>3 DEF Pro!HostReads
  <2> QED BY <1>k, <2>1, <2>2, <2>3, ProNumbers
             DEF ProInv, Pro!TypeOK, Pro!AnswerIsNotLost
<1>4. CASE Pro!HostResets
  <2>1. /\ ep' = Pro!Nothing /\ answered' = asked /\ resets' \in 0..MaxResets
        /\ UNCHANGED <<proSwitching, initialized, ready, response, dirty, inputAge,
                       state, seen, asked, proFailures, dropped>>
    BY <1>4 DEF ProInv, Pro!TypeOK, Pro!HostResets
  <2> QED BY <1>k, <2>1, ProNumbers DEF ProInv, Pro!TypeOK, Pro!AnswerIsNotLost
<1>5. CASE Pro!ControllerReport
  <2>1. dirty' \in BOOLEAN
    BY <1>5 DEF Pro!ControllerReport
  <2>2. /\ state' \in Inputs
        /\ UNCHANGED <<proSwitching, initialized, ready, response, inputAge, ep, seen,
                       asked, answered, resets, proFailures, dropped>>
    BY <1>5 DEF Pro!ControllerReport
  <2> QED BY <1>k, <2>1, <2>2 DEF ProInv, Pro!TypeOK, Pro!AnswerIsNotLost
<1>6. CASE Pro!Task
  <2>1. UNCHANGED <<proSwitching, ready, state, seen, asked, answered, resets>>
    BY <1>6 DEF Pro!Task
  <2>r. response = Pro!Nothing => asked = answered \/ dropped
    BY <1>6, <1>k, ProNumbers DEF Pro!Task
  <2>e. ep = Pro!Nothing
    BY <1>6 DEF Pro!Task
  <2>2. CASE Pro!SendResponse
    <3>1. /\ response # Pro!Nothing /\ Pro!Hand(response) /\ response' = Pro!Nothing
          /\ UNCHANGED <<initialized, dirty, inputAge>>
      BY <2>2 DEF Pro!SendResponse
    <3>2. /\ ep' \in Pro!Report \cup {Pro!Identity}
          /\ proFailures' \in 0..MaxFailures /\ dropped' \in BOOLEAN
          /\ ep' = response \/ (ep' = ep /\ (response.no # 0 => dropped'))
          /\ dropped => dropped'
      BY <1>k, <3>1, HandedOrDropped
    <3>3. asked = answered \/ ep'.no = asked \/ dropped'
      BY <1>k, <3>1, <3>2
    <3>4. ep'.no # 0 => answered <= ep'.no /\ ep'.no <= asked
      BY <1>k, <3>1, <3>2
    <3> QED BY <1>k, <2>1, <3>1, <3>2, <3>3, <3>4, ProNumbers
               DEF ProInv, Pro!TypeOK, Pro!AnswerIsNotLost
  <2>3. CASE Pro!Identify
    <3>1. initialized' \in BOOLEAN
      BY <2>3 DEF Pro!Identify
    <3>2. /\ response = Pro!Nothing /\ Pro!Hand(Pro!Identity)
          /\ UNCHANGED <<response, dirty, inputAge>>
      BY <2>3 DEF Pro!Identify
    <3>3. /\ ep' \in Pro!Report \cup {Pro!Identity} /\ ep'.no = 0
          /\ proFailures' \in 0..MaxFailures /\ dropped' \in BOOLEAN
          /\ dropped => dropped'
      BY <1>k, <2>e, <3>2, ProNumbers, HandedOrDropped
    <3> QED BY <1>k, <2>r, <2>1, <3>1, <3>2, <3>3, ProNumbers
               DEF ProInv, Pro!TypeOK, Pro!AnswerIsNotLost
  <2>4. CASE Pro!SendInput
    <3>1. dirty' \in BOOLEAN
      BY <2>4 DEF Pro!SendInput
    <3>2. /\ response = Pro!Nothing /\ Pro!Hand([no |-> 0, input |-> state])
          /\ inputAge' = 0 /\ UNCHANGED <<initialized, response>>
      BY <2>4 DEF Pro!SendInput
    <3>3. /\ [no |-> 0, input |-> state] \in Pro!Report
          /\ [no |-> 0, input |-> state].no = 0
      BY <1>k, ProNumbers DEF Pro!TypeOK
    <3>4. /\ ep' \in Pro!Report \cup {Pro!Identity} /\ ep'.no = 0
          /\ proFailures' \in 0..MaxFailures /\ dropped' \in BOOLEAN
          /\ dropped => dropped'
      BY <1>k, <2>e, <3>2, <3>3, ProNumbers, HandedOrDropped
    <3> QED BY <1>k, <2>r, <2>1, <3>1, <3>2, <3>4
               DEF ProInv, Pro!TypeOK, Pro!AnswerIsNotLost
  <2> QED BY <1>6, <2>2, <2>3, <2>4 DEF Pro!Task
<1>7. CASE Pro!Toggle
  <2>1. /\ proSwitching' \in BOOLEAN /\ initialized' \in BOOLEAN
        /\ ready' \in BOOLEAN /\ dirty' \in BOOLEAN
    <3>1. proSwitching' \in BOOLEAN /\ initialized' \in BOOLEAN /\ ready' \in BOOLEAN
      BY <1>7, Zenon DEF Pro!Toggle
    <3> QED BY <1>7, <3>1 DEF Pro!Toggle
  <2>2. /\ response' = Pro!Nothing /\ inputAge' = Interval /\ state' = 0
        /\ ep' = Pro!Nothing /\ answered' = asked /\ UNCHANGED <<seen, asked, resets>>
        /\ UNCHANGED <<proFailures, dropped>>
    BY <1>7, Zenon DEF Pro!Toggle
  <2> QED BY <1>k, <2>1, <2>2, ProNumbers
             DEF ProInv, Pro!TypeOK, Pro!AnswerIsNotLost
<1>8. CASE Pro!Tick
  BY <1>8, <1>k DEF ProInv, Pro!TypeOK, Pro!AnswerIsNotLost, Pro!Tick
<1>9. CASE UNCHANGED proVars
  BY <1>9, <1>k DEF ProInv, Pro!TypeOK, Pro!AnswerIsNotLost, proVars
<1> QED BY <1>1, <1>2, <1>3, <1>4, <1>5, <1>6, <1>7, <1>8, <1>9 DEF Pro!Next

-----------------------------------------------------------------------------
(* Rumble in Switch mode (SwitchRumble)                                    *)

\* What rumbles is heard of again: by the packets of its own amplitude, or by as
\* many silent ones as have not been dropped yet.
RumbleInv ==
  /\ Rumble!TypeOK
  /\ Rumble!StopIsNotLost
  /\ loud => rumbleConnected
  /\ loud /\ transport /\ target = 0 => rumbleDrops + tail >= SilenceTail

\* It holds before the first command,
LEMMA RumbleStarts == Rumble!Init => RumbleInv
<1> SUFFICES ASSUME Rumble!Init PROVE RumbleInv
  OBVIOUS
<1>1. /\ rumbleSwitching \in BOOLEAN /\ vibration \in BOOLEAN /\ transport \in BOOLEAN
      /\ wasConnected \in BOOLEAN /\ rumbleConnected \in BOOLEAN
      /\ loud \in BOOLEAN /\ ~loud /\ stopLost \in BOOLEAN
  BY Zenon DEF Rumble!Init
<1>2. host \in BOOLEAN
  BY DEF Rumble!Init
<1>3. /\ target = 0 /\ level = 0 /\ due = Rumble!NoPacket /\ tail = 0
      /\ commandAge = Rumble!NoCommand /\ rumbleDrops = 0
  BY Zenon DEF Rumble!Init
<1> QED BY <1>1, <1>2, <1>3, SizesAssumption
        DEF RumbleInv, Rumble!TypeOK, Rumble!NoPacket, Rumble!NoCommand,
            Rumble!StopIsNotLost

\* bt_write of a packet that ends at amplitude a (SendPcm), for Boolean values
LEMMA PcmIsSentOrDropped ==
  ASSUME NEW a \in 0..1, RumbleInv, Rumble!SendPcm(a)
  PROVE  /\ loud' \in BOOLEAN /\ rumbleDrops' \in 0..RumbleDrops
         /\ \/ (loud' <=> a > 0) /\ rumbleDrops' = rumbleDrops
            \/ /\ loud' = loud /\ rumbleDrops < RumbleDrops
               /\ rumbleDrops' = rumbleDrops + 1
<1>1. CASE loud' = (a > 0) /\ UNCHANGED rumbleDrops
  <2>1. (a > 0) \in BOOLEAN
    OBVIOUS
  <2>2. loud' \in BOOLEAN
    BY <1>1, <2>1, Zenon
  <2>3. loud' <=> a > 0
    BY <1>1, Zenon
  <2>4. rumbleDrops' = rumbleDrops
    BY <1>1, Zenon
  <2>5. rumbleDrops \in 0..RumbleDrops
    BY DEF RumbleInv, Rumble!TypeOK
  <2> QED BY <2>2, <2>3, <2>4, <2>5, Zenon
<1>2. CASE rumbleDrops < RumbleDrops /\ rumbleDrops' = rumbleDrops + 1 /\ UNCHANGED loud
  BY <1>2, SizesAssumption DEF RumbleInv, Rumble!TypeOK
<1> QED BY <1>1, <1>2 DEF Rumble!SendPcm

\* and every step of the task, the host, the link and the clock preserves it.  The
\* last silent packet of a tail ends the transport: the controller is silent then,
\* or the whole tail has been dropped.
LEMMA RumbleSteps ==
  ASSUME RumbleInv, [Rumble!Next]_rumbleVars
  PROVE  RumbleInv'
<1> USE SizesAssumption DEF Rumble!NoPacket, Rumble!NoCommand
<1>1. CASE Rumble!RumbleTask
  <2>1. UNCHANGED <<rumbleSwitching, vibration, rumbleConnected, host, stopLost>>
    BY <1>1 DEF Rumble!RumbleTask
  <2>2. CASE Rumble!TaskUnconnected
    <3>1. wasConnected' \in BOOLEAN /\ ~rumbleConnected /\ UNCHANGED <<loud, rumbleDrops>>
      BY <2>2, Zenon DEF Rumble!TaskUnconnected
    <3>2. ~loud
      BY <3>1 DEF RumbleInv
    <3>3. CASE wasConnected
      <4>1. Rumble!Silence
        BY <2>2, <3>3, Zenon DEF Rumble!TaskUnconnected
      <4>2. transport' \in BOOLEAN
        BY <4>1, Zenon DEF Rumble!Silence
      <4>3. /\ target' = 0 /\ level' = 0 /\ due' = Rumble!NoPacket
            /\ commandAge' = Rumble!NoCommand /\ tail' = 0
        BY <4>1, Zenon DEF Rumble!Silence
      <4> QED BY <2>1, <3>1, <3>2, <4>2, <4>3
              DEF RumbleInv, Rumble!TypeOK, Rumble!StopIsNotLost
    <3>4. CASE ~wasConnected
      <4>1. UNCHANGED <<target, level, transport, tail, due, commandAge>>
        BY <2>2, <3>4, Zenon DEF Rumble!TaskUnconnected
      <4> QED BY <2>1, <3>1, <3>2, <4>1
              DEF RumbleInv, Rumble!TypeOK, Rumble!StopIsNotLost
    <3> QED BY <3>3, <3>4
  <2>3. CASE Rumble!TaskIdle
    BY <2>1, <2>3
       DEF RumbleInv, Rumble!TypeOK, Rumble!StopIsNotLost, Rumble!TaskIdle
  <2>4. CASE Rumble!TaskActive
    <3> DEFINE goal == IF Rumble!TimedOut THEN 0 ELSE target
               left == IF Rumble!TimedOut THEN SilenceTail ELSE tail
    <3>1. /\ rumbleConnected /\ transport /\ wasConnected' \in BOOLEAN
          /\ target' = goal
          /\ commandAge' = IF Rumble!TimedOut THEN Rumble!NoCommand ELSE commandAge
      BY <2>4 DEF Rumble!TaskActive
    <3>2. /\ goal \in 0..1 /\ left \in 0..SilenceTail
          /\ commandAge' \in 0..RumbleLimit \cup {Rumble!NoCommand}
          /\ loud /\ goal = 0 => rumbleDrops + left >= SilenceTail
      BY <3>1 DEF RumbleInv, Rumble!TypeOK
    <3>3. CASE due > 0
      <4>1. tail' = left /\ UNCHANGED <<level, transport, due, loud, rumbleDrops>>
        BY <2>4, <3>3 DEF Rumble!TaskActive
      <4> HIDE DEF goal, left
      <4> QED BY <2>1, <3>1, <3>2, <4>1
              DEF RumbleInv, Rumble!TypeOK, Rumble!StopIsNotLost
    <3>4. CASE ~(due > 0)
      <4>0. level' = goal
        BY <2>4, <3>4, Zenon DEF Rumble!TaskActive
      <4>1. /\ Rumble!SendPcm(goal)
            /\ IF goal = 0 /\ left = 0
                 THEN transport' = FALSE /\ due' = Rumble!NoPacket /\ tail' = left
                 ELSE /\ tail' = IF goal = 0 THEN left - 1 ELSE left
                      /\ due' = Rumble!NextDue /\ UNCHANGED transport
        BY <2>4, <3>4, Zenon DEF Rumble!TaskActive
      <4> HIDE DEF goal, left
      <4>2. /\ loud' \in BOOLEAN /\ rumbleDrops' \in 0..RumbleDrops
            /\ \/ (loud' <=> goal > 0) /\ rumbleDrops' = rumbleDrops
               \/ /\ loud' = loud /\ rumbleDrops < RumbleDrops
                  /\ rumbleDrops' = rumbleDrops + 1
        BY <3>2, <4>1, PcmIsSentOrDropped
      <4>t. loud' \in BOOLEAN /\ rumbleDrops' \in 0..RumbleDrops
        BY <4>2
      <4>u. rumbleConnected' /\ transport
        BY <2>1, <3>1
      <4>3. Rumble!NextDue \in Rumble!NoPacket..Interval
        BY <3>4 DEF RumbleInv, Rumble!TypeOK, Rumble!NextDue
      <4>4. CASE goal = 0 /\ left = 0
        <5>1. transport' \in BOOLEAN /\ ~transport'
          BY <4>1, <4>4, Zenon
        <5>2. due' = Rumble!NoPacket /\ tail' = left
          BY <4>1, <4>4, Zenon
        <5>3. loud' => rumbleDrops' > SilenceTail
          <6>a. SUFFICES ASSUME loud' PROVE rumbleDrops' > SilenceTail
            OBVIOUS
          <6>0. ~(goal > 0)
            BY <4>4
          <6>1. loud /\ rumbleDrops' = rumbleDrops + 1
            BY <4>2, <6>a, <6>0, Zenon
          <6> QED BY <3>2, <4>4, <6>1 DEF RumbleInv, Rumble!TypeOK
        <5>4. Rumble!TypeOK'
          BY <2>1, <3>1, <3>2, <4>0, <4>t, <5>1, <5>2 DEF RumbleInv, Rumble!TypeOK
        <5> QED BY <4>u, <5>1, <5>3, <5>4, Zenon
                   DEF RumbleInv, Rumble!StopIsNotLost
      <4>5. CASE ~(goal = 0 /\ left = 0)
        <5>1. /\ tail' = IF goal = 0 THEN left - 1 ELSE left
              /\ due' = Rumble!NextDue /\ UNCHANGED transport
          BY <4>1, <4>5, Zenon
        <5>2. tail' \in 0..SilenceTail
          BY <3>2, <4>5, <5>1
        <5>3. loud' /\ goal = 0 => rumbleDrops' + tail' >= SilenceTail
          <6>a. SUFFICES ASSUME loud', goal = 0 PROVE rumbleDrops' + tail' >= SilenceTail
            OBVIOUS
          <6>0. ~(goal > 0)
            BY <6>a
          <6>1. loud /\ rumbleDrops' = rumbleDrops + 1
            BY <4>2, <6>a, <6>0, Zenon
          <6>2. tail' = left - 1
            BY <5>1, <6>a, Zenon
          <6> QED BY <3>2, <6>a, <6>1, <6>2 DEF RumbleInv, Rumble!TypeOK
        <5> QED BY <2>1, <3>1, <3>2, <4>0, <4>t, <4>u, <4>3, <5>1, <5>2, <5>3
                DEF RumbleInv, Rumble!TypeOK, Rumble!StopIsNotLost
      <4> QED BY <4>4, <4>5
    <3> QED BY <3>3, <3>4
  <2> QED BY <1>1, <2>2, <2>3, <2>4 DEF Rumble!RumbleTask
<1>2. CASE Rumble!HostRumble
  <2>1. UNCHANGED <<rumbleSwitching, host>>
    BY <1>2 DEF Rumble!HostRumble
  <2>2. PICK a \in 0..1, v \in BOOLEAN :
             vibration' = v /\ Rumble!Apply(IF v THEN a ELSE 0)
    BY <1>2, Zenon DEF Rumble!HostRumble
  <2>3. vibration' \in BOOLEAN
    BY <2>2, Zenon
  <2>4. PICK b \in 0..1 : Rumble!Apply(b)
    <3>1. 0 \in 0..1
      OBVIOUS
    <3>2. CASE v
      BY <2>2, <3>2, Zenon
    <3>3. CASE ~v
      BY <2>2, <3>1, <3>3, Zenon
    <3> QED BY <3>2, <3>3
  <2>5. transport' \in BOOLEAN /\ transport'
    BY <2>4 DEF Rumble!Apply
  <2>6. /\ target' = b /\ commandAge' = 0
        /\ due' = IF transport THEN due ELSE Rumble!NoPacket
        /\ tail' = IF b = 0 THEN SilenceTail ELSE 0
        /\ UNCHANGED <<level, wasConnected, rumbleConnected, loud, rumbleDrops, stopLost>>
    BY <2>4, Zenon DEF Rumble!Apply
  <2> QED BY <2>1, <2>3, <2>5, <2>6
             DEF RumbleInv, Rumble!TypeOK, Rumble!StopIsNotLost
<1>3. CASE Rumble!HostGone
  <2>1. host' \in BOOLEAN
    BY <1>3, Zenon DEF Rumble!HostGone
  <2>2. UNCHANGED <<rumbleSwitching, vibration, target, level, due, commandAge, tail,
                    transport, wasConnected, rumbleConnected, loud, rumbleDrops,
                    stopLost>>
    BY <1>3, Zenon DEF Rumble!HostGone
  <2> QED BY <2>1, <2>2 DEF RumbleInv, Rumble!TypeOK, Rumble!StopIsNotLost
<1>4. CASE Rumble!Toggle
  <2>1. /\ rumbleSwitching' \in BOOLEAN /\ vibration' \in BOOLEAN
        /\ Rumble!Stop /\ UNCHANGED host
    BY <1>4, Zenon DEF Rumble!Toggle
  <2>2. /\ Rumble!Silence /\ (stopLost' <=> loud')
        /\ UNCHANGED <<wasConnected, rumbleConnected>>
    BY <2>1, Zenon DEF Rumble!Stop
  <2>3. /\ transport' \in BOOLEAN /\ ~transport'
    BY <2>2, Zenon DEF Rumble!Silence
  <2>4. /\ target' = 0 /\ level' = 0 /\ due' = Rumble!NoPacket
        /\ commandAge' = Rumble!NoCommand /\ tail' = 0
    BY <2>2, Zenon DEF Rumble!Silence
  <2>5. /\ loud' \in BOOLEAN /\ rumbleDrops' \in 0..RumbleDrops
        /\ loud' => rumbleConnected
    <3>1. CASE rumbleConnected
      <4>1. Rumble!SendPcm(0) /\ 0 \in 0..1
        BY <2>1, <3>1 DEF Rumble!Stop
      <4> QED BY <3>1, <4>1, PcmIsSentOrDropped
    <3>2. CASE ~rumbleConnected
      <4>1. UNCHANGED <<loud, rumbleDrops>>
        BY <2>1, <3>2, Zenon DEF Rumble!Stop
      <4> QED BY <4>1 DEF RumbleInv, Rumble!TypeOK
    <3> QED BY <3>1, <3>2
  <2>6. stopLost' \in BOOLEAN
    <3>1. stopLost' = loud'
      BY <2>1, Zenon DEF Rumble!Stop
    <3> QED BY <2>5, <3>1
  <2>7. loud' => stopLost'
    BY <2>2, Zenon
  <2>8. UNCHANGED <<wasConnected, rumbleConnected, host>>
    BY <2>1, <2>2, Zenon
  <2>9. rumbleSwitching' \in BOOLEAN /\ vibration' \in BOOLEAN
    BY <2>1
  <2>10. Rumble!TypeOK'
    BY <2>3, <2>4, <2>5, <2>6, <2>8, <2>9 DEF RumbleInv, Rumble!TypeOK
  <2>11. Rumble!StopIsNotLost'
    BY <2>7 DEF Rumble!StopIsNotLost
  <2>12. loud' => rumbleConnected'
    BY <2>5, <2>8, Zenon
  <2> QED BY <2>3, <2>10, <2>11, <2>12, Zenon DEF RumbleInv
<1>5. CASE Rumble!LinkChanges
  <2>1. rumbleConnected' \in BOOLEAN /\ loud' \in BOOLEAN /\ ~loud'
    BY <1>5, Zenon DEF Rumble!LinkChanges
  <2>2. UNCHANGED <<rumbleSwitching, vibration, target, level, due, commandAge, tail,
                    transport, wasConnected, host, rumbleDrops, stopLost>>
    BY <1>5, Zenon DEF Rumble!LinkChanges
  <2> QED BY <2>1, <2>2 DEF RumbleInv, Rumble!TypeOK, Rumble!StopIsNotLost
<1>6. CASE Rumble!Tick
  BY <1>6 DEF RumbleInv, Rumble!TypeOK, Rumble!StopIsNotLost, Rumble!Tick
<1>7. CASE UNCHANGED rumbleVars
  BY <1>7 DEF RumbleInv, Rumble!TypeOK, Rumble!StopIsNotLost, rumbleVars
<1> QED BY <1>1, <1>2, <1>3, <1>4, <1>5, <1>6, <1>7 DEF Rumble!Next

-----------------------------------------------------------------------------
(* Input reports (HidInput)                                                *)

\* The types and the property are enough.
HidInv == Hid!TypeOK /\ Hid!ReportIsNotLost

\* It holds with the neutral report,
LEMMA HidStarts == Hid!Init => HidInv
<1> SUFFICES ASSUME Hid!Init PROVE HidInv
  OBVIOUS
<1>1. /\ hidSwitching \in BOOLEAN /\ mode2 \in BOOLEAN /\ hidDirty \in BOOLEAN
      /\ forgotten \in BOOLEAN /\ (mode2 => forgotten)
  BY Zenon DEF Hid!Init
<1>2. in = 0 /\ hidEp = Hid!None /\ hidSeen = Hid!None /\ failures = 0 /\ changes = 0
  BY Zenon DEF Hid!Init
<1> QED BY <1>1, <1>2, SizesAssumption DEF HidInv, Hid!TypeOK, Hid!ReportIsNotLost

\* and every report, call of tud_hid_report, enumeration and setting preserves it.
LEMMA HidSteps == HidInv /\ [Hid!Next]_hidVars => HidInv'
<1> SUFFICES ASSUME HidInv, [Hid!Next]_hidVars PROVE HidInv'
  OBVIOUS
<1> USE SizesAssumption
<1>b. /\ hidSwitching \in BOOLEAN /\ mode2 \in BOOLEAN /\ hidDirty \in BOOLEAN
      /\ forgotten \in BOOLEAN
  BY DEF HidInv, Hid!TypeOK
<1>n. \A v \in Inputs : v # Hid!None
  BY DEF Hid!None
<1>1. CASE Hid!Report
  <2>1. /\ hidDirty' \in BOOLEAN /\ forgotten' \in BOOLEAN
        /\ mode2' \in BOOLEAN /\ hidSwitching' \in BOOLEAN
    BY <1>1, <1>b, Zenon DEF Hid!Report
  <2>2. in' \in Inputs /\ UNCHANGED <<hidEp, hidSeen, failures, changes>>
    BY <1>1, Zenon DEF Hid!Report
  <2>3. ~(mode2' /\ ~hidDirty' /\ ~forgotten')
    BY <1>1, Zenon DEF Hid!Report
  <2> QED BY <2>1, <2>2, <2>3 DEF HidInv, Hid!TypeOK, Hid!ReportIsNotLost
<1>2. CASE Hid!SendAlways
  BY <1>2 DEF HidInv, Hid!TypeOK, Hid!ReportIsNotLost, Hid!SendAlways
<1>3. CASE Hid!SendFresh
  <2>1. UNCHANGED <<hidSwitching, mode2, in, hidSeen, changes, forgotten>>
    BY <1>3 DEF Hid!SendFresh
  <2>2. hidDirty' \in BOOLEAN
    BY <1>3, <1>b DEF Hid!SendFresh
  <2>3. /\ hidEp' \in Inputs \cup {Hid!None} /\ failures' \in 0..MaxFailures
    <3>1. \/ hidEp' = in /\ failures' = failures
          \/ failures < MaxFailures /\ failures' = failures + 1 /\ hidEp' = hidEp
      BY <1>3, Zenon DEF Hid!SendFresh
    <3> QED BY <3>1 DEF HidInv, Hid!TypeOK
  <2>4. hidEp' = in \/ hidDirty'
    BY <1>3, Zenon DEF Hid!SendFresh
  <2> QED BY <2>1, <2>2, <2>3, <2>4 DEF HidInv, Hid!TypeOK, Hid!ReportIsNotLost
<1>4. CASE Hid!HostReads
  BY <1>4, <1>n DEF HidInv, Hid!TypeOK, Hid!ReportIsNotLost, Hid!HostReads
<1>5. CASE Hid!Enumerate
  <2>1. /\ hidSwitching' \in BOOLEAN /\ forgotten' \in BOOLEAN
        /\ (mode2 /\ ~hidDirty => forgotten')
    BY <1>5, <1>b, Zenon DEF Hid!Enumerate
  <2>2. /\ hidEp' = Hid!None /\ hidSeen' = Hid!None
        /\ UNCHANGED <<mode2, in, hidDirty, failures>>
    BY <1>5, Zenon DEF Hid!Enumerate
  <2>3. changes' \in 0..MaxChanges
    BY <1>5 DEF HidInv, Hid!TypeOK, Hid!Enumerate, Hid!Changes
  <2> QED BY <2>1, <2>2, <2>3 DEF HidInv, Hid!TypeOK, Hid!ReportIsNotLost
<1>6. CASE Hid!SetPolling
  <2>1. /\ mode2' \in BOOLEAN /\ forgotten' \in BOOLEAN
        /\ mode2' /\ ~hidDirty /\ ~forgotten' =>
             hidEp = in \/ (hidEp = Hid!None /\ hidSeen = in)
    BY <1>6, <1>b, Zenon DEF Hid!SetPolling
  <2>2. UNCHANGED <<hidSwitching, in, hidDirty, hidEp, hidSeen, failures>>
    BY <1>6, Zenon DEF Hid!SetPolling
  <2>3. changes' \in 0..MaxChanges
    BY <1>6 DEF HidInv, Hid!TypeOK, Hid!SetPolling, Hid!Changes
  <2> QED BY <2>1, <2>2, <2>3 DEF HidInv, Hid!TypeOK, Hid!ReportIsNotLost
<1>7. CASE UNCHANGED hidVars
  BY <1>7 DEF HidInv, Hid!TypeOK, Hid!ReportIsNotLost, hidVars
<1> QED BY <1>1, <1>2, <1>3, <1>4, <1>5, <1>6, <1>7 DEF Hid!Next, Hid!Send

-----------------------------------------------------------------------------
(* Output reports (HidOutput)                                              *)

\* Here too.
OutputInv == Output!TypeOK /\ Output!SettingsAreNotLost

\* It holds before a controller comes,
LEMMA OutputStarts == Output!Init => OutputInv
<1> SUFFICES ASSUME Output!Init PROVE OutputInv
  OBVIOUS
<1>1. /\ connected \in BOOLEAN /\ ~connected /\ spk \in BOOLEAN /\ streaming \in BOOLEAN
      /\ lost \in BOOLEAN
  BY Zenon DEF Output!Init
<1>2. st \in Output!Settings /\ want = st /\ ctl = st /\ drops = 0
  BY Zenon DEF Output!Init, Output!Initial
<1> QED BY <1>1, <1>2, SizesAssumption
        DEF OutputInv, Output!TypeOK, Output!SettingsAreNotLost

\* A packet that carries the state is in the queue or dropped (Send),
LEMMA StateIsSentOrDropped ==
  ASSUME NEW s \in Output!Settings, OutputInv, Output!Send(s)
  PROVE  /\ ctl' \in Output!Settings /\ drops' \in 0..OutputDrops
         /\ lost' \in BOOLEAN
         /\ ~lost' => ctl' = s
<1> USE SizesAssumption DEF OutputInv, Output!TypeOK
<1>1. CASE ctl' = s /\ lost' = FALSE /\ UNCHANGED drops
  <2>1. lost' \in BOOLEAN
    BY <1>1, Zenon
  <2> QED BY <1>1, <2>1
<1>2. CASE /\ drops < OutputDrops /\ drops' = drops + 1 /\ lost' = TRUE
           /\ UNCHANGED ctl
  <2>1. lost' \in BOOLEAN /\ lost'
    BY <1>2
  <2> QED BY <1>2, <2>1
<1> QED BY <1>1, <1>2 DEF Output!Send

\* if there is a controller (bt_write).
LEMMA StateIsWrittenOrDropped ==
  ASSUME NEW s \in Output!Settings, OutputInv, Output!Write(s)
  PROVE  /\ ctl' \in Output!Settings /\ drops' \in 0..OutputDrops
         /\ lost' \in BOOLEAN
         /\ connected /\ ~lost' => ctl' = s
<1>1. CASE connected
  BY <1>1, StateIsSentOrDropped, Zenon DEF Output!Write
<1>2. CASE ~connected
  BY <1>2, Zenon DEF Output!Write, OutputInv, Output!TypeOK
<1> QED BY <1>1, <1>2

\* state_update keeps settings settings.
LEMMA UpdateIsTyped ==
  ASSUME NEW old \in Output!Settings, NEW new \in Output!Settings, NEW allow,
         NEW useRumble
  PROVE  Output!StateUpdate(old, new, allow, useRumble) \in Output!Settings
BY DEF Output!StateUpdate, Output!Settings

\* and every report of the host, packet, interface change and controller preserves it.
LEMMA OutputSteps == OutputInv /\ [Output!Next]_outputVars => OutputInv'
<1> SUFFICES ASSUME OutputInv, [Output!Next]_outputVars PROVE OutputInv'
  OBVIOUS
<1> USE SizesAssumption
<1>k. /\ st \in Output!Settings /\ want = st /\ ctl \in Output!Settings
      /\ connected \in BOOLEAN /\ spk \in BOOLEAN /\ streaming \in BOOLEAN
      /\ lost \in BOOLEAN /\ drops \in 0..OutputDrops
      /\ connected /\ ~spk /\ ~lost => ctl = st
  BY DEF OutputInv, Output!TypeOK, Output!SettingsAreNotLost
<1>1. CASE Output!HostOutput
  <2>1. PICK new \in Output!Settings, allow \in SUBSET Groups, useRumble \in BOOLEAN :
          /\ \/ /\ want' = Output!StateUpdate(want, new, allow, useRumble)
                /\ st' = Output!StateUpdate(st, new, allow, useRumble)
             \/ UNCHANGED <<want, st>>
          /\ IF ~useRumble /\ spk THEN UNCHANGED <<ctl, drops, lost>>
                                  ELSE Output!Write(st')
          /\ UNCHANGED <<connected, spk, streaming>>
    BY <1>1, Zenon DEF Output!HostOutput
  <2>2. st' \in Output!Settings /\ want' = st'
    BY <2>1, <1>k, UpdateIsTyped
  <2>3. CASE ~useRumble /\ spk
    <3>1. UNCHANGED <<ctl, drops, lost, connected, spk, streaming>>
      BY <2>1, <2>3, Zenon
    <3> QED BY <1>k, <2>2, <2>3, <3>1
               DEF OutputInv, Output!TypeOK, Output!SettingsAreNotLost
  <2>4. CASE ~(~useRumble /\ spk)
    <3>1. Output!Write(st')
      BY <2>1, <2>4, Zenon
    <3>2. UNCHANGED <<connected, spk, streaming>>
      BY <2>1, Zenon
    <3> QED BY <1>k, <2>2, <3>1, <3>2, StateIsWrittenOrDropped
            DEF OutputInv, Output!TypeOK, Output!SettingsAreNotLost
  <2> QED BY <2>3, <2>4
<1>2. CASE Output!AudioPacket
  <2>1. spk /\ Output!Write(st) /\ UNCHANGED <<st, want, connected, spk, streaming>>
    BY <1>2 DEF Output!AudioPacket
  <2> QED BY <1>k, <2>1, StateIsWrittenOrDropped
          DEF OutputInv, Output!TypeOK, Output!SettingsAreNotLost
<1>3. CASE Output!SetInterface
  <2>1. /\ spk' \in BOOLEAN /\ streaming' \in BOOLEAN /\ lost' \in BOOLEAN
        /\ ~spk' /\ ~lost' => ctl = st
    BY <1>3, <1>k, Zenon DEF Output!SetInterface
  <2>2. UNCHANGED <<st, want, ctl, connected, drops>>
    BY <1>3, Zenon DEF Output!SetInterface
  <2> QED BY <1>k, <2>1, <2>2
             DEF OutputInv, Output!TypeOK, Output!SettingsAreNotLost
<1>4. CASE Output!StreamStops
  <2>1. streaming' \in BOOLEAN /\ UNCHANGED <<st, want, ctl, connected, spk, drops, lost>>
    BY <1>4, Zenon DEF Output!StreamStops
  <2> QED BY <1>k, <2>1 DEF OutputInv, Output!TypeOK, Output!SettingsAreNotLost
<1>5. CASE Output!ControllerComes
  <2>1. connected' \in BOOLEAN /\ Output!Send(st')
    BY <1>5 DEF Output!ControllerComes
  <2>2. /\ st' \in Output!Settings /\ want' = st'
        /\ UNCHANGED <<spk, streaming>>
    BY <1>5, Zenon DEF Output!ControllerComes, Output!Initial
  <2> QED BY <1>k, <2>1, <2>2, StateIsSentOrDropped
             DEF OutputInv, Output!TypeOK, Output!SettingsAreNotLost
<1>6. CASE Output!ControllerLeaves
  <2>1. connected' \in BOOLEAN /\ ~connected'
    BY <1>6, Zenon DEF Output!ControllerLeaves
  <2>2. UNCHANGED <<st, want, ctl, spk, streaming, drops, lost>>
    BY <1>6, Zenon DEF Output!ControllerLeaves
  <2> QED BY <1>k, <2>1, <2>2
             DEF OutputInv, Output!TypeOK, Output!SettingsAreNotLost
<1>7. CASE Output!SetDirectly
  <2>1. PICK g \in Groups, v \in 0..1 :
          st' = [st EXCEPT ![g] = v] /\ want' = [want EXCEPT ![g] = v]
    BY <1>7, Zenon DEF Output!SetDirectly
  <2>2. st' \in Output!Settings /\ want' = st'
    BY <2>1, <1>k DEF Output!Settings
  <2>3. lost' \in BOOLEAN /\ lost'
    BY <1>7 DEF Output!SetDirectly
  <2>4. UNCHANGED <<ctl, connected, spk, streaming, drops>>
    BY <1>7, Zenon DEF Output!SetDirectly
  <2> QED BY <1>k, <2>2, <2>3, <2>4
             DEF OutputInv, Output!TypeOK, Output!SettingsAreNotLost
<1>8. CASE UNCHANGED outputVars
  BY <1>8 DEF OutputInv, Output!TypeOK, Output!SettingsAreNotLost, outputVars
<1> QED BY <1>1, <1>2, <1>3, <1>4, <1>5, <1>6, <1>7, <1>8 DEF Output!Next

-----------------------------------------------------------------------------
(* The PS shortcut (PsShortcut)                                            *)

\* Here too.
KeysInv == Keys!TypeOK /\ Keys!ReleaseIsNotLost

\* It holds with no key down,
LEMMA KeysStart == Keys!Init => KeysInv
<1> SUFFICES ASSUME Keys!Init PROVE KeysInv
  OBVIOUS
<1>1. /\ shortcut \in BOOLEAN /\ listening \in BOOLEAN /\ pressed \in BOOLEAN
      /\ was \in BOOLEAN /\ fired \in BOOLEAN /\ pending \in BOOLEAN /\ busy \in BOOLEAN
      /\ stuck \in BOOLEAN
  BY Zenon DEF Keys!Init
<1>2. /\ highAge = Debounce + 1 /\ pressAge = Long /\ releaseIn = 0 /\ key = "none"
      /\ keyFailures = 0
  BY Zenon DEF Keys!Init
<1> QED BY <1>1, <1>2, SizesAssumption
           DEF KeysInv, Keys!TypeOK, Keys!ReleaseIsNotLost

\* ps_shortcut_tick on any report
LEMMA TickKeepsKeys ==
  ASSUME KeysInv, NEW raw \in BOOLEAN, Keys!Observe(raw)
  PROVE  /\ pressed' \in BOOLEAN /\ was' \in BOOLEAN /\ fired' \in BOOLEAN
         /\ pending' \in BOOLEAN /\ busy' \in BOOLEAN
         /\ highAge' \in 0..(Debounce + 1) /\ pressAge' \in 0..Long
         /\ releaseIn' \in 0..Release /\ key' \in {"none", "Win+G", "Win+Tab"}
         /\ key' # "none" => pending' \/ stuck'
         /\ keyFailures' \in 0..MaxFailures /\ stuck' \in BOOLEAN
<1> USE SizesAssumption
<1>k. /\ pressed \in BOOLEAN /\ was \in BOOLEAN /\ fired \in BOOLEAN
      /\ pending \in BOOLEAN /\ busy \in BOOLEAN
      /\ highAge \in 0..(Debounce + 1) /\ pressAge \in 0..Long
      /\ releaseIn \in 0..Release /\ key \in {"none", "Win+G", "Win+Tab"}
      /\ key # "none" => pending \/ stuck
      /\ keyFailures \in 0..MaxFailures /\ stuck \in BOOLEAN
  BY DEF KeysInv, Keys!TypeOK, Keys!ReleaseIsNotLost
<1> DEFINE down == raw \/ (pressed /\ highAge <= Debounce)
           up == pending /\ releaseIn = 0 /\ ~busy
           free(r) == ~busy /\ (up => r = 1)
           combination(r) == IF free(r) /\ Keys!LongDue(down) THEN "Win+Tab"
                             ELSE IF free(r) /\ Keys!ShortDue(down) THEN "Win+G"
                             ELSE "none"
<1>r. PICK refused \in 0..1 :
        /\ refused = 1 => up /\ combination(refused) # "none" /\ keyFailures < MaxFailures
        /\ pressed' = down /\ highAge' = IF raw THEN 0 ELSE highAge
        /\ was' = down /\ pressAge' = IF down /\ ~was THEN 0 ELSE pressAge
        /\ fired' = IF down /\ ~was THEN FALSE
                    ELSE fired \/ combination(refused) = "Win+Tab"
        /\ IF up \/ combination(refused) # "none"
             THEN Keys!Tell(combination(refused), keyFailures + refused)
             ELSE Keys!Quiet
        /\ pending' = (combination(refused) # "none" \/ (pending /\ ~up))
        /\ releaseIn' = IF combination(refused) # "none" THEN Release ELSE releaseIn
  BY Zenon DEF Keys!Observe
<1> DEFINE typed == combination(refused)
           told == keyFailures + refused
<1>f. told \in 0..MaxFailures
  BY <1>k, <1>r
<1>1. /\ pressed' = down /\ highAge' = IF raw THEN 0 ELSE highAge
      /\ was' = down /\ pressAge' = IF down /\ ~was THEN 0 ELSE pressAge
      /\ fired' = IF down /\ ~was THEN FALSE ELSE fired \/ typed = "Win+Tab"
      /\ IF up \/ typed # "none" THEN Keys!Tell(typed, told) ELSE Keys!Quiet
      /\ pending' = (typed # "none" \/ (pending /\ ~up))
      /\ releaseIn' = IF typed # "none" THEN Release ELSE releaseIn
  BY <1>r
<1>2. down \in BOOLEAN /\ up \in BOOLEAN
  BY <1>k, Zenon
<1>3. typed \in {"none", "Win+G", "Win+Tab"}
  BY Zenon
<1> HIDE DEF down, up, typed, told
<1>4. pressed' \in BOOLEAN /\ was' \in BOOLEAN /\ pending' \in BOOLEAN
  BY <1>1, <1>2, Zenon
<1>5. fired' \in BOOLEAN
  <2>1. CASE down /\ ~was
    BY <1>1, <2>1, Zenon
  <2>2. CASE ~(down /\ ~was)
    BY <1>1, <2>2, Zenon
  <2> QED BY <2>1, <2>2
<1>6. highAge' \in 0..(Debounce + 1)
  <2>1. highAge' = 0 \/ highAge' = highAge
    BY <1>1, Zenon
  <2> QED BY <1>k, <2>1
<1>7. pressAge' \in 0..Long
  <2>1. pressAge' = 0 \/ pressAge' = pressAge
    BY <1>1, Zenon
  <2> QED BY <1>k, <2>1
<1>8. releaseIn' \in 0..Release
  <2>1. releaseIn' = Release \/ releaseIn' = releaseIn
    BY <1>1, Zenon
  <2> QED BY <1>k, <2>1
<1>9. /\ key' \in {"none", "Win+G", "Win+Tab"} /\ busy' \in BOOLEAN
      /\ key' # "none" => pending' \/ stuck'
      /\ keyFailures' \in 0..MaxFailures /\ stuck' \in BOOLEAN
  <2>1. CASE ~(up \/ typed # "none")
    <3>1. UNCHANGED <<key, busy, keyFailures, stuck>> /\ (pending => pending')
      BY <1>1, <2>1, Zenon DEF Keys!Quiet
    <3> QED BY <1>k, <3>1, Zenon
  <2>2. CASE up \/ typed # "none"
    <3>1. Keys!Tell(typed, told) /\ (typed # "none" => pending')
      BY <1>1, <2>2, Zenon
    <3>2. CASE /\ key' = typed /\ busy' = TRUE /\ stuck' = FALSE
               /\ keyFailures' = told
      BY <1>k, <1>f, <1>3, <3>1, <3>2, Zenon
    <3>3. CASE /\ told < MaxFailures /\ keyFailures' = told + 1
               /\ stuck' = (stuck \/ typed = "none")
               /\ UNCHANGED <<key, busy>>
      <4>1. keyFailures' \in 0..MaxFailures
        BY <1>f, <3>3
      <4> QED BY <1>1, <1>k, <2>2, <3>1, <3>3, <4>1, Zenon
    <3> QED BY <3>1, <3>2, <3>3, Zenon DEF Keys!Tell
  <2> QED BY <2>1, <2>2
<1> QED BY <1>4, <1>5, <1>6, <1>7, <1>8, <1>9

\* and every tick and every event around it preserves it.
LEMMA KeysStep == KeysInv /\ [Keys!Next]_keyVars => KeysInv'
<1> SUFFICES ASSUME KeysInv, [Keys!Next]_keyVars PROVE KeysInv'
  OBVIOUS
<1> USE SizesAssumption DEF KeysInv, Keys!TypeOK, Keys!ReleaseIsNotLost
<1>1. CASE Keys!Report
  <2>1. PICK raw \in BOOLEAN : Keys!Observe(raw)
    BY <1>1, Zenon DEF Keys!Report
  <2>2. UNCHANGED <<shortcut, listening>>
    BY <1>1, Zenon DEF Keys!Report
  <2> QED BY <2>1, <2>2, TickKeepsKeys
<1>2. CASE Keys!Comes
  BY <1>2 DEF Keys!Comes
<1>3. CASE Keys!Lost
  <2>1. listening' \in BOOLEAN /\ UNCHANGED shortcut
    BY <1>3, Zenon DEF Keys!Lost
  <2>2. CASE shortcut
    <3>1. Keys!Observe(FALSE)
      BY <1>3, <2>2, Zenon DEF Keys!Lost
    <3>2. FALSE \in BOOLEAN
      OBVIOUS
    <3> QED BY <2>1, <3>1, <3>2, TickKeepsKeys
  <2>3. CASE ~shortcut
    <3>1. UNCHANGED <<pressed, highAge, was, pressAge, fired, pending, releaseIn,
                      busy, key, keyFailures, stuck>>
      BY <1>3, <2>3, Zenon DEF Keys!Lost
    <3> QED BY <2>1, <3>1
  <2> QED BY <2>2, <2>3
<1>4. CASE Keys!SetConfig
  <2>1. shortcut' \in BOOLEAN
    BY <1>4, Zenon DEF Keys!SetConfig
  <2>2. UNCHANGED <<listening, pressed, highAge, was, pressAge, fired, pending,
                    releaseIn, busy, key, keyFailures, stuck>>
    BY <1>4, Zenon DEF Keys!SetConfig
  <2> QED BY <2>1, <2>2
<1>5. CASE Keys!Unplugged
  <2>1. listening' \in BOOLEAN /\ busy' \in BOOLEAN /\ stuck' \in BOOLEAN
    BY <1>5, Zenon DEF Keys!Unplugged
  <2>2. /\ key' = "none"
        /\ UNCHANGED <<shortcut, pressed, highAge, was, pressAge, fired, pending,
                       releaseIn, keyFailures>>
    BY <1>5, Zenon DEF Keys!Unplugged
  <2> QED BY <2>1, <2>2
<1>6. CASE Keys!HostReads
  <2>1. busy' \in BOOLEAN
    BY <1>6, Zenon DEF Keys!HostReads
  <2>2. UNCHANGED <<shortcut, listening, pressed, highAge, was, pressAge, fired,
                    pending, releaseIn, key, keyFailures, stuck>>
    BY <1>6, Zenon DEF Keys!HostReads
  <2> QED BY <2>1, <2>2
<1>7. CASE Keys!Tick
  BY <1>7 DEF Keys!Tick
<1>8. CASE UNCHANGED keyVars
  BY <1>8 DEF keyVars
<1> QED BY <1>1, <1>2, <1>3, <1>4, <1>5, <1>6, <1>7, <1>8 DEF Keys!Next

-----------------------------------------------------------------------------
(* The LED (Led)                                                           *)

\* Without an ACL link there is no channel, nothing is low and nothing blinks.
LedInv ==
  /\ Lamp!TypeOK
  /\ Lamp!LedIsNotForgotten
  /\ linked => acl
  /\ ~acl => ~low /\ ~blinking

\* It holds with the LED off,
LEMMA LedStarts == Lamp!Init => LedInv
<1> SUFFICES ASSUME Lamp!Init PROVE LedInv
  OBVIOUS
<1>1. /\ linked \in BOOLEAN /\ inquiring \in BOOLEAN /\ ledStatus \in BOOLEAN
      /\ disabled \in BOOLEAN /\ fresh \in BOOLEAN /\ low \in BOOLEAN
      /\ blinking \in BOOLEAN /\ pin \in BOOLEAN /\ misled \in BOOLEAN
      /\ acl \in BOOLEAN /\ blinkOn \in BOOLEAN
      /\ ~acl /\ ~linked /\ ~low /\ ~blinking /\ ~pin
  BY Zenon DEF Lamp!Init
<1>2. flashes = 0
  BY Zenon DEF Lamp!Init
<1> QED BY <1>1, <1>2, SizesAssumption
           DEF LedInv, Lamp!TypeOK, Lamp!LedIsNotForgotten

\* A flash that leaves the LED on has toggles left.
LEMMA OddIsPositive == \A n \in Nat : n % 2 = 1 => n > 0
OBVIOUS

\* and each of the five writers preserves it.
LEMMA LedSteps == LedInv /\ [Lamp!Next]_ledVars => LedInv'
<1> SUFFICES ASSUME LedInv, [Lamp!Next]_ledVars PROVE LedInv'
  OBVIOUS
<1>k. /\ linked \in BOOLEAN /\ inquiring \in BOOLEAN /\ ledStatus \in BOOLEAN
      /\ disabled \in BOOLEAN /\ fresh \in BOOLEAN /\ low \in BOOLEAN
      /\ blinking \in BOOLEAN /\ pin \in BOOLEAN /\ misled \in BOOLEAN
      /\ acl \in BOOLEAN /\ blinkOn \in BOOLEAN
      /\ flashes \in 0..MaxFlashes
  BY DEF LedInv, Lamp!TypeOK
<1> USE DEF LedInv, Lamp!LedIsNotForgotten
<1>s. ASSUME /\ linked' \in BOOLEAN /\ inquiring' \in BOOLEAN /\ ledStatus' \in BOOLEAN
             /\ disabled' \in BOOLEAN /\ fresh' \in BOOLEAN /\ low' \in BOOLEAN
             /\ blinking' \in BOOLEAN /\ pin' \in BOOLEAN /\ misled' \in BOOLEAN
             /\ acl' \in BOOLEAN /\ blinkOn' \in BOOLEAN,
             flashes' \in 0..MaxFlashes
      PROVE  Lamp!TypeOK'
  BY <1>s, Zenon DEF Lamp!TypeOK
<1>1. CASE Lamp!Opened
  <2>1. Lamp!TypeOK'
    BY <1>1, <1>k, <1>s, Zenon DEF Lamp!Opened
  <2> QED BY <1>1, <1>k, <2>1, Zenon DEF Lamp!Opened
<1>2. CASE Lamp!Disconnected
  <2>1. Lamp!TypeOK'
    BY <1>2, <1>k, <1>s, Zenon DEF Lamp!Disconnected
  <2> QED BY <1>2, <1>k, <2>1, Zenon DEF Lamp!Disconnected
<1>3. CASE Lamp!StartInquiry
  <2>1. Lamp!TypeOK'
    BY <1>3, <1>k, <1>s, Zenon DEF Lamp!StartInquiry
  <2> QED BY <1>3, <1>k, <2>1, Zenon DEF Lamp!StartInquiry
<1>4. CASE Lamp!StopInquiry
  <2>1. Lamp!TypeOK'
    BY <1>4, <1>k, <1>s, Zenon DEF Lamp!StopInquiry
  <2> QED BY <1>4, <1>k, <2>1, Zenon DEF Lamp!StopInquiry
<1>5. CASE Lamp!Cleared
  <2>1. flashes' \in 0..MaxFlashes /\ flashes' > 0
    BY <1>5, SizesAssumption DEF Lamp!Cleared
  <2>2. Lamp!TypeOK'
    BY <1>5, <1>k, <1>s, <2>1, Zenon DEF Lamp!Cleared
  <2> QED BY <1>5, <1>k, <2>1, <2>2, Zenon DEF Lamp!Cleared
<1>6. CASE Lamp!InquiringLed
  <2>1. UNCHANGED <<acl, linked, inquiring, disabled, fresh, low, blinking, blinkOn>>
    BY <1>6, Zenon DEF Lamp!InquiringLed
  <2>2. CASE flashes > 0
    <3>1. /\ flashes' = flashes - 1 /\ pin' = (flashes' % 2 = 1) /\ misled' = linked
          /\ UNCHANGED ledStatus
      BY <1>6, <2>2, Zenon DEF Lamp!InquiringLed
    <3>2. flashes' \in 0..MaxFlashes
      <4>1. flashes' = flashes - 1
        BY <3>1, Zenon
      <4>2. flashes \in 0..MaxFlashes /\ MaxFlashes \in Nat
        BY <1>k, SizesAssumption
      <4> QED BY <2>2, <4>1, <4>2
    <3>3. flashes' % 2 = 1 => flashes' > 0
      <4>1. flashes' \in Nat
        BY <3>2, SizesAssumption
      <4> QED BY <4>1, OddIsPositive, Zenon
    <3>4. Lamp!TypeOK'
      BY <1>k, <1>s, <2>1, <3>1, <3>2, Zenon
    <3> QED BY <1>k, <2>1, <3>1, <3>3, <3>4, Zenon
  <2>3. CASE ~(flashes > 0)
    <3>1. ~linked /\ ~misled' /\ misled' \in BOOLEAN /\ UNCHANGED flashes
      BY <1>6, <2>3, Zenon DEF Lamp!InquiringLed
    <3>2. /\ ledStatus' \in BOOLEAN /\ pin' \in BOOLEAN
          /\ pin' => ledStatus'
      BY <1>6, <1>k, <2>3, Zenon DEF Lamp!InquiringLed
    <3>3. Lamp!TypeOK'
      BY <1>k, <1>s, <2>1, <3>1, <3>2, Zenon
    <3> QED BY <1>k, <2>1, <3>1, <3>2, <3>3, Zenon
  <2> QED BY <2>2, <2>3
<1>7. CASE Lamp!Report
  <2>1. fresh' \in BOOLEAN
    BY <1>7, Zenon DEF Lamp!Report
  <2>2. Lamp!TypeOK'
    BY <1>7, <1>k, <1>s, <2>1, Zenon DEF Lamp!Report
  <2> QED BY <1>7, <1>k, <2>2, Zenon DEF Lamp!Report
<1>8. CASE Lamp!GoesStale
  <2>1. Lamp!TypeOK'
    BY <1>8, <1>k, <1>s, Zenon DEF Lamp!GoesStale
  <2> QED BY <1>8, <1>k, <2>1, Zenon DEF Lamp!GoesStale
<1>9. CASE Lamp!BatteryTick
  <2>1. UNCHANGED <<acl, linked, inquiring, ledStatus, flashes, disabled, fresh, low>>
    BY <1>9, Zenon DEF Lamp!BatteryTick
  <2>2. CASE Lamp!TickStale
    <3>1. Lamp!TypeOK'
      BY <2>1, <2>2, <1>k, <1>s, Zenon DEF Lamp!TickStale
    <3> QED BY <2>1, <2>2, <1>k, <3>1, Zenon DEF Lamp!TickStale
  <2>3. CASE Lamp!TickLow
    <3>1. /\ pin' \in BOOLEAN /\ misled' \in BOOLEAN /\ low /\ blinkOn' \in BOOLEAN
      BY <2>3, <1>k, Zenon DEF Lamp!TickLow
    <3>2. blinking' \in BOOLEAN /\ blinking'
      BY <2>3 DEF Lamp!TickLow
    <3>3. Lamp!TypeOK'
      BY <2>1, <1>k, <1>s, <3>1, <3>2, Zenon
    <3> QED BY <2>1, <1>k, <3>1, <3>2, <3>3, Zenon
  <2>4. CASE Lamp!TickRecovered
    <3>1. Lamp!TypeOK'
      BY <2>1, <2>4, <1>k, <1>s, Zenon DEF Lamp!TickRecovered
    <3> QED BY <2>1, <2>4, <1>k, <3>1, Zenon DEF Lamp!TickRecovered
  <2> QED BY <1>9, <2>2, <2>3, <2>4, Zenon DEF Lamp!BatteryTick
<1>10. CASE Lamp!SetConfig
  <2>1. Lamp!TypeOK'
    BY <1>10, <1>k, <1>s, Zenon DEF Lamp!SetConfig
  <2> QED BY <1>10, <1>k, <2>1, Zenon DEF Lamp!SetConfig
<1>12. CASE Lamp!LinkComes
  <2>1. Lamp!TypeOK'
    BY <1>12, <1>k, <1>s, Zenon DEF Lamp!LinkComes
  <2> QED BY <1>12, <1>k, <2>1, Zenon DEF Lamp!LinkComes
<1>13. CASE Lamp!ChannelLost
  <2>1. Lamp!TypeOK'
    BY <1>13, <1>k, <1>s, Zenon DEF Lamp!ChannelLost
  <2> QED BY <1>13, <1>k, <2>1, Zenon DEF Lamp!ChannelLost
<1>11. CASE UNCHANGED ledVars
  BY <1>11, Zenon DEF Lamp!TypeOK, ledVars
<1> QED BY <1>1, <1>2, <1>3, <1>4, <1>5, <1>6, <1>7, <1>8, <1>9, <1>10, <1>11,
           <1>12, <1>13, Zenon DEF Lamp!Next

-----------------------------------------------------------------------------
(* The device on the bus (UsbPresence)                                     *)

\* An answer has told the kind.
PresenceInv ==
  /\ Presence!TypeOK
  /\ Presence!AnsweredIsShown
  /\ link # "none" /\ ~check => (isDse <=> link = "Edge")

\* The host enumerates the descriptors of one of the three devices.
LEMMA FacesAreTyped ==
  ASSUME NEW s, NEW e
  PROVE  Presence!Face(s, e) \in Presence!Kinds \cup {"Switch Pro", "none"}
BY Zenon DEF Presence!Face, Presence!Kinds

\* The descriptors depend on what the Booleans say only.
LEMMA FaceOfEdge ==
  ASSUME NEW s, NEW e, NEW k, e <=> k = "Edge"
  PROVE  Presence!Face(s, e) = Presence!Face(s, k = "Edge")
<1>1. CASE s
  BY <1>1, Zenon DEF Presence!Face
<1>2. CASE ~s /\ e
  BY <1>2, Zenon DEF Presence!Face
<1>3. CASE ~s /\ ~e
  BY <1>3, Zenon DEF Presence!Face
<1> QED BY <1>1, <1>2, <1>3, Zenon

\* It holds before the first controller,
LEMMA PresenceStarts == Presence!Init => PresenceInv
<1> SUFFICES ASSUME Presence!Init PROVE PresenceInv
  OBVIOUS
<1>1. /\ check \in BOOLEAN /\ request \in BOOLEAN /\ isDse \in BOOLEAN
      /\ wake \in BOOLEAN /\ switching \in BOOLEAN /\ shown \in BOOLEAN
      /\ asleep \in BOOLEAN /\ foreign \in BOOLEAN /\ owed \in BOOLEAN
      /\ missed \in BOOLEAN
  BY Zenon DEF Presence!Init
<1>2. link = "none" /\ face = "none"
  BY Zenon DEF Presence!Init
<1> QED BY <1>1, <1>2, Zenon
           DEF PresenceInv, Presence!TypeOK, Presence!AnsweredIsShown

\* The device is enumerated as what is known of the controller (Enumerate).
LEMMA EnumeratedIsShown ==
  ASSUME PresenceInv, NEW s, Presence!Enumerate(s), switching' = s,
         UNCHANGED <<link, check, isDse>>
  PROVE  /\ shown' \in BOOLEAN /\ asleep' \in BOOLEAN /\ foreign' \in BOOLEAN
         /\ missed' \in BOOLEAN
         /\ face' \in Presence!Kinds \cup {"Switch Pro", "none"}
         /\ Presence!AnsweredIsShown'
         /\ link' # "none" /\ ~check' => (isDse' <=> link' = "Edge")
<1>1. shown' \in BOOLEAN /\ shown'
  BY DEF Presence!Enumerate
<1>2. asleep' \in BOOLEAN /\ foreign' \in BOOLEAN /\ missed' \in BOOLEAN
  BY Zenon DEF Presence!Enumerate
<1>3. face' = Presence!Face(s, isDse)
  BY Zenon DEF Presence!Enumerate
<1>4. link # "none" /\ ~check => (isDse <=> link = "Edge")
  BY DEF PresenceInv
<1>5. link' = link /\ (check' <=> check) /\ (isDse' <=> isDse) /\ switching' = s
  BY Zenon
<1>6. (isDse <=> link = "Edge") =>
        Presence!Face(s, isDse) = Presence!Face(s, link = "Edge")
  BY FaceOfEdge, Zenon
<1>7. link' # "none" /\ ~check' => face' = Presence!Face(switching', link' = "Edge")
  BY <1>3, <1>4, <1>5, <1>6, Zenon
<1>8. Presence!AnsweredIsShown'
  BY <1>1, <1>7, Zenon DEF Presence!AnsweredIsShown
<1>9. face' \in Presence!Kinds \cup {"Switch Pro", "none"}
  BY <1>3, FacesAreTyped, Zenon
<1>10. link' # "none" /\ ~check' => (isDse' <=> link' = "Edge")
  BY <1>4, <1>5, Zenon
<1> QED BY <1>1, <1>2, <1>8, <1>9, <1>10, Zenon

\* and every answer, loss, button and event of the host preserves it.
LEMMA PresenceSteps == PresenceInv /\ [Presence!Next]_presenceVars => PresenceInv'
<1> SUFFICES ASSUME PresenceInv, [Presence!Next]_presenceVars PROVE PresenceInv'
  OBVIOUS
<1> USE DEF PresenceInv
<1>k. /\ link \in Presence!Kinds \cup {"none"} /\ check \in BOOLEAN /\ request \in BOOLEAN
      /\ isDse \in BOOLEAN /\ wake \in BOOLEAN /\ switching \in BOOLEAN
      /\ shown \in BOOLEAN /\ face \in Presence!Kinds \cup {"Switch Pro", "none"}
      /\ asleep \in BOOLEAN /\ missed \in BOOLEAN /\ foreign \in BOOLEAN
      /\ owed \in BOOLEAN
  BY DEF Presence!TypeOK
<1>s. ASSUME /\ check' \in BOOLEAN /\ request' \in BOOLEAN /\ isDse' \in BOOLEAN
             /\ wake' \in BOOLEAN /\ switching' \in BOOLEAN /\ shown' \in BOOLEAN
             /\ asleep' \in BOOLEAN /\ missed' \in BOOLEAN /\ foreign' \in BOOLEAN
             /\ owed' \in BOOLEAN,
             link' \in Presence!Kinds \cup {"none"},
             face' \in Presence!Kinds \cup {"Switch Pro", "none"}
      PROVE  Presence!TypeOK'
  BY <1>s, Zenon DEF Presence!TypeOK
<1>a. ASSUME UNCHANGED <<link, check, isDse, switching, shown, face, missed, foreign>>
      PROVE  /\ Presence!AnsweredIsShown'
             /\ link' # "none" /\ ~check' => (isDse' <=> link' = "Edge")
  <2>1. /\ link # "none" /\ ~check => (isDse <=> link = "Edge")
        /\ Presence!AnsweredIsShown
    BY Zenon
  <2>2. Presence!AnsweredIsShown'
    BY <1>a, <2>1, Zenon DEF Presence!AnsweredIsShown
  <2> QED BY <1>a, <2>1, <2>2, Zenon
<1>1. CASE Presence!Opened
  <2>1. check' \in BOOLEAN /\ check'
    BY <1>1 DEF Presence!Opened
  <2>2. /\ link' \in Presence!Kinds /\ request' \in BOOLEAN
        /\ UNCHANGED <<isDse, wake, switching, shown, face, asleep, missed, foreign,
                       owed>>
    BY <1>1, Zenon DEF Presence!Opened
  <2>3. Presence!TypeOK'
    BY <1>k, <2>1, <2>2 DEF Presence!TypeOK
  <2> QED BY <1>k, <2>1, <2>2, <2>3, Zenon DEF Presence!AnsweredIsShown
<1>2. CASE Presence!Answered
  <2>1. /\ request' \in BOOLEAN /\ check' \in BOOLEAN /\ owed' \in BOOLEAN
        /\ isDse' \in BOOLEAN /\ (isDse' <=> link = "Edge")
        /\ UNCHANGED <<link, wake, switching, asleep>>
    BY <1>2, Zenon DEF Presence!Answered
  <2>2. /\ shown' \in BOOLEAN /\ missed' \in BOOLEAN /\ (shown' \/ missed')
        /\ shown => shown'
    BY <1>2, <1>k, Zenon DEF Presence!Answered
  <2>3. /\ foreign' \in BOOLEAN
        /\ shown => (foreign' <=> face # Presence!Face(switching, isDse'))
    BY <1>2, Zenon DEF Presence!Answered
  <2>4. IF ~shown /\ shown' THEN face' = Presence!Face(switching, isDse')
                           ELSE face' = face
    BY <1>2, <2>2, Zenon DEF Presence!Answered
  <2>5. Presence!Face(switching, isDse') = Presence!Face(switching, link = "Edge")
    BY <2>1, FaceOfEdge, Zenon
  <2>6. face' \in Presence!Kinds \cup {"Switch Pro", "none"}
    BY <1>k, <2>4, FacesAreTyped, Zenon
  <2>7. Presence!TypeOK'
    BY <1>k, <2>1, <2>2, <2>3, <2>6, Zenon DEF Presence!TypeOK
  <2>8. Presence!AnsweredIsShown'
    BY <2>1, <2>2, <2>3, <2>4, <2>5, Zenon DEF Presence!AnsweredIsShown
  <2> QED BY <2>1, <2>2, <2>7, <2>8, Zenon
<1>3. CASE Presence!Lost
  <2>1. /\ link' = "none" /\ request' \in BOOLEAN /\ missed' \in BOOLEAN
        /\ UNCHANGED <<check, isDse, wake, switching, asleep>>
    BY <1>3, Zenon DEF Presence!Lost
  <2>2. CASE ~wake /\ ~asleep
    <3>1. /\ shown' \in BOOLEAN /\ foreign' \in BOOLEAN /\ owed' \in BOOLEAN
          /\ face' = "none"
      BY <1>3, <2>2, Zenon DEF Presence!Lost
    <3> QED BY <1>k, <2>1, <2>2, <3>1, Zenon
               DEF Presence!TypeOK, Presence!AnsweredIsShown
  <2>3. CASE ~(~wake /\ ~asleep)
    <3>1. owed' \in BOOLEAN /\ UNCHANGED <<shown, face, foreign>>
      BY <1>3, <1>k, <2>3, Zenon DEF Presence!Lost
    <3> QED BY <1>k, <2>1, <3>1, Zenon
               DEF Presence!TypeOK, Presence!AnsweredIsShown
  <2> QED BY <2>2, <2>3
<1>4. CASE Presence!Toggle
  <2>1. /\ switching' \in BOOLEAN /\ owed' \in BOOLEAN /\ Presence!Enumerate(switching')
        /\ UNCHANGED <<link, check, request, isDse, wake>>
    BY <1>4, Zenon DEF Presence!Toggle
  <2>2. /\ shown' \in BOOLEAN /\ asleep' \in BOOLEAN /\ foreign' \in BOOLEAN
        /\ missed' \in BOOLEAN
        /\ face' \in Presence!Kinds \cup {"Switch Pro", "none"}
        /\ Presence!AnsweredIsShown'
        /\ link' # "none" /\ ~check' => (isDse' <=> link' = "Edge")
    BY <2>1, EnumeratedIsShown, Zenon
  <2> QED BY <1>k, <2>1, <2>2, Zenon DEF Presence!TypeOK
<1>5. CASE Presence!Reconnect
  <2>1. /\ owed' \in BOOLEAN /\ Presence!Enumerate(switching)
        /\ UNCHANGED <<link, check, request, isDse, wake, switching>>
    BY <1>5, Zenon DEF Presence!Reconnect
  <2>2. /\ shown' \in BOOLEAN /\ asleep' \in BOOLEAN /\ foreign' \in BOOLEAN
        /\ missed' \in BOOLEAN
        /\ face' \in Presence!Kinds \cup {"Switch Pro", "none"}
        /\ Presence!AnsweredIsShown'
        /\ link' # "none" /\ ~check' => (isDse' <=> link' = "Edge")
    BY <2>1, EnumeratedIsShown, Zenon
  <2> QED BY <1>k, <2>1, <2>2, Zenon DEF Presence!TypeOK
<1>6. CASE Presence!SetWake
  <2>1. /\ wake' \in BOOLEAN
        /\ UNCHANGED <<link, check, request, isDse, switching, shown, face, asleep,
                       missed, foreign, owed>>
    BY <1>6, Zenon DEF Presence!SetWake
  <2>2. Presence!TypeOK'
    BY <1>k, <1>s, <2>1, Zenon
  <2> QED BY <1>a, <2>1, <2>2, Zenon
<1>7. CASE Presence!HostSleeps
  <2>1. asleep' \in BOOLEAN
    BY <1>7, Zenon DEF Presence!HostSleeps
  <2>2. UNCHANGED <<link, check, request, isDse, wake, switching, shown, face,
                    missed, foreign, owed>>
    BY <1>7, Zenon DEF Presence!HostSleeps
  <2>3. Presence!TypeOK'
    BY <1>k, <1>s, <2>1, <2>2, Zenon
  <2> QED BY <1>a, <2>2, <2>3, Zenon
<1>8. CASE Presence!HostWakes
  <2>1. UNCHANGED <<link, check, request, isDse, wake, switching, owed>>
    BY <1>8, Zenon DEF Presence!HostWakes
  <2>2. CASE asleep' = FALSE /\ UNCHANGED <<shown, face, missed, foreign>>
    <3>1. asleep' \in BOOLEAN
      BY <2>2, Zenon
    <3>2. Presence!TypeOK'
      BY <1>k, <1>s, <2>1, <2>2, <3>1, Zenon
    <3> QED BY <1>a, <2>1, <2>2, <3>2, Zenon
  <2>3. CASE Presence!Enumerate(switching)
    <3>1. /\ shown' \in BOOLEAN /\ asleep' \in BOOLEAN /\ foreign' \in BOOLEAN
          /\ missed' \in BOOLEAN
          /\ face' \in Presence!Kinds \cup {"Switch Pro", "none"}
          /\ Presence!AnsweredIsShown'
          /\ link' # "none" /\ ~check' => (isDse' <=> link' = "Edge")
      BY <2>1, <2>3, EnumeratedIsShown, Zenon
    <3> QED BY <1>k, <2>1, <3>1, Zenon DEF Presence!TypeOK
  <2> QED BY <1>8, <2>2, <2>3, Zenon DEF Presence!HostWakes
<1>9. CASE UNCHANGED presenceVars
  <2>1. UNCHANGED <<link, check, isDse, switching, shown, face, missed, foreign>>
    BY <1>9, Zenon DEF presenceVars
  <2>2. UNCHANGED <<request, wake, asleep, owed>>
    BY <1>9, Zenon DEF presenceVars
  <2>3. Presence!TypeOK'
    BY <1>k, <1>s, <2>1, <2>2, Zenon
  <2> QED BY <1>a, <2>1, <2>3, Zenon
<1> QED BY <1>1, <1>2, <1>3, <1>4, <1>5, <1>6, <1>7, <1>8, <1>9, Zenon
           DEF Presence!Next

-----------------------------------------------------------------------------
(* All parts                                                               *)

\* The invariants of all parts
IInv ==
  /\ ProInv /\ RumbleInv /\ byte \in 0..255 /\ HidInv /\ OutputInv /\ KeysInv
  /\ LedInv /\ MicInv /\ SpeakerInv /\ PresenceInv

\* A step of one part leaves the others as they are.
LEMMA PartsStep ==
  ASSUME [Next]_vars
  PROVE  /\ [Pro!Next]_proVars /\ [Rumble!Next]_rumbleVars /\ [Data!NextByte]_byte
         /\ [Hid!Next]_hidVars /\ [Output!Next]_outputVars /\ [Keys!Next]_keyVars
         /\ [Lamp!Next]_ledVars /\ [Mic!Next]_(Mic!vars)
         /\ [Speaker!Next]_(Speaker!vars) /\ [Presence!Next]_presenceVars
<1>1. UNCHANGED micVars => UNCHANGED Mic!vars
  BY Zenon DEF micVars, Mic!vars
<1>2. UNCHANGED speakerVars => UNCHANGED Speaker!vars
  BY Zenon DEF speakerVars, Speaker!vars
<1> QED BY <1>1, <1>2, Zenon
           DEF Next, vars, ProStep, RumbleStep, DataStep, InputStep, OutputStep,
       KeyStep, LedStep, MicStep, SpeakerStep, PresenceStep

\* All parts start in their invariants,
LEMMA PartsStart == Init => IInv
<1>1. Data!Init => byte \in 0..255
  BY DEF Data!Init
<1> QED BY <1>1, ProStarts, RumbleStarts, HidStarts, OutputStarts, KeysStart,
           LedStarts,
           MicStarts, SpeakerStarts, PresenceStarts, Zenon DEF Init, IInv

\* the byte of SwitchData stays one,
LEMMA ByteSteps == byte \in 0..255 /\ [Data!NextByte]_byte => byte' \in 0..255
BY DEF Data!NextByte

\* and every step keeps them all.
LEMMA PartsKeep == IInv /\ [Next]_vars => IInv'
<1> SUFFICES ASSUME IInv, [Next]_vars PROVE IInv'
  OBVIOUS
<1>1. /\ [Pro!Next]_proVars /\ [Rumble!Next]_rumbleVars /\ [Data!NextByte]_byte
      /\ [Hid!Next]_hidVars /\ [Output!Next]_outputVars /\ [Keys!Next]_keyVars
      /\ [Lamp!Next]_ledVars /\ [Mic!Next]_(Mic!vars)
      /\ [Speaker!Next]_(Speaker!vars) /\ [Presence!Next]_presenceVars
  BY PartsStep
<1>2. ProInv' /\ RumbleInv' /\ HidInv' /\ OutputInv' /\ KeysInv'
  BY <1>1, ProSteps, RumbleSteps, HidSteps, OutputSteps, KeysStep, Zenon DEF IInv
<1>3. LedInv' /\ MicInv' /\ SpeakerInv' /\ PresenceInv'
  BY <1>1, LedSteps, MicSteps, SpeakerSteps, PresenceSteps, Zenon DEF IInv
<1>4. (byte \in 0..255)'
  BY <1>1, ByteSteps, Zenon DEF IInv
<1> QED BY <1>2, <1>3, <1>4, Zenon DEF IInv

\* IInv holds in every state.
LEMMA Invariance == Spec => []IInv
BY PartsStart, PartsKeep, PTL DEF Spec

\* Queues, counters, timers and slots of all ten components stay in their ranges,
\* for all intervals, time limits, capacities and numbers of packets.
THEOREM TypeCorrect == Spec => []TypeOK
<1>1. IInv => TypeOK
  BY Zenon
     DEF IInv, TypeOK, ProInv, RumbleInv, HidInv, OutputInv, KeysInv, LedInv,
         MicInv,
         SpeakerInv, PresenceInv
<1> QED BY <1>1, Invariance, PTL

\* What has not arrived is on its way, in every component: the answer to the last
\* command (switch_pro_protocol.cpp), the silence after a rumble
\* (switch_rumble_adapter.cpp), the last report of the controller (main.cpp), the
\* host's settings (state_mgr.cpp), the release of a key (ps_shortcut.cpp), the
\* right state of the LED, and the device of a controller that has answered (bt.cpp).
THEOREM NothingIsLostEver == Spec => []NothingIsLost
<1>1. IInv => NothingIsLost
  BY Zenon
     DEF IInv, NothingIsLost, ProInv, RumbleInv, HidInv, OutputInv, KeysInv,
         LedInv, PresenceInv
<1> QED BY <1>1, Invariance, PTL

\* The arithmetic of Switch mode keeps what DataProofs shows of it, whatever byte it
\* is done on: sticks, buttons, sensors, SPI reads, rumble codes, ramps and mixed
\* samples (dualsense_parser.cpp, switch_pro_protocol.cpp, switch_rumble.cpp,
\* switch_haptics_synth.cpp).
THEOREM ConversionsSoundEver == Spec => []ConversionsSound
<1>1. IInv => byte \in 0..255
  BY Zenon DEF IInv
<1>2. IInv => ConversionsSound
  BY <1>1, ConversionsAreSound, Zenon DEF ConversionsSound
<1> QED BY <1>2, Invariance, PTL

\* A Switch host never reads an answer older than one it has read, although the slot
\* is overwritten and resets come between (next_report, set_report).
THEOREM AnswersInOrder == Spec => [][answered' >= answered]_answered
<1>1. IInv /\ [Next]_vars => answered' >= answered
  BY PartsStep, ProSteps, Zenon DEF IInv
<1>2. IInv /\ [Next]_vars => [answered' >= answered]_answered
  BY <1>1
<1> QED BY <1>2, Invariance, PTL DEF Spec

\* Both audio paths implement the safety half of LossyQueue (AudioProofs), in the
\* specification the runs check.
THEOREM AudioPathsLoseAndKeepOrder ==
  Spec => /\ Mic!LQ!Init /\ [][Mic!LQ!Next]_(Mic!LQ!vars)
          /\ Speaker!LQ!Init /\ [][Speaker!LQ!Next]_(Speaker!LQ!vars)
<1>1. Init => Mic!LQ!Init /\ Speaker!LQ!Init
  BY MicStartsAsQueue, SpeakerStartsAsQueue, Zenon DEF Init
<1>2. IInv /\ IInv' /\ [Next]_vars =>
        [Mic!LQ!Next]_(Mic!LQ!vars) /\ [Speaker!LQ!Next]_(Speaker!LQ!vars)
  <2> SUFFICES ASSUME IInv, IInv', [Next]_vars
               PROVE  [Mic!LQ!Next]_(Mic!LQ!vars) /\ [Speaker!LQ!Next]_(Speaker!LQ!vars)
    OBVIOUS
  <2>1. MicInv /\ MicInv' /\ SpeakerInv /\ SpeakerInv'
    BY Zenon DEF IInv
  <2> QED BY <2>1, PartsStep, MicStepIsQueueStep, SpeakerStepIsQueueStep
<1> QED BY <1>1, <1>2, Invariance, PTL DEF Spec
=============================================================================
