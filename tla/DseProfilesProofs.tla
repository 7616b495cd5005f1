------------------------- MODULE DseProfilesProofs -------------------------
(***************************************************************************)
(* The profile gate of DseProfiles, for any number of reports and any      *)
(* times.                                                                  *)
(***************************************************************************)
EXTENDS DseProfiles, TLAPS

\* A prefetch that will open the gate has asked for the reports before the
\* next one, since the unlock of this connection.
MarkedIsComplete ==
  mark => next # 0 /\ got = 1..(next - 1)

\* Unlock and gate belong to a connected Edge; dse_task sees every loss of the
\* control channel before the next connection can start.
OfThisEdge == unlocking \/ mark => edge \/ ctrl = "closed"

IInv == TypeOK /\ MarkedIsComplete /\ OfThisEdge

LEMMA InitEstablishes == Init => IInv
<1>1. Init => TypeOK
  <2>1. Init => got \subseteq 1..Reports
    BY Zenon DEF Init
  <2>2. Init => /\ unlockAge \in 0..UnlockWait /\ saveAge \in 0..RefetchAt
                /\ next \in 0..Reports /\ getAge \in 0..Pace
                /\ round \in 0..(Polls + 2)
    BY TimesAssumption DEF Init, Polls
  <2>. QED
    BY <2>1, <2>2 DEF Init, TypeOK
<1>2. Init => MarkedIsComplete /\ OfThisEdge
  BY DEF Init, MarkedIsComplete, OfThisEdge
<1>. QED
  BY <1>1, <1>2 DEF IInv

LEMMA OlderType ==
  ASSUME NEW limit \in Nat, NEW age \in 0..limit
  PROVE  Older(age, limit) \in 0..limit
BY DEF Older

LEMMA TaskPreserves ==
  ASSUME IInv, Task
  PROVE  IInv'
<1>. USE TimesAssumption DEF IInv, TypeOK
<1>1. /\ ctrl' \in {"open", "closed", "gone"} /\ edge' \in BOOLEAN
      /\ unlockAge' \in 0..UnlockWait /\ saveAge' \in 0..RefetchAt
  BY DEF Task
<1>2. /\ ready' \in BOOLEAN /\ unlocking' \in BOOLEAN /\ saved' \in BOOLEAN
      /\ mark' \in BOOLEAN
  BY Zenon DEF Task, TaskMark
<1>3. next' \in 0..Reports
  BY DEF Task, TaskNext, LastGet, GetDue
<1>4. getAge' \in 0..Pace
  BY DEF Task
<1>5. round' \in 0..(Polls + 2)
  BY DEF Task, RoundDue, RefetchDue, Polls
<1>6. got' \subseteq 1..Reports
  <2>1. GetDue => next \in 1..Reports
    BY DEF GetDue
  <2>2. got' \subseteq got \cup (IF GetDue THEN {next} ELSE {})
    BY DEF Task
  <2>. QED
    BY <2>1, <2>2
<1>7. MarkedIsComplete'
  <2>1. CASE UnlockDue
    BY <2>1 DEF Task, TaskNext, PrefetchStart, MarkedIsComplete
  <2>2. CASE ~UnlockDue /\ mark'
    <3>1. mark /\ ~RefetchDue /\ ~Aborted /\ ~LastGet
      BY <2>2 DEF Task, TaskMark
    <3>2. CASE GetDue
      <4>1. next' = next + 1 /\ got' = got \cup {next}
        BY <2>2, <3>1, <3>2 DEF Task, TaskNext, PrefetchStart
      <4>2. got = 1..(next - 1) /\ next \in 1..Reports
        BY <3>1 DEF MarkedIsComplete
      <4>3. got' = 1..(next' - 1)
        BY <4>1, <4>2
      <4>. QED
        BY <4>1, <4>2, <4>3 DEF MarkedIsComplete
    <3>3. CASE ~GetDue
      BY <2>2, <3>1, <3>3
      DEF Task, TaskNext, PrefetchStart, MarkedIsComplete
    <3>. QED
      BY <3>2, <3>3
  <2>. QED
    BY <2>1, <2>2 DEF MarkedIsComplete
<1>8. OfThisEdge'
  <2>1. ASSUME unlocking' \/ mark' PROVE edge /\ ctrl = "open"
    BY <2>1
    DEF Task, TaskMark, UnlockDue, Aborted, OfThisEdge, MarkedIsComplete
  <2>. QED
    BY <2>1 DEF Task, OfThisEdge
<1>. QED
  BY <1>1, <1>2, <1>3, <1>4, <1>5, <1>6, <1>7, <1>8

LEMMA StepPreserves == IInv /\ [Next]_vars => IInv'
<1> SUFFICES ASSUME IInv, [Next]_vars PROVE IInv'
  OBVIOUS
<1>. USE TimesAssumption DEF IInv, TypeOK, MarkedIsComplete, OfThisEdge,
                             prefetchVars, saveVars, vars
<1>1. CASE ControlOpened
  BY <1>1 DEF ControlOpened
<1>2. CASE ControlLost
  BY <1>2 DEF ControlLost
<1>3. CASE OnConnect
  <2>a. got' \subseteq 1..Reports
    BY <1>3, Zenon DEF OnConnect
  <2>b. unlockAge' \in 0..UnlockWait
    BY <1>3 DEF OnConnect
  <2>1. TypeOK'
    BY <1>3, <2>a, <2>b DEF OnConnect
  <2>2. ~mark /\ mark' = mark
    BY <1>3 DEF OnConnect
  <2>. QED
    BY <1>3, <2>1, <2>2 DEF OnConnect
<1>4. CASE OnProfileWrite
  <2>1. TypeOK'
    <3>1. /\ saved' \in BOOLEAN /\ saveAge' \in 0..RefetchAt
          /\ round' \in 0..(Polls + 2)
      BY <1>4 DEF OnProfileWrite, Polls
    <3>. QED
      BY <1>4, <3>1 DEF OnProfileWrite
  <2>. QED
    BY <1>4, <2>1 DEF OnProfileWrite
<1>5. CASE Task
  BY <1>5, TaskPreserves
<1>6. CASE Tick
  <2>1. /\ unlockAge' \in 0..UnlockWait /\ saveAge' \in 0..RefetchAt
        /\ getAge' \in 0..Pace
    BY <1>6, OlderType DEF Tick
  <2>. QED
    BY <1>6, <2>1 DEF Tick
<1>7. CASE UNCHANGED vars
  BY <1>7
<1>. QED
  BY <1>1, <1>2, <1>3, <1>4, <1>5, <1>6, <1>7 DEF Next, Events

LEMMA Invariance == Spec => []IInv
BY InitEstablishes, StepPreserves, PTL DEF Spec

\* The sequencer, the post-save cycle and the unlock wait keep their types:
\* prefetch_next never runs past the last report and post_save_round never
\* past 8, however events fall between the turns of dse_task.
THEOREM TypeCorrect == Spec => []TypeOK
<1>1. IInv => TypeOK
  BY DEF IInv
<1>. QED
  BY <1>1, Invariance, PTL

\* While the Edge is connected, the gate only opens on the last report of a
\* sequence that asked for all of them.
THEOREM GateOpensComplete == Spec => SnapshotComplete
<1>1. ASSUME IInv, [Next]_vars, ~ready, ready', ctrl = "open"
      PROVE  got \cup {next} = 1..Reports
  <2>1. Task
    BY <1>1 DEF Next, Events, ControlOpened, ControlLost, OnConnect,
                OnProfileWrite, Tick, vars
  <2>2. LastGet /\ mark
    BY <1>1, <2>1 DEF Task
  <2>. QED
    BY <1>1, <2>2, TimesAssumption
    DEF IInv, TypeOK, MarkedIsComplete, LastGet, GetDue
<1>2. IInv /\ [Next]_vars
        => [~ready /\ ready' /\ ctrl = "open"
              => got \cup {next} = 1..Reports]_vars
  BY <1>1
<1>. QED
  BY <1>2, Invariance, PTL DEF Spec, SnapshotComplete

-----------------------------------------------------------------------------
\* No refetch after a save begins while an unlock prefetch is being made: only that
\* step of the post-save cycle forgets profile_written_ms.
RefetchesKeepClear == [][saved /\ ~saved' => ~mark]_vars

\* A connected Edge whose profiles are not readable yet is waiting for its unlock or
\* being fetched by a sequence that will open the gate.
UnreadableIsWorkedOn == edge /\ ~ready => unlocking \/ mark

\* The check of an Edge is over only while its control channel is open.
EdgeHasControl == edge => ctrl = "open"

\* Work on a closed gate is never forgotten (dse.cpp:22-25), whatever channel losses,
\* saves and late turns fall into it, as long as no refetch falls into an unlock
\* prefetch: the overwritten prefetch_mark_ready of dse.cpp:139 is the only way to
\* what ConnectedEdgeBecomesReady shows.
THEOREM GateIsNotForgotten == Spec /\ RefetchesKeepClear => []UnreadableIsWorkedOn
<1>1. Init => UnreadableIsWorkedOn /\ EdgeHasControl
  BY DEF Init, UnreadableIsWorkedOn, EdgeHasControl
<1>2. EdgeHasControl /\ [Next]_vars => EdgeHasControl'
  BY DEF EdgeHasControl, Next, Events, ControlOpened, ControlLost, OnConnect,
         OnProfileWrite, Task, Tick, vars
<1>3. ASSUME EdgeHasControl, UnreadableIsWorkedOn, [Next]_vars,
             [saved /\ ~saved' => ~mark]_vars
      PROVE  UnreadableIsWorkedOn'
  <2>0. saved /\ ~saved' => ~mark
    <3>1. CASE vars' = vars
      <4>1. saved' = saved
        BY <3>1, Zenon DEF vars, saveVars
      <4> QED BY <4>1, Zenon
    <3> QED BY <1>3, <3>1, Zenon
  <2>1. CASE Task
    <3> SUFFICES ASSUME edge, ~ready' PROVE unlocking' \/ mark'
      BY <2>1 DEF Task, UnreadableIsWorkedOn
    <3>1. ~ready /\ ~(LastGet /\ mark) /\ ~(unlocking /\ ctrl # "open")
      BY <2>1 DEF Task
    <3>2. CASE UnlockDue
      BY <2>1, <3>2, Zenon DEF Task, TaskMark
    <3>3. CASE unlocking /\ ~UnlockDue
      BY <2>1, <3>1, <3>3, Zenon DEF Task
    <3>4. CASE mark /\ ~UnlockDue
      <4>1. ~RefetchDue
        <5>1. RefetchDue => saved /\ ~saved'
          BY <2>1, Zenon DEF RefetchDue, SaveActive, Task
        <5> QED BY <2>0, <3>4, <5>1, Zenon
      <4>2. ~Aborted
        BY <1>3 DEF Aborted, EdgeHasControl
      <4> QED
        BY <2>1, <3>1, <3>4, <4>1, <4>2, Zenon DEF Task, TaskMark
    <3> QED
      BY <1>3, <3>1, <3>2, <3>3, <3>4 DEF UnreadableIsWorkedOn
  <2>2. CASE OnConnect
    BY <2>2 DEF OnConnect, UnreadableIsWorkedOn
  <2>3. CASE ControlLost
    BY <2>3 DEF ControlLost, UnreadableIsWorkedOn
  <2>4. ASSUME UNCHANGED <<edge, ready, unlocking, mark>>
        PROVE  UnreadableIsWorkedOn'
    BY <1>3, <2>4 DEF UnreadableIsWorkedOn
  <2> QED
    BY <1>3, <2>1, <2>2, <2>3, <2>4
    DEF Next, Events, ControlOpened, OnProfileWrite, Tick, vars, prefetchVars
<1>4. /\ EdgeHasControl /\ UnreadableIsWorkedOn /\ [Next]_vars
      /\ [saved /\ ~saved' => ~mark]_vars
      => UnreadableIsWorkedOn'
  BY <1>3
<1> QED
  BY <1>1, <1>2, <1>4, PTL DEF Spec, RefetchesKeepClear
=============================================================================
