---------------------------- MODULE DseProfiles ----------------------------
(***************************************************************************)
(* DualSense Edge profiles (src/src/dse.cpp): after an Edge connects, its  *)
(* profile reports are unlocked, fetched one by one and only then shown to *)
(* the host; after a profile is saved the snapshot is fetched again.       *)
(*                                                                         *)
(* Time is in ticks.  An age stands for now - <timestamp> and stops at the *)
(* largest value the code compares it with.  dse_task runs in every turn   *)
(* of the main loop, and any time may pass between two turns.              *)
(***************************************************************************)
EXTENDS Naturals

CONSTANTS
  Reports,      \* number of profile reports 0x70 .. 0x7B (12)
  Pace,         \* 80 ms between two GETs
  UnlockWait,   \* 4000 ms for the controller to prepare the snapshot
  SaveDelay,    \* 500 ms from a profile write to the renewed unlock
  PollStart, PollStep, \* 1000 ms and 250 ms of the status polls
  RefetchAt     \* 5500 ms from a profile write to the refetch

ASSUME TimesAssumption ==
  /\ Reports \in Nat \ {0} /\ Pace \in Nat \ {0} /\ UnlockWait \in Nat
  /\ SaveDelay \in Nat /\ PollStart \in Nat /\ PollStep \in Nat
  /\ RefetchAt \in Nat
  /\ SaveDelay <= RefetchAt /\ PollStart + 5 * PollStep <= RefetchAt

Polls == 6

VARIABLES
  ctrl,        \* hid_control_cid: "open", "closed", or "gone" when dse_task
               \* has run since it closed
  edge,        \* dse_on_connect has run for this connection (check_dse done)
  ready,       \* profiles_ready
  unlocking,   \* unlock_phase = 1
  unlockAge,   \* now - unlock_started_ms
  next,        \* prefetch_next: 0 idle, i for report 0x70 + i - 1
  mark,        \* prefetch_mark_ready
  getAge,      \* now - prefetch_last_ms
  saved,       \* profile_written_ms # 0
  saveAge,     \* now - profile_written_ms
  round,       \* post_save_round
  got          \* history: reports asked for since the last prefetch_start or
               \* dse_on_connect

saveVars == <<saved, saveAge, round>>
prefetchVars == <<next, mark, getAge>>
vars ==
  <<ctrl, edge, ready, unlocking, unlockAge, prefetchVars, saveVars, got>>

TypeOK ==
  /\ ctrl \in {"open", "closed", "gone"}
  /\ edge \in BOOLEAN /\ ready \in BOOLEAN
  /\ unlocking \in BOOLEAN /\ unlockAge \in 0..UnlockWait
  /\ next \in 0..Reports /\ mark \in BOOLEAN /\ getAge \in 0..Pace
  /\ saved \in BOOLEAN /\ saveAge \in 0..RefetchAt /\ round \in 0..(Polls + 2)
  /\ got \subseteq 1..Reports

Init ==
  /\ ctrl = "gone" /\ edge = FALSE /\ ready = TRUE
  /\ unlocking = FALSE /\ unlockAge = 0
  /\ next = 0 /\ mark = FALSE /\ getAge = Pace
  /\ saved = FALSE /\ saveAge = 0 /\ round = 0
  /\ got = {}

-----------------------------------------------------------------------------
\* The control channel opens; opening takes several radio round trips, so the
\* main loop has seen the old one gone before.
ControlOpened ==
  /\ ctrl = "gone"
  /\ ctrl' = "open"
  /\ UNCHANGED <<edge, ready, unlocking, unlockAge, prefetchVars, saveVars,
                 got>>

\* The control channel or the whole link is lost.
ControlLost ==
  /\ ctrl = "open"
  /\ ctrl' = "closed" /\ edge' = FALSE
  /\ UNCHANGED <<ready, unlocking, unlockAge, prefetchVars, saveVars, got>>

\* dse_on_connect, when report 0x70 answers the check of bt.cpp
OnConnect ==
  /\ ctrl = "open" /\ ~edge
  /\ edge' = TRUE
  /\ unlocking' = TRUE /\ unlockAge' = 0
  /\ ready' = FALSE
  /\ got' = {}
  /\ UNCHANGED <<ctrl, prefetchVars, saveVars>>

\* dse_on_profile_write for SET 0x60 .. 0x62; set_feature_data only calls it
\* while the control channel is open.
OnProfileWrite ==
  /\ ctrl = "open"
  /\ saved' = TRUE /\ saveAge' = 0 /\ round' = 0
  /\ UNCHANGED <<ctrl, edge, ready, unlocking, unlockAge, prefetchVars, got>>

-----------------------------------------------------------------------------
(* dse_task: sequencer, post-save cycle, unlock wait, in this order.       *)

\* The faulty variants (names with an underscore) are the plausible bugs each
\* property is tried against; no specification uses them.
Aborted_Ignored == FALSE
Aborted == next # 0 /\ ctrl # "open"
GetDue == next # 0 /\ ctrl = "open" /\ getAge >= Pace
LastGet_OneTooMany == GetDue /\ next > Reports
LastGet == GetDue /\ next = Reports

SaveActive == saved /\ ctrl = "open"
RoundDue_OnePollShort ==
  \/ round = 0 /\ saveAge >= SaveDelay
  \/ round \in 1..(Polls - 1) /\ saveAge >= PollStart + PollStep * (round - 1)
RoundDue ==
  \/ round = 0 /\ saveAge >= SaveDelay
  \/ round \in 1..Polls /\ saveAge >= PollStart + PollStep * (round - 1)
RefetchDue == SaveActive /\ round = Polls + 1 /\ saveAge >= RefetchAt

UnlockDue == unlocking /\ ctrl = "open" /\ unlockAge >= UnlockWait

\* prefetch_start; the zero timestamp makes the first GET due at once.
PrefetchStart == UnlockDue \/ RefetchDue

TaskNext ==
  next' = IF PrefetchStart THEN 1
          ELSE IF Aborted \/ LastGet THEN 0
          ELSE IF GetDue THEN next + 1 ELSE next

TaskMark_NeverSet == mark' = FALSE

\* The second prefetch_start of a turn overrides the first.
TaskMark ==
  mark' = (UnlockDue \/ (mark /\ ~RefetchDue /\ ~Aborted /\ ~LastGet))

Task ==
  /\ TaskNext
  /\ TaskMark
  /\ getAge' = IF PrefetchStart THEN Pace ELSE IF GetDue THEN 0 ELSE getAge
  /\ round' = IF SaveActive /\ (RoundDue \/ RefetchDue) THEN round + 1
              ELSE round
  /\ saved' = (saved /\ ~RefetchDue)
  /\ unlocking' = (unlocking /\ ctrl = "open" /\ ~UnlockDue)
  /\ ready' = (ready \/ (LastGet /\ mark) \/ (unlocking /\ ctrl # "open"))
  /\ got' = IF PrefetchStart THEN {}
            ELSE IF GetDue THEN got \cup {next} ELSE got
  /\ ctrl' = IF ctrl = "closed" THEN "gone" ELSE ctrl
  /\ UNCHANGED <<edge, unlockAge, saveAge>>

Older(age, limit) == IF age < limit THEN age + 1 ELSE age

Tick ==
  /\ unlockAge' = Older(unlockAge, UnlockWait)
  /\ saveAge' = Older(saveAge, RefetchAt)
  /\ getAge' = Older(getAge, Pace)
  /\ UNCHANGED <<ctrl, edge, ready, unlocking, next, mark, saved, round, got>>

Events ==
  \/ ControlOpened
  \/ ControlLost
  \/ OnConnect
  \/ OnProfileWrite
  \/ Task

Next == Events \/ Tick

Spec == Init /\ [][Next]_vars

\* The main loop keeps turning and time passes.
Fairness == WF_vars(Task) /\ WF_vars(Tick)
FairSpec == Spec /\ Fairness

\* A main loop that is never late: no tick passes over work that is due.
WorkDue ==
  \/ GetDue \/ UnlockDue \/ RefetchDue
  \/ SaveActive /\ RoundDue
  \/ ctrl = "closed"
PromptSpec == Init /\ [][Events \/ (~WorkDue /\ Tick)]_vars /\ Fairness

-----------------------------------------------------------------------------
\* The gate is opened for a connected Edge only after all its profile reports
\* were asked for on this connection, after its own unlock wait: the host
\* never caches an empty or another controller's snapshot.
SnapshotComplete ==
  [][~ready /\ ready' /\ ctrl = "open"
       => got \cup {next} = 1..Reports]_vars

\* An Edge that stays connected and is not written to between its unlock and
\* the end of the prefetch becomes readable.
QuietEdgeBecomesReady ==
  unlocking /\ ~saved ~> ready \/ saved \/ ctrl # "open"

\* A saved profile is followed by the whole unlock, poll and refetch cycle
\* while the controller stays, unless it is written again.
SaveIsReplayed ==
  saved /\ saveAge > 0 ~> ~saved \/ saveAge = 0 \/ ctrl # "open"

\* What dse.cpp says and does not keep: the gate is only closed until the unlock
\* and the prefetch complete, so an Edge that stays, and is not written to any
\* more, becomes readable.
ConnectedEdgeBecomesReady ==
  <>[](ctrl = "open" /\ edge /\ ~saved) => []<>ready
=============================================================================
