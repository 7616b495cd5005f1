----------------------------- MODULE PsShortcut -----------------------------
(***************************************************************************)
(* The Xbox Game Bar shortcut (ps_shortcut.cpp): a short press of the PS   *)
(* button types Win+G on the keyboard interface, a long one Win+Tab.  The  *)
(* keys go down with one report and up with another, and the second is     *)
(* sent by ps_shortcut_tick, which runs when a report of the controller    *)
(* comes, with the shortcut enabled, in DualSense mode.                    *)
(*                                                                         *)
(* Times are in ticks, as ages; all counting stops at their limits.        *)
(***************************************************************************)
EXTENDS Naturals

CONSTANTS
  Debounce,   \* 50 ms that a button must be up
  Long,       \* 750 ms of a long press
  Release,    \* 30 ms from down to up
  MaxFailures \* bound: keyboard reports that are not taken

VARIABLES
  enabled,    \* config.ps_shortcut_enabled
  listening,  \* external: a controller is connected, in DualSense mode
  pressed,    \* is_ps_pressed
  highAge,    \* now - last_high_time
  was,        \* ps_was_pressed
  pressAge,   \* now - ps_press_time
  fired,      \* long_press_fired
  pending,    \* key_release_pending
  releaseIn,  \* key_release_time - now
  busy,       \* external: the keyboard endpoint holds a report
  key,        \* external: the keys the host has been told are down
  failures,   \* history: reports that were not taken so far
  stuck       \* history: the last release was not taken

vars == <<enabled, listening, pressed, highAge, was, pressAge, fired, pending,
          releaseIn, busy, key, failures, stuck>>

TypeOK ==
  /\ enabled \in BOOLEAN /\ listening \in BOOLEAN /\ pressed \in BOOLEAN
  /\ highAge \in 0..(Debounce + 1) /\ was \in BOOLEAN
  /\ pressAge \in 0..Long /\ fired \in BOOLEAN
  /\ pending \in BOOLEAN /\ releaseIn \in 0..Release
  /\ busy \in BOOLEAN /\ key \in {"none", "Win+G", "Win+Tab"}
  /\ failures \in 0..MaxFailures /\ stuck \in BOOLEAN

Init ==
  /\ enabled \in BOOLEAN /\ listening = FALSE
  /\ pressed = FALSE /\ highAge = Debounce + 1 /\ was = FALSE
  /\ pressAge = Long /\ fired = FALSE /\ pending = FALSE /\ releaseIn = 0
  /\ busy = FALSE /\ key = "none" /\ failures = 0 /\ stuck = FALSE

\* The two combinations that are due, when the endpoint is ready
LongDue(down) == down /\ was /\ ~fired /\ pressAge = Long
ShortDue(down) == ~down /\ was /\ ~fired

\* tud_hid_n_keyboard_report, whose result ps_shortcut_tick does not look at: k is
\* what the host is told, if the report is taken; f calls have failed before
Tell(k, f) ==
  \/ key' = k /\ busy' = TRUE /\ stuck' = FALSE /\ failures' = f
  \/ /\ f < MaxFailures /\ failures' = f + 1
     /\ stuck' = (stuck \/ k = "none")
     /\ UNCHANGED <<key, busy>>

Quiet == UNCHANGED <<key, busy, failures, stuck>>

\* ps_shortcut_tick on a report with the button up or down; a release that is
\* due goes first, and then the endpoint is taken.  A release that failed leaves it
\* free, and a combination may be typed in the same tick (refused = 1).  (The
\* faulty variant takes a release for sent when the endpoint is taken.)
Observe_ReleaseLost(raw) ==
  LET down == raw \/ (pressed /\ highAge <= Debounce)
      due == pending /\ releaseIn = 0
      up == due /\ ~busy
      free == ~busy /\ ~up
      typed == IF free /\ LongDue(down) THEN "Win+Tab"
               ELSE IF free /\ ShortDue(down) THEN "Win+G" ELSE "none"
  IN
  /\ pressed' = down
  /\ highAge' = IF raw THEN 0 ELSE highAge
  /\ was' = down
  /\ pressAge' = IF down /\ ~was THEN 0 ELSE pressAge
  /\ fired' = IF down /\ ~was THEN FALSE ELSE fired \/ typed = "Win+Tab"
  /\ IF up \/ typed # "none" THEN Tell(typed, failures) ELSE Quiet
  /\ pending' = (typed # "none" \/ (pending /\ ~due))
  /\ releaseIn' = IF typed # "none" THEN Release ELSE releaseIn

Observe(raw) ==
  \E refused \in 0..1 :
  LET down == raw \/ (pressed /\ highAge <= Debounce)
      up == pending /\ releaseIn = 0 /\ ~busy
      free == ~busy /\ (up => refused = 1)
      typed == IF free /\ LongDue(down) THEN "Win+Tab"
               ELSE IF free /\ ShortDue(down) THEN "Win+G" ELSE "none"
  IN
  /\ refused = 1 => up /\ typed # "none" /\ failures < MaxFailures
  /\ pressed' = down
  /\ highAge' = IF raw THEN 0 ELSE highAge
  /\ was' = down
  /\ pressAge' = IF down /\ ~was THEN 0 ELSE pressAge
  /\ fired' = IF down /\ ~was THEN FALSE ELSE fired \/ typed = "Win+Tab"
  /\ IF up \/ typed # "none" THEN Tell(typed, failures + refused) ELSE Quiet
  /\ pending' = (typed # "none" \/ (pending /\ ~up))
  /\ releaseIn' = IF typed # "none" THEN Release ELSE releaseIn

Report ==
  /\ listening /\ enabled
  /\ \E raw \in BOOLEAN : Observe(raw)
  /\ UNCHANGED <<enabled, listening>>

-----------------------------------------------------------------------------
(* The environment                                                         *)

Comes ==
  /\ ~listening /\ listening' = TRUE
  /\ UNCHANGED <<enabled, pressed, highAge, was, pressAge, fired, pending,
                 releaseIn, busy, key, failures, stuck>>

\* The controller is lost: the disconnect handler passes one neutral report.
\* ps_shortcut_reset, which would send the release, is not called.
Lost ==
  /\ listening /\ listening' = FALSE
  /\ IF enabled THEN Observe(FALSE)
     ELSE UNCHANGED <<pressed, highAge, was, pressAge, fired, pending,
                      releaseIn, busy, key, failures, stuck>>
  /\ UNCHANGED enabled

SetConfig ==
  /\ enabled' = ~enabled
  /\ UNCHANGED <<listening, pressed, highAge, was, pressAge, fired, pending,
                 releaseIn, busy, key, failures, stuck>>

\* The device leaves the bus (change of mode): the host lets its keys go
Unplugged ==
  /\ listening' = FALSE /\ busy' = FALSE /\ key' = "none" /\ stuck' = FALSE
  /\ UNCHANGED <<enabled, pressed, highAge, was, pressAge, fired, pending,
                 releaseIn, failures>>

HostReads ==
  /\ busy /\ busy' = FALSE
  /\ UNCHANGED <<enabled, listening, pressed, highAge, was, pressAge, fired,
                 pending, releaseIn, key, failures, stuck>>

Tick ==
  /\ highAge' = IF highAge <= Debounce THEN highAge + 1 ELSE highAge
  /\ pressAge' = IF pressAge < Long THEN pressAge + 1 ELSE pressAge
  /\ releaseIn' = IF releaseIn > 0 THEN releaseIn - 1 ELSE 0
  /\ UNCHANGED <<enabled, listening, pressed, was, fired, pending, busy, key,
                 failures, stuck>>

Next == Report \/ Comes \/ Lost \/ SetConfig \/ Unplugged \/ HostReads \/ Tick

\* A controller that is connected sends reports, the host polls the keyboard,
\* and time goes on.
Spec ==
  /\ Init /\ [][Next]_vars
  /\ SF_vars(listening /\ enabled /\ ~busy /\ Report) /\ WF_vars(HostReads)
  /\ WF_vars(Tick)

-----------------------------------------------------------------------------
\* No key is down without its release pending, unless the release was handed to
\* a call that failed (ps_shortcut.cpp:46).
ReleaseIsNotLost == key # "none" => pending \/ stuck

\* Keys that went down come up, whatever the button does and however slow the
\* host is, unless the controller is lost or the shortcut is disabled in the
\* short time between the two reports: then they stay down until it is back.  A
\* release that was not taken leaves them down until the next press.
KeysComeUp ==
  key # "none" ~> key = "none" \/ ~listening \/ ~enabled \/ stuck
=============================================================================
