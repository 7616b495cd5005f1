------------------------------ MODULE HidInput ------------------------------
(***************************************************************************)
(* Input reports in DualSense mode (main.cpp): on_bt_data keeps the last   *)
(* report of the controller, or the neutral one when it is lost, and       *)
(* interrupt_loop gives it to the USB endpoint; at every chance, or with   *)
(* polling_rate_mode 2 once per report, which makes a report that is lost  *)
(* on the way a lost state.                                                *)
(***************************************************************************)
EXTENDS Integers

CONSTANTS
  Inputs,       \* controller states, natural numbers; 0 is the neutral one
  MaxFailures,  \* bound: calls of tud_hid_report that fail
  MaxChanges    \* bound: re-enumerations and changes of mode or polling

None == -1

VARIABLES
  switching,    \* usb_mode_is_switch()
  mode2,        \* polling_rate_mode = 2
  in,           \* interrupt_in_data
  dirty,        \* report_dirty
  ep,           \* external: the report in the IN endpoint
  seen,         \* external: the last one the host has read, since it enumerated
  failures,     \* history: failed calls so far
  changes,      \* history: changes so far
  forgotten     \* history: a change has left the host behind and nothing to send

vars == <<switching, mode2, in, dirty, ep, seen, failures, changes, forgotten>>

TypeOK ==
  /\ switching \in BOOLEAN /\ mode2 \in BOOLEAN /\ dirty \in BOOLEAN
  /\ in \in Inputs /\ ep \in Inputs \cup {None} /\ seen \in Inputs \cup {None}
  /\ failures \in 0..MaxFailures /\ changes \in 0..MaxChanges
  /\ forgotten \in BOOLEAN

Init ==
  /\ switching \in BOOLEAN /\ mode2 \in BOOLEAN
  /\ in = 0 /\ dirty = FALSE /\ ep = None /\ seen = None
  /\ failures = 0 /\ changes = 0 /\ forgotten = mode2

\* on_bt_data, of a report of the controller or of the neutral one that the
\* disconnect handler passes; in Switch mode only the data is kept
Report ==
  /\ in' \in Inputs
  /\ dirty' = (dirty \/ (~switching /\ mode2))
  /\ forgotten' = (switching /\ mode2 /\ (forgotten \/ ~dirty))
  /\ UNCHANGED <<switching, mode2, ep, seen, failures, changes>>

\* interrupt_loop, tud_hid_ready; a failed call is repeated the next time
SendAlways ==
  /\ ~switching /\ ~mode2 /\ ep = None
  /\ ep' = in
  /\ UNCHANGED <<switching, mode2, in, dirty, seen, failures, changes, forgotten>>

\* ... or, with mode 2, when there is something new.  (The faulty variant
\* forgets to restore the flag.)
SendFresh_NotRestored ==
  /\ ~switching /\ mode2 /\ ep = None /\ dirty
  /\ dirty' = FALSE
  /\ \/ ep' = in /\ UNCHANGED failures
     \/ failures < MaxFailures /\ failures' = failures + 1 /\ UNCHANGED ep
  /\ UNCHANGED <<switching, mode2, in, seen, changes, forgotten>>

SendFresh ==
  /\ ~switching /\ mode2 /\ ep = None /\ dirty
  /\ \/ ep' = in /\ dirty' = FALSE /\ UNCHANGED failures
     \/ failures < MaxFailures /\ failures' = failures + 1 /\ UNCHANGED <<ep, dirty>>
  /\ UNCHANGED <<switching, mode2, in, seen, changes, forgotten>>

HostReads ==
  /\ ep # None
  /\ seen' = ep /\ ep' = None
  /\ UNCHANGED <<switching, mode2, in, dirty, failures, changes, forgotten>>

Changes == changes < MaxChanges /\ changes' = changes + 1

\* The host re-enumerates the device (bus reset, tud_disconnect and tud_connect
\* of bt.cpp, change of mode): what is in the endpoint is gone
Enumerate ==
  /\ Changes
  /\ ep' = None /\ seen' = None
  /\ switching' \in BOOLEAN
  /\ forgotten' = (mode2 /\ ~dirty)
  /\ UNCHANGED <<mode2, in, dirty, failures>>

\* pico_cmd_set changes the polling rate
SetPolling ==
  /\ ~switching /\ Changes
  /\ mode2' = ~mode2
  /\ forgotten' = (mode2' /\ ~dirty /\ ep # in /\ (ep # None \/ seen # in))
  /\ UNCHANGED <<switching, in, dirty, ep, seen, failures>>

Send == SendAlways \/ SendFresh

Next == Report \/ Send \/ HostReads \/ Enumerate \/ SetPolling

\* The main loop runs on and the host polls the endpoint.
Spec == Init /\ [][Next]_vars /\ WF_vars(Send) /\ WF_vars(HostReads)

-----------------------------------------------------------------------------
\* When polling mode 2 has nothing to send, the host has the last state of the
\* controller or is about to read it; or it was left behind, by an enumeration
\* or by the change to this mode.
ReportIsNotLost ==
  mode2 /\ ~dirty /\ ~forgotten => ep = in \/ (ep = None /\ seen = in)

\* The last report of the controller, which nothing follows (the neutral one of
\* a lost controller), is seen by the host, although calls fail.  Otherwise the
\* device was enumerated anew, or its polling changed, at a moment when polling
\* mode 2 had nothing left to send.
LastReportArrives ==
  \A v \in Inputs :
    ~switching /\ in = v ~> seen = v \/ in # v \/ switching \/ forgotten
=============================================================================
