----------------------------- MODULE SwitchPro ------------------------------
(***************************************************************************)
(* The Switch Pro protocol (switch_pro_protocol.cpp) and the USB interface *)
(* it talks through (switch_pro_usb.cpp): the host's commands are answered *)
(* from a single slot, which the next command overwrites, and the state of *)
(* the controller is reported when it changed or an interval has passed.   *)
(*                                                                         *)
(* A report is the number of the command it answers (0 for none) and the   *)
(* controller state it carries (NoInput for none).  The numbers are the    *)
(* host's; which command it is matters for one of them only.  Conversions  *)
(* are in module SwitchData, rumble is in SwitchRumble.                    *)
(***************************************************************************)
EXTENDS Integers

CONSTANTS
  Inputs,       \* controller states, natural numbers; 0 is the neutral one
  Interval,     \* INPUT_INTERVAL_MS, in ticks
  MaxCommands,  \* bound: commands the host sends
  MaxResets,    \* bound: bus resets
  MaxFailures   \* bound: calls of tud_hid_report that fail

NoInput == -1
Nothing == [no |-> 0, input |-> NoInput]
Identity == [no |-> 0, input |-> -2]     \* the unasked identification

VARIABLES
  switching,    \* usb_mode_is_switch()
  initialized,  \* initialized_
  ready,        \* ready_
  response,     \* response_, Nothing when it is not queued
  dirty,        \* input_dirty_
  inputAge,     \* now - last_input_ms_
  state,        \* state_
  ep,           \* external: the report in the IN endpoint
  seen,         \* external: the last input the host has read
  asked,        \* external: commands sent that have an answer
  answered,     \* external: number of the last answer read
  resets,       \* history: bus resets so far
  failures,     \* history: failed calls so far
  dropped       \* history: a failed call took the answer to the last command

vars == <<switching, initialized, ready, response, dirty, inputAge, state, ep,
          seen, asked, answered, resets, failures, dropped>>

Report == [no : 0..MaxCommands, input : Inputs \cup {NoInput}]

TypeOK ==
  /\ switching \in BOOLEAN /\ initialized \in BOOLEAN /\ ready \in BOOLEAN
  /\ response \in Report /\ ep \in Report \cup {Identity}
  /\ dirty \in BOOLEAN /\ inputAge \in 0..Interval
  /\ state \in Inputs /\ seen \in Inputs
  /\ asked \in 0..MaxCommands /\ answered \in 0..asked
  /\ resets \in 0..MaxResets /\ failures \in 0..MaxFailures
  /\ dropped \in BOOLEAN

Init ==
  /\ switching \in BOOLEAN /\ initialized = FALSE /\ ready = FALSE
  /\ response = Nothing /\ dirty = TRUE /\ inputAge = Interval /\ state = 0
  /\ ep = Nothing /\ seen = 0 /\ asked = 0 /\ answered = 0 /\ resets = 0
  /\ failures = 0 /\ dropped = FALSE

\* Every answer goes to the slot, whatever is there.  (Names with an underscore
\* are faulty variants that no specification uses.)
Queue_KeepsOld(r) == response' = IF response = Nothing THEN r ELSE response

Queue(r) == response' = r

-----------------------------------------------------------------------------
(* The host (switch_pro_usb_set_report, handle_output_report)              *)

Ask ==
  /\ asked < MaxCommands /\ asked' = asked + 1
  /\ dropped' = FALSE /\ UNCHANGED failures

\* handle_configuration: only "disable timeout" opens the stream of inputs, and
\* nothing but reset closes it
HostConfigures ==
  /\ switching /\ Ask
  /\ Queue([no |-> asked', input |-> NoInput])
  /\ ready' \in {ready, TRUE}
  /\ UNCHANGED <<switching, initialized, dirty, inputAge, state, ep, seen,
                 answered, resets>>

\* handle_subcommand, of 11 bytes at least: the answer carries the input of now
HostAsks ==
  /\ switching /\ Ask
  /\ Queue([no |-> asked', input |-> state])
  /\ UNCHANGED <<switching, initialized, ready, dirty, inputAge, state, ep,
                 seen, answered, resets>>

HostReads ==
  /\ ep # Nothing /\ ep' = Nothing
  /\ answered' = IF ep.no = 0 THEN answered ELSE ep.no
  /\ seen' = IF ep.input \in Inputs THEN ep.input ELSE seen
  /\ UNCHANGED <<switching, initialized, ready, response, dirty, inputAge,
                 state, asked, resets, failures, dropped>>

\* A bus reset takes what is in the endpoint; the protocol is not told, and the
\* host, which starts anew, waits for no answer
HostResets ==
  /\ switching /\ resets < MaxResets /\ resets' = resets + 1
  /\ ep' = Nothing /\ answered' = asked
  /\ UNCHANGED <<switching, initialized, ready, response, dirty, inputAge,
                 state, seen, asked, failures, dropped>>

-----------------------------------------------------------------------------
(* The firmware                                                            *)

\* update_controller, from on_bt_data
ControllerReport ==
  /\ switching
  /\ state' \in Inputs /\ dirty' = TRUE
  /\ UNCHANGED <<switching, initialized, ready, response, inputAge, ep, seen,
                 asked, answered, resets, failures, dropped>>

\* tud_hid_report, whose result switch_pro_usb_task does not look at: a report that
\* is not taken is gone, next_report has already cleared its slot or flag
Hand(r) ==
  \/ ep' = r /\ UNCHANGED <<failures, dropped>>
  \/ /\ failures < MaxFailures /\ failures' = failures + 1
     /\ dropped' = (dropped \/ r.no # 0)
     /\ UNCHANGED ep

\* switch_pro_usb_task with tud_hid_ready, and next_report
SendResponse ==
  /\ response # Nothing
  /\ Hand(response) /\ response' = Nothing
  /\ UNCHANGED <<initialized, dirty, inputAge>>

\* An unasked identification, once; the host takes it for no answer
Identify ==
  /\ response = Nothing /\ ~initialized
  /\ Hand(Identity) /\ initialized' = TRUE
  /\ UNCHANGED <<response, dirty, inputAge>>

SendInput_OnChangeOnly ==
  /\ response = Nothing /\ initialized /\ ready
  /\ dirty
  /\ Hand([no |-> 0, input |-> state])
  /\ dirty' = FALSE /\ inputAge' = 0
  /\ UNCHANGED <<initialized, response>>

SendInput ==
  /\ response = Nothing /\ initialized /\ ready
  /\ dirty \/ inputAge = Interval
  /\ Hand([no |-> 0, input |-> state])
  /\ dirty' = FALSE /\ inputAge' = 0
  /\ UNCHANGED <<initialized, response>>

Task ==
  /\ switching /\ ep = Nothing
  /\ SendResponse \/ Identify \/ SendInput
  /\ UNCHANGED <<switching, ready, state, seen, asked, answered, resets>>

\* A change of mode: the device leaves the bus, and protocol.reset (in either
\* direction)
Toggle ==
  /\ switching' = ~switching
  /\ initialized' = FALSE /\ ready' = FALSE /\ response' = Nothing
  /\ dirty' = TRUE /\ inputAge' = Interval /\ state' = 0
  /\ ep' = Nothing /\ answered' = asked
  /\ UNCHANGED <<seen, asked, resets, failures, dropped>>

Tick ==
  /\ inputAge < Interval /\ inputAge' = inputAge + 1
  /\ UNCHANGED <<switching, initialized, ready, response, dirty, state, ep,
                 seen, asked, answered, resets, failures, dropped>>

Next ==
  \/ HostConfigures \/ HostAsks \/ HostReads \/ HostResets
  \/ ControllerReport \/ Task \/ Toggle \/ Tick

\* The main loop runs on, the clock too, and the host polls the endpoint.
Spec ==
  /\ Init /\ [][Next]_vars
  /\ WF_vars(Task) /\ WF_vars(HostReads) /\ WF_vars(Tick)

-----------------------------------------------------------------------------
(* Properties                                                              *)

\* The host gets the answer to its last command, or another last command has
\* come, however commands, reports and inputs interleave; a command that is
\* overtaken by the next before the task runs gets none, and neither does one
\* whose answer went to a failed call (switch_pro_usb.cpp:128).
LastCommandAnswered == asked # answered ~> asked = answered \/ dropped

\* The answer to the last command is lost in no other way, whatever is reported
\* meanwhile: it is in the slot or in the endpoint until it is read, or a reset
\* takes it.  And the endpoint never holds an answer older than one the host has
\* read.
AnswerIsNotLost ==
  /\ asked = answered \/ ep.no = asked \/ response.no = asked \/ dropped
  /\ ep.no # 0 => answered <= ep.no

\* A host that has opened the stream sees the controller state that persists,
\* although the report that carried it first may be lost in a bus reset or a
\* failed call and answers take precedence over inputs.
FreshInput ==
  \A v \in Inputs :
    switching /\ ready /\ state = v ~> seen = v \/ state # v \/ ~(switching /\ ready)
=============================================================================
