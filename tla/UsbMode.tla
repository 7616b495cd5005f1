------------------------------ MODULE UsbMode -------------------------------
(***************************************************************************)
(* The USB output mode and the configuration sector (src/src/usb_mode.cpp, *)
(* config.cpp, and the settings commands of cmd.cpp).  Mode and settings   *)
(* live in RAM and are written together to one flash sector: by a change   *)
(* of mode, which is retried until it has succeeded, and by the host's     *)
(* save command, which is not.                                             *)
(*                                                                         *)
(* A save erases the sector and programs one page; power may be lost       *)
(* before, between and after the two (saving holds every other handler     *)
(* off, as the synchronous call does), and the write may fail to verify.   *)
(* A page is a record of the mode (NoMode when its record is invalid) and  *)
(* the body; the erased sector reads as all ones.                          *)
(***************************************************************************)
EXTENDS Naturals, Sequences, ConfigBody

CONSTANTS
  Retry,        \* ticks from a failed save to the next, 2000 ms
  HostBodies    \* bodies the host sends with command 0x01

DualSense == 0
SwitchProMode == 1
Modes == {DualSense, SwitchProMode}
NoMode == 2

Ones == [f \in Names |-> 255]
ErasedPage == [mode |-> NoMode, body |-> Ones]

VARIABLES
  active,      \* active_mode
  ramMode,     \* usb_output_mode of config.cpp
  body,        \* config.body
  pending,     \* save_pending
  wait,        \* time left until save_after_ms
  flash,       \* the page in the configuration sector
  saving,      \* who called config_save, while the sector is erased
  spoilt       \* history: the host's save broke the page, nobody retries

ramVars == <<active, ramMode, body, pending, wait>>
vars == <<ramVars, flash, saving, spoilt>>

Page == [mode |-> ramMode, body |-> body]

TypeOK ==
  /\ active \in Modes /\ ramMode \in Modes
  /\ \A f \in Names \ Volumes : body[f] \in Legal[f]
  /\ body \in AnyBody
  /\ pending \in BOOLEAN /\ wait \in 0..Retry
  /\ flash \in [mode : Modes \cup {NoMode}, body : AnyBody]
  /\ saving \in {"no", "toggle", "retry", "host"}
  /\ spoilt \in BOOLEAN

-----------------------------------------------------------------------------
(* config.cpp                                                              *)

\* config_valid: a body of another version is dropped as a whole.  (Names with
\* an underscore are faulty variants that no specification uses.)
Valid_WakeUnchecked(b) ==
  LET c == IF b["config_version"] = ConfigVersion THEN b ELSE Ones
  IN  [f \in Names |-> IF c[f] \in Legal[f] \/ f = "enable_wake" THEN c[f]
                       ELSE Default[f]]

Valid(b) ==
  LET c == IF b["config_version"] = ConfigVersion THEN b ELSE Ones
  IN  [f \in Names |-> IF c[f] \in Legal[f] THEN c[f] ELSE Default[f]]

\* config_load: an invalid mode record stands for DualSense
LoadedMode(page) == IF page.mode \in Modes THEN page.mode ELSE DualSense

\* set_config: the host may send fewer bytes than the body has
SetConfig(new, len) ==
  body' = Valid([f \in Names |->
    IF \E i \in 1..len : Fields[i] = f THEN new[f] ELSE body[f]])

\* config_save up to the erase, or refused by flash_safe_execute
BeginSave(who) == saving' = who /\ flash' = ErasedPage

\* What a write that fails to verify may leave: nothing, or a page whose mode
\* record is intact and whose body is not.
Damaged == {ErasedPage, [Page EXCEPT !.body = Ones]}

-----------------------------------------------------------------------------
(* usb_mode.cpp                                                            *)

SaveFailed == pending' = TRUE /\ wait' = Retry

\* usb_mode_toggle_and_reconnect up to its config_save, with a flash that is
\* refused, or begins to be written
Toggle_NotWhenRefused ==
  /\ saving = "no"
  /\ \/ SaveFailed /\ UNCHANGED <<active, ramMode, flash, saving>>
     \/ /\ active' = IF active = SwitchProMode THEN DualSense ELSE SwitchProMode
        /\ ramMode' = active'
        /\ BeginSave("toggle") /\ UNCHANGED <<pending, wait>>
  /\ UNCHANGED <<body, spoilt>>

Toggle ==
  /\ saving = "no"
  /\ active' = IF active = SwitchProMode THEN DualSense ELSE SwitchProMode
  /\ ramMode' = active'
  /\ \/ SaveFailed /\ UNCHANGED <<flash, saving>>
     \/ BeginSave("toggle") /\ UNCHANGED <<pending, wait>>
  /\ UNCHANGED <<body, spoilt>>

\* usb_mode_task, when the retry is due
Task ==
  /\ saving = "no" /\ pending /\ wait = 0
  /\ \/ SaveFailed /\ UNCHANGED <<flash, saving>>
     \/ BeginSave("retry") /\ UNCHANGED <<pending, wait>>
  /\ UNCHANGED <<active, ramMode, body, spoilt>>

\* pico_cmd_set 0x01 and 0x02; DualSense mode only (main.cpp:222-244)
HostSetsConfig ==
  /\ saving = "no" /\ active = DualSense
  /\ \E new \in HostBodies, len \in {1, Len(Fields)} : SetConfig(new, len)
  /\ UNCHANGED <<active, ramMode, pending, wait, flash, saving, spoilt>>

HostSaves ==
  /\ saving = "no" /\ active = DualSense
  /\ BeginSave("host")
  /\ UNCHANGED <<ramVars, spoilt>>

\* The volumes of an output report (state_update) or of the audio control
\* interface (set_volume) go into the settings as they come
HostSetsVolume ==
  /\ saving = "no" /\ active = DualSense
  /\ body' = [f \in Names |-> IF f \in Volumes THEN TooLoud ELSE body[f]]
  /\ UNCHANGED <<active, ramMode, pending, wait, flash, saving, spoilt>>

\* config_save returns TRUE: usb_mode.cpp notes it, cmd.cpp ignores it ...
Programmed_StaysPending ==
  /\ saving # "no" /\ saving' = "no"
  /\ flash' = Page
  /\ spoilt' = FALSE
  /\ UNCHANGED ramVars

Programmed ==
  /\ saving # "no" /\ saving' = "no"
  /\ flash' = Page
  /\ pending' = (saving = "host" /\ pending)
  /\ spoilt' = FALSE
  /\ UNCHANGED <<active, ramMode, body, wait>>

\* ... or FALSE, when what it reads back is not what it wrote
Misprogrammed_NoRetry ==
  /\ saving # "no" /\ saving' = "no"
  /\ flash' \in Damaged
  /\ spoilt' = (saving = "host")
  /\ pending' = FALSE
  /\ UNCHANGED <<active, ramMode, body, wait>>

Misprogrammed ==
  /\ saving # "no" /\ saving' = "no"
  /\ flash' \in Damaged
  /\ spoilt' = (saving = "host")
  /\ IF saving = "host" THEN UNCHANGED <<pending, wait>> ELSE SaveFailed
  /\ UNCHANGED <<active, ramMode, body>>

Tick ==
  /\ wait > 0 /\ wait' = wait - 1
  /\ UNCHANGED <<active, ramMode, body, pending, flash, saving, spoilt>>

-----------------------------------------------------------------------------
\* config_load and usb_mode_init, from any page
LoadFrom(page) ==
  /\ body' = Valid(page.body)
  /\ ramMode' = LoadedMode(page) /\ active' = ramMode'
  /\ pending' = FALSE /\ wait' = 0 /\ saving' = "no"
  /\ flash' = page

\* A factory-new sector, or what an earlier firmware left in it
Init ==
  /\ flash \in {ErasedPage} \cup [mode : {NoMode, DualSense}, body : HostBodies]
  /\ body = Valid(flash.body)
  /\ ramMode = LoadedMode(flash) /\ active = ramMode
  /\ pending = FALSE /\ wait = 0 /\ saving = "no" /\ spoilt = FALSE

\* Power is lost and comes back, possibly in the middle of programming
Reboot ==
  /\ \E page \in {flash} \cup (IF saving = "no" THEN {} ELSE {Page} \cup Damaged) :
       LoadFrom(page)
  /\ spoilt' = FALSE

Next ==
  \/ Toggle \/ Task \/ Tick
  \/ HostSetsConfig \/ HostSetsVolume \/ HostSaves
  \/ Programmed \/ Misprogrammed
  \/ Reboot

\* The main loop calls usb_mode_task for ever and time passes.  A flash that
\* takes writes again and again takes one in the end.
Fairness ==
  /\ WF_vars(Tick) /\ WF_vars(Task)
  /\ SF_vars(Task /\ saving' # "no") /\ WF_vars(Programmed \/ Misprogrammed)
  /\ SF_vars(saving # "host" /\ Programmed)

Spec == Init /\ [][Next]_vars /\ Fairness

-----------------------------------------------------------------------------
(* Properties                                                              *)

\* Unless a save is still owed, what the bridge would load after a power cut is
\* the mode it is in: a failed or interrupted write, a host's save in between
\* and an older pending save never leave another mode behind.  The one
\* exception is the host's own save, whose result cmd.cpp:92-95 ignores.
ModeSurvivesPowerCut ==
  saving = "no" /\ ~pending /\ ~spoilt => LoadedMode(flash) = active

\* A change of mode is stored in the end, however often the write fails first,
\* unless power is lost.
SavesEnd == [](pending => <>(~pending))
=============================================================================
