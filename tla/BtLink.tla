------------------------------- MODULE BtLink -------------------------------
(***************************************************************************)
(* The Bluetooth side of the bridge (src/src/bt.cpp): finding, pairing,    *)
(* admitting and dropping one controller, the BOOTSEL click and hold       *)
(* actions, and the blacklist of forgotten controllers with its copy in    *)
(* BTstack's TLV flash.                                                    *)
(*                                                                         *)
(* Every handler runs on core 0 from the main loop, so a handler is one    *)
(* step.  The exception is the hold action: it performs several flash      *)
(* writes, and a power cut or the watchdog may fall between two of them;   *)
(* phase = "deleting" holds every other handler off meanwhile, as the      *)
(* synchronous call does.  BTstack, the radio and the controllers are      *)
(* external: stage, peer, dir, closing, chan, inquiry and refused hold     *)
(* what they know, and the actions deliver their events in any order the   *)
(* handlers have to expect.  There is one ACL link (MAX_NR_HCI_CONNECTIONS *)
(* is 1) with at most one channel per PSM (MAX_NR_L2CAP_CHANNELS is 2).    *)
(***************************************************************************)
EXTENDS FiniteSets, Naturals

CONSTANTS Addrs,      \* Bluetooth addresses of the controllers in range
          NoAddr,     \* current_device_addr before anything is written to it
          MaxKeys     \* NVM_NUM_LINK_KEYS

ASSUME NoAddrAssumption == NoAddr \notin Addrs
ASSUME MaxKeysAssumption == MaxKeys \in Nat \ {0}

Channels == {"control", "interrupt"}

VARIABLES
  phase,       \* "off" until the stack is WORKING, "deleting" inside a hold
  current,     \* current_device_addr
  found,       \* device_found
  newPair,     \* new_pair
  inquiring,   \* bt_inquiring
  blocked,     \* bt_cleared_addrs[0 .. bt_cleared_addrs_count - 1]
  dirty,       \* bt_blacklist_dirty and the age of bt_blacklist_dirty_ms
  acl,         \* acl_handle # HCI_CON_HANDLE_INVALID
  cid,         \* which of hid_control_cid and hid_interrupt_cid are not 0
  flash,       \* the blacklist stored under BT_BLACKLIST_TLV_TAG
  keys,        \* addresses with a link key in the TLV store
  inquiry,     \* BTstack's inquiry
  connectable, \* page and inquiry scan are on
  stage, peer, dir, \* the ACL link: how far it is, to whom, who paged whom
  closing,     \* a disconnect of the link has been sent
  chan,        \* the L2CAP channels as BTstack knows them
  refused      \* a create-connection was refused, its event is still to come

appVars == <<current, found, newPair, inquiring, acl, cid>>
listVars == <<blocked, dirty, flash>>
linkVars == <<stage, peer, dir, closing, chan>>
vars == <<phase, appVars, listVars, keys, inquiry, connectable, linkVars,
          refused>>

Cleared == [c \in Channels |-> FALSE]
NoChannels == [c \in Channels |-> "none"]

HidOpen == cid["interrupt"]      \* hid_interrupt_cid != 0

TypeOK ==
  /\ phase \in {"off", "idle", "deleting"}
  /\ current \in Addrs \cup {NoAddr}
  /\ found \in BOOLEAN /\ newPair \in BOOLEAN /\ inquiring \in BOOLEAN
  /\ blocked \subseteq Addrs
  /\ flash \subseteq Addrs
  /\ keys \subseteq Addrs
  /\ dirty \in {"no", "settling", "due"}
  /\ acl \in BOOLEAN
  /\ cid \in [Channels -> BOOLEAN]
  /\ inquiry \in {"off", "running", "stopping"}
  /\ connectable \in BOOLEAN
  /\ stage \in {"none", "setup", "up", "authed", "secure"}
  /\ peer \in Addrs \cup {NoAddr}
  /\ dir \in {"in", "out"}
  /\ closing \in BOOLEAN
  /\ chan \in [Channels -> {"none", "pending", "doomed", "open"}]
  /\ refused \in BOOLEAN

\* bt_init leaves the dongle connectable and discoverable.
Init ==
  /\ phase = "off" /\ current = NoAddr
  /\ found = FALSE /\ newPair = FALSE /\ inquiring = FALSE
  /\ blocked = {} /\ flash = {} /\ dirty = "no" /\ keys = {}
  /\ acl = FALSE /\ cid = Cleared
  /\ inquiry = "off" /\ connectable = TRUE
  /\ stage = "none" /\ peer = NoAddr /\ dir = "in" /\ closing = FALSE
  /\ chan = NoChannels /\ refused = FALSE

-----------------------------------------------------------------------------
(* Operations the handlers share.                                          *)

\* bt_disconnect: a command for the link, if acl_handle is valid.
BtDisconnect == closing' = (closing \/ acl)

\* gap_inquiry_start and gap_inquiry_stop; both are refused in other states.
InquiryStart == inquiry' = IF inquiry = "off" THEN "running" ELSE inquiry
InquiryStop == inquiry' = IF inquiry = "running" THEN "stopping" ELSE inquiry

\* hci_create_connection(a).  BTstack has one connection: a second one to
\* the same peer is ignored, one to another peer is refused by a later event.
CreateConnection(a) ==
  /\ stage' = IF stage = "none" THEN "setup" ELSE stage
  /\ peer' = IF stage = "none" THEN a ELSE peer
  /\ dir' = IF stage = "none" THEN "out" ELSE dir
  /\ refused' = (refused \/ (stage # "none" /\ peer # a))
  /\ UNCHANGED <<closing, chan>>

\* BTstack forgets the peer of a link that is gone.
NoPeer == peer' = NoAddr /\ dir' = "in"

\* BTstack stores the key of a newly bonded peer, evicting one when full.
StoreKey(a) ==
  \/ a \in keys /\ keys' = keys
  \/ a \notin keys /\ Cardinality(keys) < MaxKeys /\ keys' = keys \cup {a}
  \/ /\ a \notin keys /\ Cardinality(keys) >= MaxKeys
     /\ \E k \in keys : keys' = (keys \ {k}) \cup {a}

\* BtLink's faulty variants (names with an underscore) are the plausible bugs
\* each property is tried against; no specification uses them.
BlacklistRemove_NotDirty(a) ==
  blocked' = blocked \ {a} /\ UNCHANGED <<dirty, flash>>

\* bt_blacklist_remove: out of RAM now, out of flash when it has settled.
BlacklistRemove(a) ==
  /\ blocked' = blocked \ {a}
  /\ dirty' = IF a \in blocked THEN "settling" ELSE dirty
  /\ UNCHANGED flash

BlacklistPersist_NeverEmpty == flash' = IF blocked = {} THEN flash ELSE blocked

\* bt_blacklist_persist: store the RAM list, or delete the tag when empty.
BlacklistPersist == flash' = blocked

InquiryLedOff_Missing == UNCHANGED inquiring

\* bt_inquiring = false, wherever an inquiry is seen to end
InquiryLedOff == inquiring' = FALSE

-----------------------------------------------------------------------------
(* Power, the main loop and the button.                                    *)

\* BTSTACK_EVENT_STATE with HCI_STATE_WORKING: load the list, search.
StackWorking ==
  /\ phase = "off"
  /\ phase' = "idle"
  /\ blocked' = flash
  /\ InquiryStart
  /\ inquiring' = TRUE
  /\ UNCHANGED <<current, found, newPair, acl, cid, dirty, flash, keys,
                 connectable, linkVars, refused>>

\* Power cut or watchdog: RAM is lost, the TLV store and the keys stay.
Reboot ==
  /\ phase # "off"
  /\ phase' = "off" /\ current' = NoAddr
  /\ found' = FALSE /\ newPair' = FALSE /\ inquiring' = FALSE
  /\ blocked' = {} /\ dirty' = "no"
  /\ acl' = FALSE /\ cid' = Cleared
  /\ inquiry' = "off" /\ connectable' = TRUE
  /\ stage' = "none" /\ peer' = NoAddr /\ dir' = "in" /\ closing' = FALSE
  /\ chan' = NoChannels /\ refused' = FALSE
  /\ UNCHANGED <<flash, keys>>

\* bt_bootsel_click_action
Click ==
  /\ phase = "idle"
  /\ \/ HidOpen /\ BtDisconnect /\ UNCHANGED <<inquiry, inquiring>>
     \/ ~HidOpen /\ InquiryStart /\ inquiring' = TRUE /\ UNCHANGED closing
  /\ UNCHANGED <<phase, current, found, newPair, acl, cid, listVars, keys,
                 connectable, stage, peer, dir, chan, refused>>

HoldSnapshot_NotConnected == keys \cup {current}

\* What a hold blacklists: the stored keys, and a live controller's address
\* if the table still has room for it.
HoldSnapshot ==
  keys \cup (IF HidOpen /\ Cardinality(keys) < MaxKeys THEN {current} ELSE {})

\* bt_bootsel_hold_action up to gap_delete_all_link_keys
Hold ==
  /\ phase = "idle"
  /\ phase' = "deleting"
  /\ blocked' = HoldSnapshot
  /\ IF HidOpen THEN BtDisconnect ELSE UNCHANGED closing
  /\ UNCHANGED <<appVars, dirty, flash, keys, inquiry, connectable,
                 stage, peer, dir, chan, refused>>

\* gap_delete_all_link_keys deletes them one flash record at a time.
HoldDeleteKey ==
  /\ phase = "deleting"
  /\ \E k \in keys : keys' = keys \ {k}
  /\ UNCHANGED <<phase, appVars, listVars, inquiry, connectable, linkVars,
                 refused>>

\* ... and the last write of the hold.
HoldPersist ==
  /\ phase = "deleting" /\ keys = {}
  /\ phase' = "idle"
  /\ BlacklistPersist
  /\ UNCHANGED <<appVars, blocked, dirty, keys, inquiry, connectable,
                 linkVars, refused>>

\* 5000 ms have passed since the last bt_blacklist_remove.
Settle ==
  /\ phase = "idle" /\ dirty = "settling"
  /\ dirty' = "due"
  /\ UNCHANGED <<phase, appVars, blocked, flash, keys, inquiry, connectable,
                 linkVars, refused>>

\* bt_blacklist_persist_if_dirty, from button_check in the main loop
PersistIfDirty ==
  /\ phase = "idle" /\ dirty = "due"
  /\ dirty' = "no"
  /\ BlacklistPersist
  /\ UNCHANGED <<phase, appVars, blocked, keys, inquiry, connectable,
                 linkVars, refused>>

-----------------------------------------------------------------------------
(* hci_packet_handler                                                      *)

\* HCI_EVENT_INQUIRY_RESULT (and its variants) for a gamepad; a blacklisted
\* one is taken like any other.
InquiryResult(a) ==
  /\ phase = "idle" /\ inquiry # "off"
  /\ current' = a
  /\ found' = TRUE
  /\ InquiryStop
  /\ UNCHANGED <<phase, newPair, inquiring, acl, cid, listVars, keys,
                 connectable, linkVars, refused>>

\* GAP_EVENT_INQUIRY_COMPLETE, followed by HCI_EVENT_INQUIRY_COMPLETE when the
\* inquiry ran out by itself (then natural is TRUE).
InquiryComplete(natural) ==
  /\ phase = "idle"
  /\ inquiry # "off" /\ (inquiry = "running" => natural)
  /\ inquiry' = "off"
  /\ InquiryLedOff
  /\ newPair' = (newPair \/ found)
  /\ IF found THEN CreateConnection(current)
              ELSE UNCHANGED <<linkVars, refused>>
  /\ connectable' = (connectable \/ (natural /\ ~found))
  /\ UNCHANGED <<phase, current, found, acl, cid, listVars, keys>>

\* HCI_EVENT_COMMAND_STATUS of the inquiry cancel
InquiryCancelStatus ==
  /\ phase = "idle" /\ inquiry = "stopping"
  /\ InquiryLedOff
  /\ UNCHANGED <<phase, current, found, newPair, acl, cid, listVars, keys,
                 inquiry, connectable, linkVars, refused>>

\* HCI_EVENT_CONNECTION_REQUEST.  A blacklisted address is rejected, but
\* BTstack accepts by itself too and either command may be the one obeyed;
\* the handler answers for a second peer as well, whom BTstack turns away.
ConnectionRequest(a, gamepad) ==
  /\ phase = "idle" /\ connectable
  /\ stage # "none" => a # peer
  /\ IF a \notin blocked /\ gamepad
       THEN current' = a /\ InquiryStop
       ELSE UNCHANGED <<current, inquiry>>
  /\ \/ /\ stage = "none"
        /\ stage' = "setup" /\ peer' = a /\ dir' = "in"
     \/ /\ stage # "none" \/ a \in blocked \/ ~gamepad
        /\ UNCHANGED <<stage, peer, dir>>
  /\ UNCHANGED <<phase, found, newPair, inquiring, acl, cid, listVars, keys,
                 connectable, closing, chan, refused>>

Blacklisted_ByCurrent == ~newPair /\ current \in blocked

\* A controller on the list is only let in when an inquiry found it.
Blacklisted == ~newPair /\ peer \in blocked

Refuse_WithoutDisconnect == UNCHANGED <<closing, acl, current>>

\* gap_disconnect, without recording the link
Refuse == closing' = TRUE /\ UNCHANGED <<acl, current>>

Admit == acl' = TRUE /\ current' = peer /\ UNCHANGED closing

\* HCI_EVENT_CONNECTION_COMPLETE with status 0
ConnectionComplete ==
  /\ phase = "idle" /\ stage = "setup"
  /\ stage' = "up"
  /\ IF Blacklisted THEN Refuse ELSE Admit
  /\ UNCHANGED <<phase, found, newPair, inquiring, cid, listVars, keys,
                 inquiry, connectable, peer, dir, chan, refused>>

\* A failed CONNECTION_COMPLETE, or a failed COMMAND_STATUS of the
\* create-connection: of the link being set up, or of a refused second one.
ConnectionFailed ==
  /\ phase = "idle"
  /\ \/ stage = "setup" /\ stage' = "none" /\ NoPeer /\ UNCHANGED refused
     \/ refused /\ refused' = FALSE /\ UNCHANGED <<stage, peer, dir>>
  /\ found' = FALSE
  /\ newPair' = FALSE
  /\ UNCHANGED <<phase, current, inquiring, acl, cid, listVars, keys, inquiry,
                 connectable, closing, chan>>

\* HCI_EVENT_AUTHENTICATION_COMPLETE; a success has stored the peer's key.
AuthComplete(ok) ==
  /\ phase = "idle" /\ stage = "up" /\ acl
  /\ IF ok THEN stage' = "authed" /\ StoreKey(peer)
           ELSE UNCHANGED stage /\ keys' = keys \ {current}
  /\ UNCHANGED <<phase, appVars, listVars, inquiry, connectable, peer, dir,
                 closing, chan, refused>>

\* l2cap_create_channel: the cid variable is written at once; a channel to an
\* address that is not the peer's cannot open.
CreateChannel(c) ==
  /\ cid' = [cid EXCEPT ![c] = TRUE]
  /\ chan' = [chan EXCEPT ![c] = IF @ = "open" THEN @
                                 ELSE IF current = peer THEN "pending"
                                 ELSE "doomed"]

\* HCI_EVENT_ENCRYPTION_CHANGE, enabled.  Only the pairing side opens channels.
EncryptionChange ==
  /\ phase = "idle" /\ stage \in {"authed", "secure"}
  /\ stage' = "secure"
  /\ IF newPair /\ ~cid["control"] THEN CreateChannel("control")
     ELSE IF newPair /\ ~cid["interrupt"] THEN CreateChannel("interrupt")
     ELSE UNCHANGED <<cid, chan>>
  /\ UNCHANGED <<phase, current, found, newPair, inquiring, acl, listVars,
                 keys, inquiry, connectable, peer, dir, closing, refused>>

ForgetLink_KeepsCids ==
  /\ connectable' = TRUE
  /\ found' = FALSE /\ newPair' = FALSE /\ acl' = FALSE /\ UNCHANGED cid

ForgetLink_StaysHidden ==
  /\ found' = FALSE /\ newPair' = FALSE /\ acl' = FALSE /\ cid' = Cleared
  /\ UNCHANGED connectable

\* What the handler of the lost link resets
ForgetLink ==
  /\ connectable' = TRUE
  /\ found' = FALSE /\ newPair' = FALSE /\ acl' = FALSE /\ cid' = Cleared

\* HCI_EVENT_DISCONNECTION_COMPLETE: ours, or the peer left
Disconnected ==
  /\ phase = "idle" /\ stage \in {"up", "authed", "secure"}
  /\ stage' = "none" /\ NoPeer /\ closing' = FALSE /\ chan' = NoChannels
  /\ ForgetLink
  /\ UNCHANGED <<phase, current, inquiring, listVars, keys, inquiry, refused>>

-----------------------------------------------------------------------------
(* l2cap_packet_handler                                                    *)

\* L2CAP_EVENT_CHANNEL_OPENED, status 0: a channel of ours, or one the peer
\* opened and L2CAP_EVENT_INCOMING_CONNECTION accepted.  Both services are
\* LEVEL_2, so the link is encrypted.
ChannelOpened(c) ==
  /\ phase = "idle" /\ stage = "secure"
  /\ chan[c] \in {"none", "pending"}
  /\ chan' = [chan EXCEPT ![c] = "open"]
  /\ cid' = [cid EXCEPT ![c] = TRUE]
  /\ IF c = "interrupt"
       THEN BlacklistRemove(current) /\ connectable' = FALSE
       ELSE UNCHANGED <<listVars, connectable>>
  /\ UNCHANGED <<phase, current, found, newPair, inquiring, acl, keys,
                 inquiry, stage, peer, dir, closing, refused>>

\* L2CAP_EVENT_CHANNEL_OPENED, status # 0
ChannelOpenFailed(c) ==
  /\ phase = "idle" /\ chan[c] \in {"pending", "doomed"}
  /\ chan' = [chan EXCEPT ![c] = "none"]
  /\ cid' = Cleared
  /\ found' = FALSE
  /\ BtDisconnect
  /\ UNCHANGED <<phase, current, newPair, inquiring, acl, listVars, keys,
                 inquiry, connectable, stage, peer, dir, refused>>

\* L2CAP_EVENT_CHANNEL_CLOSED
ChannelClosed(c) ==
  /\ phase = "idle" /\ chan[c] = "open"
  /\ chan' = [chan EXCEPT ![c] = "none"]
  /\ cid' = [cid EXCEPT ![c] = FALSE]
  /\ IF cid' = Cleared THEN BtDisconnect ELSE UNCHANGED closing
  /\ UNCHANGED <<phase, current, found, newPair, inquiring, acl, listVars,
                 keys, inquiry, connectable, stage, peer, dir, refused>>

\* L2CAP_DATA_PACKET on the interrupt channel after inactive_time minutes idle
InactivityDisconnect ==
  /\ phase = "idle" /\ HidOpen /\ chan["interrupt"] = "open"
  /\ BtDisconnect
  /\ UNCHANGED <<phase, appVars, listVars, keys, inquiry, connectable, stage,
                 peer, dir, chan, refused>>

-----------------------------------------------------------------------------
ButtonNext == Click \/ Hold \/ HoldDeleteKey \/ HoldPersist

HciNext ==
  \/ StackWorking
  \/ \E a \in Addrs : InquiryResult(a)
  \/ \E natural \in BOOLEAN : InquiryComplete(natural)
  \/ InquiryCancelStatus
  \/ \E a \in Addrs, gamepad \in BOOLEAN : ConnectionRequest(a, gamepad)
  \/ ConnectionComplete
  \/ ConnectionFailed
  \/ \E ok \in BOOLEAN : AuthComplete(ok)
  \/ EncryptionChange
  \/ Disconnected

L2capNext ==
  \E c \in Channels :
    \/ ChannelOpened(c)
    \/ ChannelOpenFailed(c)
    \/ ChannelClosed(c)

Next ==
  \/ ButtonNext
  \/ Settle
  \/ PersistIfDirty
  \/ HciNext
  \/ L2capNext
  \/ InactivityDisconnect
  \/ Reboot

Spec == Init /\ [][Next]_vars

\* The main loop never stops calling button_check, a started hold runs to its
\* end, time passes, and the controller answers the commands it has accepted:
\* once a disconnect was sent its completion comes and is kept for the next
\* poll, which a hold puts off but cannot lose (hence strong fairness).
Fairness ==
  /\ WF_vars(HoldDeleteKey) /\ WF_vars(HoldPersist)
  /\ WF_vars(Settle) /\ WF_vars(PersistIfDirty)
  /\ SF_vars(closing /\ Disconnected)

FairSpec == Spec /\ Fairness

-----------------------------------------------------------------------------
(* Properties.                                                             *)

\* Nothing the handlers remember of a link outlives it: without an ACL link
\* there is no valid acl_handle and no cid, and a cid is only held on an
\* encrypted link whose handle is valid, so that bt_disconnect, bt_write and
\* the BOOTSEL click always act on the link they mean.
NoStaleLink ==
  /\ stage = "none" => cid = Cleared /\ chan = NoChannels
  /\ acl \/ closing => stage \in {"up", "authed", "secure"}
  /\ \A c \in Channels : cid[c] \/ chan[c] # "none" => acl /\ stage = "secure"

\* A link without a valid handle (a blacklisted controller BTstack let in) is
\* always being torn down, so the button and the peer are never both locked
\* out by a link bt.cpp does not know.
UnownedLinkIsClosing ==
  stage \in {"up", "authed", "secure"} /\ ~acl => closing

\* Page scan is only off while a link exists: gap_connectable_control(false)
\* at HID open is always undone before the controller could be waited for.
ReachableWhenIdle == stage = "none" => connectable

\* The inquiry blink never outlives the inquiry.
InquiryLedHonest == inquiring => inquiry # "off"

\* Losing power can bring a re-paired controller back to the list, never
\* lose a forgotten one: the stored list covers the list in RAM except inside
\* a hold, and equals it unless a removal waits to be written.
FlashCoversBlacklist ==
  phase = "idle" => blocked \subseteq flash /\ (dirty = "no" => blocked = flash)

\* A blacklisted controller that pages the bridge is admitted (acl_handle
\* set, authentication requested) only after an inquiry of this link
\* generation has found a gamepad: PS alone never gets it in, although
\* BTstack accepts the connection by itself.
BlockedPageNeedsInquiry ==
  [][~acl /\ acl' /\ dir = "in" /\ peer \in blocked => found]_vars

\* The stored list catches up with the one in RAM, however removals and holds
\* follow each other, unless power is lost first.
RemovalPersists ==
  phase # "off" /\ flash # blocked ~> flash = blocked \/ phase = "off"

\* A link to a controller that has just been forgotten, or that was refused as
\* blacklisted, ends: it does not linger in the only ACL slot.
UnwantedLinkEnds ==
  (phase = "deleting" /\ HidOpen) \/ (stage = "up" /\ ~acl) ~> stage = "none"

\* The interrupt channel opens: the step the code calls a successful pair.
HidOpens == chan["interrupt"] # "open" /\ chan'["interrupt"] = "open"

\* What the comments promise and the code does not keep.  A hold forgets the
\* controllers for good: it never takes one off the list.
HoldKeepsForgotten ==
  [][phase = "idle" /\ phase' = "deleting" => blocked \subseteq blocked']_vars

\* A successful pair removes the MAC of the controller that paired.
PairUnblocksPeerOnly ==
  [][HidOpens => blocked \ blocked' \subseteq {peer}]_vars
=============================================================================
