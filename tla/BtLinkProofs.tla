---------------------------- MODULE BtLinkProofs ----------------------------
(***************************************************************************)
(* The safety of BtLink for any number of controllers and link keys.       *)
(***************************************************************************)
EXTENDS BtLink, FiniteSetTheorems, TLAPS

\* What the addresses and flags mean while they are in use: an address is a
\* controller's once something was found or linked, and a pairing whose link
\* is not up yet still has the inquiry result that started it.
LinkHasPeer ==
  /\ stage # "none" => peer \in Addrs
  /\ found => current \in Addrs
  /\ acl => current \in Addrs

\* Only a link whose handle bt.cpp holds is ever authenticated.
AuthedIsOwned == stage \in {"authed", "secure"} => acl

NewPairWasFound == newPair /\ ~acl => found

\* Scanning is on until a link is up.
ReachableUntilUp == stage \in {"none", "setup"} => connectable

IInv ==
  /\ TypeOK
  /\ NoStaleLink
  /\ UnownedLinkIsClosing
  /\ LinkHasPeer
  /\ AuthedIsOwned
  /\ NewPairWasFound
  /\ ReachableUntilUp
  /\ InquiryLedHonest
  /\ FlashCoversBlacklist

LEMMA InitEstablishes == Init => IInv
BY NoAddrAssumption
   DEF Init, IInv, TypeOK, NoStaleLink, UnownedLinkIsClosing, LinkHasPeer,
       AuthedIsOwned, NewPairWasFound, ReachableUntilUp, InquiryLedHonest,
       FlashCoversBlacklist, Cleared, NoChannels, Channels

\* l2cap_create_channel leaves the cids and the channels well typed.
LEMMA CreateChannelType ==
  ASSUME NEW c \in Channels, TypeOK, CreateChannel(c)
  PROVE  /\ cid' \in [Channels -> BOOLEAN]
         /\ chan' \in [Channels -> {"none", "pending", "doomed", "open"}]
<1>1. cid' \in [Channels -> BOOLEAN]
  BY DEF TypeOK, CreateChannel
<1>2. (IF chan[c] = "open" THEN chan[c]
        ELSE IF current = peer THEN "pending" ELSE "doomed")
         \in {"none", "pending", "doomed", "open"}
  OBVIOUS
<1>3. chan' \in [Channels -> {"none", "pending", "doomed", "open"}]
  BY <1>2 DEF TypeOK, CreateChannel
<1>. QED
  BY <1>1, <1>3

LEMMA StepPreserves == IInv /\ [Next]_vars => IInv'
<1> SUFFICES ASSUME IInv, [Next]_vars PROVE IInv'
  OBVIOUS
<1> USE DEF IInv, TypeOK, NoStaleLink, UnownedLinkIsClosing, LinkHasPeer,
            AuthedIsOwned, NewPairWasFound, ReachableUntilUp, InquiryLedHonest,
            FlashCoversBlacklist, Cleared, NoChannels, Channels, HidOpen,
            vars, appVars, listVars, linkVars
<1>1. CASE StackWorking
  BY <1>1 DEF StackWorking, InquiryStart
<1>2. CASE Reboot
  BY <1>2 DEF Reboot
<1>3. CASE Click
  <2>1. TypeOK'
    <3>1. closing' \in BOOLEAN /\ inquiring' \in BOOLEAN
      BY <1>3, Zenon DEF Click, BtDisconnect
    <3>2. inquiry' \in {"off", "running", "stopping"}
      BY <1>3 DEF Click, InquiryStart
    <3>. QED
      BY <1>3, <3>1, <3>2 DEF Click
  <2>2. NoStaleLink'
    BY <1>3 DEF Click, InquiryStart, BtDisconnect
  <2>3. UnownedLinkIsClosing'
    BY <1>3 DEF Click, InquiryStart, BtDisconnect
  <2>4. (LinkHasPeer /\ AuthedIsOwned /\ NewPairWasFound /\ ReachableUntilUp)'
    BY <1>3 DEF Click, InquiryStart, BtDisconnect
  <2>5. (InquiryLedHonest /\ FlashCoversBlacklist)'
    BY <1>3 DEF Click, InquiryStart, BtDisconnect
  <2>. QED
    BY <2>1, <2>2, <2>3, <2>4, <2>5
<1>4. CASE Hold
  BY <1>4 DEF Hold, HoldSnapshot, BtDisconnect
<1>5. CASE HoldDeleteKey
  BY <1>5 DEF HoldDeleteKey
<1>6. CASE HoldPersist
  BY <1>6 DEF HoldPersist, BlacklistPersist
<1>7. CASE Settle
  BY <1>7 DEF Settle
<1>8. CASE PersistIfDirty
  BY <1>8 DEF PersistIfDirty, BlacklistPersist
<1>9. ASSUME NEW a \in Addrs, InquiryResult(a) PROVE IInv'
  BY <1>9 DEF InquiryResult, InquiryStop
<1>10. ASSUME NEW natural \in BOOLEAN, InquiryComplete(natural) PROVE IInv'
  <2>1. newPair' \in BOOLEAN /\ connectable' \in BOOLEAN /\ refused' \in BOOLEAN
    BY <1>10, Zenon DEF InquiryComplete, CreateConnection, InquiryLedOff
  <2>2. TypeOK'
    BY <1>10, <2>1 DEF InquiryComplete, CreateConnection, InquiryLedOff
  <2>3. NoStaleLink' /\ UnownedLinkIsClosing'
    BY <1>10 DEF InquiryComplete, CreateConnection, InquiryLedOff
  <2>4. (LinkHasPeer /\ AuthedIsOwned /\ NewPairWasFound)'
    BY <1>10 DEF InquiryComplete, CreateConnection, InquiryLedOff
  <2>5. (ReachableUntilUp /\ InquiryLedHonest /\ FlashCoversBlacklist)'
    BY <1>10 DEF InquiryComplete, CreateConnection, InquiryLedOff
  <2>. QED
    BY <2>2, <2>3, <2>4, <2>5
<1>11. CASE InquiryCancelStatus
  <2>1. TypeOK'
    BY <1>11, ZenonT(40) DEF InquiryCancelStatus, InquiryLedOff
  <2>2. NoStaleLink'
    BY <1>11 DEF InquiryCancelStatus, InquiryLedOff
  <2>3. UnownedLinkIsClosing'
    BY <1>11 DEF InquiryCancelStatus, InquiryLedOff
  <2>4. (LinkHasPeer /\ AuthedIsOwned /\ NewPairWasFound /\ ReachableUntilUp)'
    BY <1>11 DEF InquiryCancelStatus, InquiryLedOff
  <2>5. (InquiryLedHonest /\ FlashCoversBlacklist)'
    BY <1>11 DEF InquiryCancelStatus, InquiryLedOff
  <2>. QED
    BY <2>1, <2>2, <2>3, <2>4, <2>5
<1>12. ASSUME NEW a \in Addrs, NEW gamepad \in BOOLEAN,
              ConnectionRequest(a, gamepad)
       PROVE  IInv'
  BY <1>12 DEF ConnectionRequest, InquiryStop
<1>13. CASE ConnectionComplete
  BY <1>13, ZenonT(40) DEF ConnectionComplete, Blacklisted, Refuse, Admit
<1>14. CASE ConnectionFailed
  <2>1. TypeOK'
    BY <1>14, ZenonT(40) DEF ConnectionFailed, NoPeer
  <2>2. NoStaleLink'
    <3>1. CASE stage = "setup"
      <4>1. \A c \in Channels : cid[c] = FALSE /\ chan[c] = "none"
        BY <3>1
      <4>2. cid = Cleared /\ chan = NoChannels
        BY <4>1, <3>1
      <4>. QED
        BY <1>14, <4>2 DEF ConnectionFailed, NoPeer
    <3>2. CASE stage # "setup"
      BY <1>14, <3>2 DEF ConnectionFailed, NoPeer
    <3>. QED
      BY <3>1, <3>2
  <2>3. UnownedLinkIsClosing'
    BY <1>14 DEF ConnectionFailed, NoPeer
  <2>4. (LinkHasPeer /\ AuthedIsOwned /\ NewPairWasFound /\ ReachableUntilUp)'
    BY <1>14 DEF ConnectionFailed, NoPeer
  <2>5. (InquiryLedHonest /\ FlashCoversBlacklist)'
    BY <1>14 DEF ConnectionFailed, NoPeer
  <2>. QED
    BY <2>1, <2>2, <2>3, <2>4, <2>5
<1>15. ASSUME NEW ok \in BOOLEAN, AuthComplete(ok) PROVE IInv'
  BY <1>15 DEF AuthComplete, StoreKey
<1>16. CASE EncryptionChange
  <2>a. /\ cid' \in [Channels -> BOOLEAN]
        /\ chan' \in [Channels -> {"none", "pending", "doomed", "open"}]
    <3>1. CASE newPair /\ ~cid["control"]
      BY <1>16, <3>1, CreateChannelType DEF EncryptionChange
    <3>2. CASE ~(newPair /\ ~cid["control"]) /\ newPair /\ ~cid["interrupt"]
      BY <1>16, <3>2, CreateChannelType DEF EncryptionChange
    <3>3. CASE ~(newPair /\ ~cid["control"]) /\ ~(newPair /\ ~cid["interrupt"])
      BY <1>16, <3>3 DEF EncryptionChange
    <3>. QED
      BY <3>1, <3>2, <3>3
  <2>b. acl /\ stage' = "secure" /\ acl' = acl /\ closing' = closing
    BY <1>16 DEF EncryptionChange
  <2>1. TypeOK'
    BY <1>16, <2>a DEF EncryptionChange
  <2>2. NoStaleLink'
    BY <2>b
  <2>3. UnownedLinkIsClosing'
    BY <1>16 DEF EncryptionChange, CreateChannel
  <2>4. (LinkHasPeer /\ AuthedIsOwned /\ NewPairWasFound /\ ReachableUntilUp)'
    BY <1>16 DEF EncryptionChange, CreateChannel
  <2>5. (InquiryLedHonest /\ FlashCoversBlacklist)'
    BY <1>16 DEF EncryptionChange, CreateChannel
  <2>. QED
    BY <2>1, <2>2, <2>3, <2>4, <2>5
<1>17. CASE Disconnected
  BY <1>17 DEF Disconnected, ForgetLink, NoPeer
<1>18. ASSUME NEW c \in Channels, ChannelOpened(c) PROVE IInv'
  <2>a. /\ cid' \in [Channels -> BOOLEAN]
        /\ chan' \in [Channels -> {"none", "pending", "doomed", "open"}]
    BY <1>18 DEF ChannelOpened
  <2>b. connectable' \in BOOLEAN /\ blocked' \subseteq Addrs
        /\ flash' \subseteq Addrs /\ dirty' \in {"no", "settling", "due"}
    BY <1>18 DEF ChannelOpened, BlacklistRemove
  <2>1. TypeOK'
    BY <1>18, <2>a, <2>b DEF ChannelOpened
  <2>2. NoStaleLink'
    BY <1>18 DEF ChannelOpened
  <2>3. UnownedLinkIsClosing'
    BY <1>18 DEF ChannelOpened, BlacklistRemove
  <2>4. (LinkHasPeer /\ AuthedIsOwned /\ NewPairWasFound /\ ReachableUntilUp)'
    BY <1>18 DEF ChannelOpened, BlacklistRemove
  <2>5. (InquiryLedHonest /\ FlashCoversBlacklist)'
    BY <1>18 DEF ChannelOpened, BlacklistRemove
  <2>. QED
    BY <2>1, <2>2, <2>3, <2>4, <2>5
<1>19. ASSUME NEW c \in Channels, ChannelOpenFailed(c) PROVE IInv'
  <2>a. closing' \in BOOLEAN
    BY <1>19, Zenon DEF ChannelOpenFailed, BtDisconnect
  <2>b. chan' \in [Channels -> {"none", "pending", "doomed", "open"}]
    BY <1>19 DEF ChannelOpenFailed
  <2>c. cid' \in [Channels -> BOOLEAN] /\ found' \in BOOLEAN
    BY <1>19 DEF ChannelOpenFailed
  <2>d. UNCHANGED <<phase, current, newPair, inquiring, acl, blocked, dirty,
                    flash, keys, inquiry, connectable, stage, peer, dir,
                    refused>>
    BY <1>19 DEF ChannelOpenFailed
  <2>1. TypeOK'
    BY <2>a, <2>b, <2>c, <2>d
  <2>2. NoStaleLink'
    BY <1>19 DEF ChannelOpenFailed, BtDisconnect
  <2>3. UnownedLinkIsClosing'
    BY <1>19 DEF ChannelOpenFailed, BtDisconnect
  <2>4. (LinkHasPeer /\ AuthedIsOwned /\ NewPairWasFound /\ ReachableUntilUp)'
    BY <1>19 DEF ChannelOpenFailed, BtDisconnect
  <2>5. (InquiryLedHonest /\ FlashCoversBlacklist)'
    BY <1>19 DEF ChannelOpenFailed, BtDisconnect
  <2>. QED
    BY <2>1, <2>2, <2>3, <2>4, <2>5
<1>20. ASSUME NEW c \in Channels, ChannelClosed(c) PROVE IInv'
  BY <1>20 DEF ChannelClosed, BtDisconnect
<1>21. CASE InactivityDisconnect
  BY <1>21 DEF InactivityDisconnect, BtDisconnect
<1>22. CASE UNCHANGED vars
  BY <1>22
<1>. QED
  BY <1>1, <1>2, <1>3, <1>4, <1>5, <1>6, <1>7, <1>8, <1>9, <1>10, <1>11,
     <1>12, <1>13, <1>14, <1>15, <1>16, <1>17, <1>18, <1>19, <1>20, <1>21,
     <1>22
  DEF Next, ButtonNext, HciNext, L2capNext

-----------------------------------------------------------------------------
LEMMA Invariance == Spec => []IInv
BY InitEstablishes, StepPreserves, PTL DEF Spec

\* Every variable of bt.cpp keeps its type; in particular the blacklist only
\* ever holds addresses of controllers, never the initial zero address.
THEOREM TypeCorrect == Spec => []TypeOK
<1>1. IInv => TypeOK
  BY DEF IInv
<1>. QED
  BY <1>1, Invariance, PTL

\* bt_disconnect, bt_write and the click always act on the link they mean.
THEOREM HandlesAreFresh == Spec => []NoStaleLink
<1>1. IInv => NoStaleLink
  BY DEF IInv
<1>. QED
  BY <1>1, Invariance, PTL

\* The only ACL slot is held by a link bt.cpp knows, or is being freed.
THEOREM UnknownLinkIsClosing == Spec => []UnownedLinkIsClosing
<1>1. IInv => UnownedLinkIsClosing
  BY DEF IInv
<1>. QED
  BY <1>1, Invariance, PTL

\* A bridge without a link can be paged.
THEOREM IdleIsReachable == Spec => []ReachableWhenIdle
<1>1. IInv => ReachableWhenIdle
  BY DEF IInv, ReachableUntilUp, ReachableWhenIdle
<1>. QED
  BY <1>1, Invariance, PTL

\* The inquiry blink ends with the inquiry, whichever of the completion events
\* and the cancel's command status comes first.
THEOREM BlinkIsHonest == Spec => []InquiryLedHonest
<1>1. IInv => InquiryLedHonest
  BY DEF IInv
<1>. QED
  BY <1>1, Invariance, PTL

\* The blacklist survives a crash between any two steps but those of a hold.
THEOREM CrashKeepsBlacklist == Spec => []FlashCoversBlacklist
<1>1. IInv => FlashCoversBlacklist
  BY DEF IInv
<1>. QED
  BY <1>1, Invariance, PTL

\* A blacklisted controller's own page is never admitted without an inquiry
\* result: acl only becomes TRUE in ConnectionComplete, whose guard leaves
\* new_pair, and new_pair without a link still has its inquiry result.
THEOREM BlockedPageIsRefused == Spec => BlockedPageNeedsInquiry
<1>1. ASSUME IInv, [Next]_vars, ~acl, acl', dir = "in", peer \in blocked
      PROVE  found
  <2>1. ConnectionComplete
    BY <1>1
    DEF Next, ButtonNext, HciNext, L2capNext, Click, Hold, HoldDeleteKey,
        HoldPersist, Settle, PersistIfDirty, StackWorking, InquiryResult,
        InquiryComplete, InquiryCancelStatus, ConnectionRequest,
        ConnectionFailed, AuthComplete, EncryptionChange, Disconnected,
        ForgetLink, ChannelOpened, ChannelOpenFailed, ChannelClosed,
        InactivityDisconnect, Reboot, vars, appVars
  <2>2. newPair
    BY <1>1, <2>1 DEF ConnectionComplete, Blacklisted, Refuse
  <2>. QED
    BY <1>1, <2>2 DEF IInv, NewPairWasFound
<1>2. IInv /\ [Next]_vars
        => [~acl /\ acl' /\ dir = "in" /\ peer \in blocked => found]_vars
  BY <1>1
<1>. QED
  BY <1>2, Invariance, PTL DEF Spec, BlockedPageNeedsInquiry

-----------------------------------------------------------------------------
(* The tables fit                                                          *)

\* A list of addresses with room for NVM_NUM_LINK_KEYS of them
Fits(S) == IsFiniteSet(S) /\ Cardinality(S) <= MaxKeys

\* Removing addresses keeps a list within its room.
LEMMA SmallerFits ==
  ASSUME NEW S, NEW T, Fits(S), T \subseteq S
  PROVE  Fits(T)
<1>1. IsFiniteSet(T) /\ Cardinality(T) <= Cardinality(S)
  BY FS_Subset DEF Fits
<1>2. Cardinality(S) \in Nat /\ Cardinality(T) \in Nat
  BY <1>1, FS_CardinalityType DEF Fits
<1> QED BY <1>1, <1>2, MaxKeysAssumption DEF Fits

\* One address more fits if there was room for it.
LEMMA OneMoreFits ==
  ASSUME NEW S, NEW a, Fits(S), Cardinality(S) < MaxKeys
  PROVE  Fits(S \cup {a})
<1>1. /\ IsFiniteSet(S \cup {a}) /\ Cardinality(S) \in Nat
      /\ Cardinality(S \cup {a}) =
           IF a \in S THEN Cardinality(S) ELSE Cardinality(S) + 1
  BY FS_AddElement, FS_CardinalityType DEF Fits
<1> QED BY <1>1, MaxKeysAssumption DEF Fits

\* Storing a key into a full table evicts one first.
LEMMA StoredKeysFit ==
  ASSUME NEW a, Fits(keys), StoreKey(a)
  PROVE  Fits(keys')
<1>1. CASE keys' = keys
  BY <1>1
<1>2. CASE Cardinality(keys) < MaxKeys /\ keys' = keys \cup {a}
  BY <1>2, OneMoreFits
<1>3. ASSUME NEW k \in keys, keys' = (keys \ {k}) \cup {a} PROVE Fits(keys')
  <2>1. /\ IsFiniteSet(keys \ {k}) /\ Cardinality(keys) \in Nat
        /\ Cardinality(keys \ {k}) = Cardinality(keys) - 1
    BY FS_RemoveElement, FS_CardinalityType DEF Fits
  <2>2. Fits(keys \ {k}) /\ Cardinality(keys \ {k}) < MaxKeys
    BY <2>1, MaxKeysAssumption DEF Fits
  <2> QED BY <1>3, <2>2, OneMoreFits
<1> QED BY <1>1, <1>2, <1>3 DEF StoreKey

\* Link keys and both copies of the blacklist
AllFit == Fits(keys) /\ Fits(blocked) /\ Fits(flash)

\* Every handler keeps all three within their arrays.
LEMMA FitKeeps == AllFit /\ [Next]_vars => AllFit'
<1> SUFFICES ASSUME AllFit, [Next]_vars PROVE AllFit'
  OBVIOUS
<1>0. Fits(keys) /\ Fits(blocked) /\ Fits(flash)
  BY DEF AllFit
<1>e. Fits({})
  BY FS_EmptySet, MaxKeysAssumption DEF Fits
<1>1. CASE StackWorking
  BY <1>0, <1>1, Zenon DEF StackWorking, AllFit
<1>2. CASE Reboot
  BY <1>0, <1>2, <1>e, Zenon DEF Reboot, AllFit
<1>3. CASE Hold
  <2>1. Fits(HoldSnapshot)
    <3>1. CASE HidOpen /\ Cardinality(keys) < MaxKeys
      BY <1>0, <3>1, OneMoreFits DEF HoldSnapshot
    <3>2. CASE ~(HidOpen /\ Cardinality(keys) < MaxKeys)
      <4>1. HoldSnapshot = keys
        BY <3>2 DEF HoldSnapshot
      <4> QED BY <1>0, <4>1
    <3> QED BY <3>1, <3>2
  <2> QED BY <1>0, <1>3, <2>1, Zenon DEF Hold, AllFit
<1>4. CASE HoldDeleteKey
  <2>1. keys' \subseteq keys /\ blocked' = blocked /\ flash' = flash
    BY <1>4 DEF HoldDeleteKey, listVars
  <2> QED BY <1>0, <2>1, SmallerFits DEF AllFit
<1>5. ASSUME BlacklistPersist, UNCHANGED <<blocked, keys>> PROVE AllFit'
  BY <1>0, <1>5, Zenon DEF BlacklistPersist, AllFit
<1>6. ASSUME NEW ok \in BOOLEAN, AuthComplete(ok) PROVE AllFit'
  <2>1. blocked' = blocked /\ flash' = flash
    BY <1>6, Zenon DEF AuthComplete, listVars
  <2>2. Fits(keys')
    <3>1. CASE ok
      <4>1. StoreKey(peer)
        BY <1>6, <3>1, Zenon DEF AuthComplete
      <4> QED BY <1>0, <4>1, StoredKeysFit
    <3>2. CASE ~ok
      <4>1. keys' \subseteq keys
        BY <1>6, <3>2 DEF AuthComplete
      <4> QED BY <1>0, <4>1, SmallerFits
    <3> QED BY <3>1, <3>2
  <2> QED BY <1>0, <2>1, <2>2, Zenon DEF AllFit
<1>7. ASSUME NEW c \in Channels, ChannelOpened(c) PROVE AllFit'
  <2>1. blocked' \subseteq blocked /\ flash' = flash /\ keys' = keys
    BY <1>7 DEF ChannelOpened, BlacklistRemove, listVars
  <2> QED BY <1>0, <2>1, SmallerFits DEF AllFit
<1>8. ASSUME UNCHANGED <<keys, blocked, flash>> PROVE AllFit'
  BY <1>0, <1>8, Zenon DEF AllFit
<1>9. CASE HoldPersist \/ PersistIfDirty
  BY <1>5, <1>9, Zenon DEF HoldPersist, PersistIfDirty
<1>10. CASE \E c \in Channels : ChannelOpenFailed(c) \/ ChannelClosed(c)
  BY <1>8, <1>10, Zenon DEF ChannelOpenFailed, ChannelClosed, listVars
<1> QED
  BY <1>1, <1>2, <1>3, <1>4, <1>6, <1>7, <1>8, <1>9, <1>10, Zenon
  DEF Next, ButtonNext, HciNext, L2capNext, Click, Settle, InquiryResult,
      InquiryComplete, InquiryCancelStatus, ConnectionRequest, ConnectionComplete,
      ConnectionFailed, EncryptionChange, Disconnected, InactivityDisconnect, vars,
      listVars

\* bt_cleared_addrs, its copy in flash and the link keys stay within
\* NVM_NUM_LINK_KEYS, for every size of the table: the hold adds the connected
\* controller to the stored keys only where an element is left (bt.cpp:304-330), and
\* what it stores, and the next start loads, is no longer.
THEOREM TablesFit == Spec => []AllFit
<1>1. Init => AllFit
  <2>1. Fits({})
    BY FS_EmptySet, MaxKeysAssumption DEF Fits
  <2> QED BY <2>1, Zenon DEF Init, AllFit
<1> QED BY <1>1, FitKeeps, PTL DEF Spec

-----------------------------------------------------------------------------
(* Links nobody wants any more                                             *)

\* A controller being forgotten, or refused by the blacklist, has its link closed.
UnwantedIsClosing ==
  (phase = "deleting" /\ HidOpen) \/ (stage = "up" /\ ~acl) => closing

\* The safety half of UnwantedLinkEnds: the disconnect of an unwanted link has been
\* sent, it goes to a link that is up, and nothing withdraws it until the link is gone.
\* The completion event that BTstack owes then does the rest (bt.cpp:334-336, 487-491).
THEOREM UnwantedIsClosed ==
  Spec => /\ [](UnwantedIsClosing /\ (closing => stage \in {"up", "authed", "secure"}))
          /\ [][closing /\ ~closing' => stage' = "none"]_vars
<1> DEFINE HoldCloses == phase = "deleting" /\ HidOpen => closing
<1>1. Init => HoldCloses
  BY DEF Init
<1>2. ASSUME IInv, HoldCloses, [Next]_vars PROVE HoldCloses'
  <2>1. CASE phase' # "deleting"
    BY <2>1
  <2>2. CASE Hold
    <3>1. cid' = cid /\ closing' = IF HidOpen THEN closing \/ acl ELSE closing
      BY <2>2, Zenon DEF Hold, BtDisconnect, appVars
    <3>2. HidOpen => acl
      BY <1>2 DEF IInv, NoStaleLink, HidOpen, Channels
    <3> QED BY <3>1, <3>2 DEF HidOpen
  <2>3. CASE HoldDeleteKey
    BY <1>2, <2>3 DEF HoldDeleteKey, HidOpen, appVars, linkVars
  <2>4. CASE UNCHANGED vars
    BY <1>2, <2>4 DEF vars, HidOpen, appVars, linkVars
  <2> QED
    BY <1>2, <2>1, <2>2, <2>3, <2>4, Zenon
    DEF Next, ButtonNext, HciNext, L2capNext, Click, HoldPersist, Settle,
        PersistIfDirty, StackWorking, InquiryResult, InquiryComplete,
        InquiryCancelStatus, ConnectionRequest, ConnectionComplete, ConnectionFailed,
        AuthComplete, EncryptionChange, Disconnected, ChannelOpened,
        ChannelOpenFailed, ChannelClosed, InactivityDisconnect, Reboot
<1>3. IInv /\ HoldCloses =>
        UnwantedIsClosing /\ (closing => stage \in {"up", "authed", "secure"})
  BY DEF IInv, UnownedLinkIsClosing, NoStaleLink, UnwantedIsClosing
<1>4. ASSUME [Next]_vars, closing, ~closing' PROVE stage' = "none"
  <2>1. CASE Reboot \/ Disconnected
    BY <2>1, Zenon DEF Reboot, Disconnected
  <2>2. ASSUME BtDisconnect \/ UNCHANGED closing PROVE FALSE
    BY <1>4, <2>2 DEF BtDisconnect
  <2>3. CASE ConnectionComplete
    BY <1>4, <2>3 DEF ConnectionComplete, Refuse, Admit
  <2>4. CASE \E natural \in BOOLEAN : InquiryComplete(natural)
    BY <2>2, <2>4, Zenon DEF InquiryComplete, CreateConnection, linkVars
  <2>5. CASE Click \/ Hold \/ InactivityDisconnect
    BY <2>2, <2>5, Zenon DEF Click, Hold, InactivityDisconnect
  <2>6. CASE \E c \in Channels :
               ChannelOpened(c) \/ ChannelOpenFailed(c) \/ ChannelClosed(c)
    BY <2>2, <2>6, Zenon DEF ChannelOpened, ChannelOpenFailed, ChannelClosed
  <2> QED
    BY <1>4, <2>1, <2>2, <2>3, <2>4, <2>5, <2>6, Zenon
    DEF Next, ButtonNext, HciNext, L2capNext, HoldDeleteKey, HoldPersist, Settle,
        PersistIfDirty, StackWorking, InquiryResult, InquiryCancelStatus,
        ConnectionRequest, ConnectionFailed, AuthComplete, EncryptionChange, vars,
        linkVars
<1>5. [Next]_vars => [closing /\ ~closing' => stage' = "none"]_vars
  BY <1>4
<1>6. IInv /\ HoldCloses /\ [Next]_vars => HoldCloses'
  BY <1>2
<1> HIDE DEF HoldCloses
<1> QED BY <1>1, <1>3, <1>5, <1>6, Invariance, PTL DEF Spec

-----------------------------------------------------------------------------
(* The address that is unblocked                                           *)

\* No event of another controller writes current_device_addr while a link is up.
AddressIsKept == [][acl /\ acl' => current' = current]_vars

\* A pairing takes the controller that paired off the blacklist and no other
\* (bt.cpp:726-728), as long as nothing overwrites current_device_addr in the
\* meantime: the overwriting of bt.cpp:416 and 593 is the only way to what
\* PairUnblocksPeerOnly shows.
THEOREM PeerIsUnblocked == Spec /\ AddressIsKept => PairUnblocksPeerOnly
<1> DEFINE Known == acl => current = peer
<1>1. Init => Known
  BY DEF Init
<1>2. ASSUME IInv, Known, [Next]_vars, [acl /\ acl' => current' = current]_vars
      PROVE  Known'
  <2>0. acl /\ acl' => current' = current
    BY <1>2 DEF vars, appVars
  <2>1. CASE ConnectionComplete
    BY <1>2, <2>0, <2>1 DEF ConnectionComplete, Refuse, Admit
  <2>2. CASE Reboot \/ Disconnected
    BY <2>2 DEF Reboot, Disconnected, ForgetLink
  <2>3. acl => stage \in {"up", "authed", "secure"}
    BY <1>2 DEF IInv, NoStaleLink
  <2>4. ASSUME ~ConnectionComplete, ~Reboot, ~Disconnected
        PROVE  acl' = acl /\ (acl => peer' = peer)
    <3>1. acl' = acl
      BY <1>2, <2>4, Zenon
      DEF Next, ButtonNext, HciNext, L2capNext, Click, Hold, HoldDeleteKey,
          HoldPersist, Settle, PersistIfDirty, StackWorking, InquiryResult,
          InquiryComplete, InquiryCancelStatus, ConnectionRequest, ConnectionFailed,
          AuthComplete, EncryptionChange, ChannelOpened, ChannelOpenFailed,
          ChannelClosed, InactivityDisconnect, vars, appVars
    <3>2. CASE \E natural \in BOOLEAN : InquiryComplete(natural)
      BY <2>3, <3>2 DEF InquiryComplete, CreateConnection, linkVars
    <3>3. CASE \E a \in Addrs, gamepad \in BOOLEAN : ConnectionRequest(a, gamepad)
      BY <2>3, <3>3 DEF ConnectionRequest
    <3>4. CASE ConnectionFailed
      BY <2>3, <3>4 DEF ConnectionFailed
    <3>5. CASE UNCHANGED peer
      BY <3>1, <3>5
    <3> QED
      BY <1>2, <2>4, <3>1, <3>2, <3>3, <3>4, <3>5, Zenon
      DEF Next, ButtonNext, HciNext, L2capNext, Click, Hold, HoldDeleteKey,
          HoldPersist, Settle, PersistIfDirty, StackWorking, InquiryResult,
          InquiryCancelStatus, AuthComplete, EncryptionChange, ChannelOpened,
          ChannelOpenFailed, ChannelClosed, InactivityDisconnect, vars, linkVars
  <2> QED BY <1>2, <2>0, <2>1, <2>2, <2>4
<1>3. ASSUME IInv, Known, [Next]_vars, HidOpens PROVE blocked \ blocked' \subseteq {peer}
  <2>1. CASE \E c \in Channels : ChannelOpened(c)
    <3>1. PICK c \in Channels : ChannelOpened(c)
      BY <2>1
    <3>2. acl
      BY <1>3, <3>1 DEF ChannelOpened, IInv, AuthedIsOwned
    <3>3. blocked \ {current} \subseteq blocked'
      BY <3>1 DEF ChannelOpened, BlacklistRemove, listVars
    <3> QED BY <1>3, <3>2, <3>3
  <2>2. CASE blocked' = blocked
    BY <2>2
  <2>3. CASE StackWorking \/ Reboot \/ Hold
    BY <1>3, <2>3 DEF HidOpens, StackWorking, Reboot, Hold, linkVars, NoChannels,
                      Channels
  <2> QED
    BY <1>3, <2>1, <2>2, <2>3, Zenon
    DEF Next, ButtonNext, HciNext, L2capNext, Click, HoldDeleteKey, HoldPersist,
        Settle, PersistIfDirty, InquiryResult, InquiryComplete, InquiryCancelStatus,
        ConnectionRequest, ConnectionComplete, ConnectionFailed, AuthComplete,
        EncryptionChange, Disconnected, ChannelOpenFailed, ChannelClosed,
        InactivityDisconnect, vars, listVars
<1>4. /\ IInv /\ Known /\ [Next]_vars /\ [acl /\ acl' => current' = current]_vars
      => Known' /\ [HidOpens => blocked \ blocked' \subseteq {peer}]_vars
  BY <1>2, <1>3
<1> HIDE DEF Known
<1> QED
  BY <1>1, <1>4, Invariance, PTL DEF Spec, AddressIsKept, PairUnblocksPeerOnly
=============================================================================
