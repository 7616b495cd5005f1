------------------------------ MODULE SendFifo ------------------------------
(***************************************************************************)
(* The queue of output reports to the controller (send_fifo in             *)
(* src/src/bt.cpp): bt_write adds a report and asks BTstack for a          *)
(* can-send-now event only when the queue was empty; every event sends one *)
(* report and asks again while reports are left.  So one missed request    *)
(* stops the stream, and the module is about when that can happen.         *)
(*                                                                         *)
(* Reports are numbered in the order bt_write is called.  chan and         *)
(* requested are BTstack's (external): the state of the interrupt channel  *)
(* and its pending can-send-now request, which dies with the channel.      *)
(***************************************************************************)
EXTENDS Naturals, Sequences

CONSTANTS Capacity,    \* queue_init's 10
          MaxWrites    \* bound on the calls of bt_write

ASSUME CapacityAssumption == Capacity \in Nat \ {0}
ASSUME MaxWritesAssumption == MaxWrites \in Nat

VARIABLES
  fifo,        \* send_fifo
  cid,         \* hid_interrupt_cid # 0
  linked,      \* an ACL link is up (acl_handle is valid)
  chan,        \* the interrupt channel in BTstack
  requested,   \* a can-send-now event is due
  written,     \* history: number of bt_write calls that had a channel
  first,       \* history: the first report number of this ACL link
  sent,        \* history: the last report sent
  stalled      \* history: the channel was lost (closed, or an open failed)
               \* over queued reports, on the ACL link that is still up

vars == <<fifo, cid, linked, chan, requested, written, first, sent, stalled>>

TypeOK ==
  /\ fifo \in Seq(1..MaxWrites) /\ Len(fifo) <= Capacity
  /\ cid \in BOOLEAN /\ linked \in BOOLEAN
  /\ chan \in {"none", "pending", "open"}
  /\ requested \in BOOLEAN
  /\ written \in 0..MaxWrites /\ sent \in 0..MaxWrites
  /\ first \in 1..(MaxWrites + 1)
  /\ stalled \in BOOLEAN

Init ==
  /\ fifo = <<>> /\ cid = FALSE /\ linked = FALSE /\ chan = "none"
  /\ requested = FALSE /\ written = 0 /\ first = 1 /\ sent = 0
  /\ stalled = FALSE

\* HCI_EVENT_CONNECTION_COMPLETE; nothing of the queue changes.
Linked ==
  /\ ~linked
  /\ linked' = TRUE
  /\ UNCHANGED <<fifo, cid, chan, requested, written, first, sent, stalled>>

\* l2cap_create_channel in ENCRYPTION_CHANGE writes hid_interrupt_cid at once.
CreateChannel ==
  /\ linked /\ ~cid /\ chan = "none"
  /\ cid' = TRUE /\ chan' = "pending"
  /\ UNCHANGED <<fifo, linked, requested, written, first, sent, stalled>>

\* The faulty variants (names with an underscore) are the plausible bugs each
\* property is tried against; no specification uses them.
Enqueue_OneTooMany(open) ==
  /\ written < MaxWrites
  /\ written' = written + 1
  /\ IF Len(fifo) <= Capacity
       THEN /\ fifo' = Append(fifo, written')
            /\ requested' = (requested \/ (Len(fifo') = 1 /\ open))
       ELSE UNCHANGED <<fifo, requested>>

Enqueue_LevelBefore(open) ==
  /\ written < MaxWrites
  /\ written' = written + 1
  /\ IF Len(fifo) < Capacity
       THEN /\ fifo' = Append(fifo, written')
            /\ requested' = (requested \/ (Len(fifo) = 1 /\ open))
       ELSE UNCHANGED <<fifo, requested>>

Enqueue_OverOldest(open) ==
  /\ written < MaxWrites
  /\ written' = written + 1
  /\ IF Len(fifo) < Capacity
       THEN /\ fifo' = Append(fifo, written')
            /\ requested' = (requested \/ (Len(fifo') = 1 /\ open))
       ELSE fifo' = [fifo EXCEPT ![1] = written'] /\ UNCHANGED requested

\* bt_write on a queue of the given contents; a full queue drops the report
\* and only the first report of a queue asks for the event.  BTstack keeps a
\* request on a channel that is still opening until it is open.
Enqueue(open) ==
  /\ written < MaxWrites
  /\ written' = written + 1
  /\ IF Len(fifo) < Capacity
       THEN /\ fifo' = Append(fifo, written')
            /\ requested' = (requested \/ (Len(fifo') = 1 /\ open))
       ELSE UNCHANGED <<fifo, requested>>

\* CHANNEL_OPENED of the interrupt channel, which writes report 0x32
ChannelOpened ==
  /\ linked /\ chan \in {"none", "pending"}
  /\ chan' = "open" /\ cid' = TRUE
  /\ Enqueue(TRUE)
  /\ UNCHANGED <<linked, first, sent, stalled>>

\* A failed CHANNEL_OPENED, of the interrupt channel or of the control
\* channel: both cids are cleared and the link will be dropped.
ChannelOpenFailed ==
  /\ linked
  /\ \/ chan = "pending" /\ chan' = "none" /\ requested' = FALSE
     \/ UNCHANGED <<chan, requested>>
  /\ cid' = FALSE
  /\ stalled' = (stalled \/ fifo # <<>>)
  /\ UNCHANGED <<fifo, linked, written, first, sent>>

\* CHANNEL_CLOSED of the interrupt channel while the ACL link stays up
ChannelClosed ==
  /\ chan = "open"
  /\ chan' = "none" /\ requested' = FALSE /\ cid' = FALSE
  /\ stalled' = (stalled \/ fifo # <<>>)
  /\ UNCHANGED <<fifo, linked, written, first, sent>>

\* HCI_EVENT_DISCONNECTION_COMPLETE drains the queue.
Disconnected ==
  /\ linked
  /\ linked' = FALSE /\ cid' = FALSE /\ chan' = "none" /\ requested' = FALSE
  /\ fifo' = <<>>
  /\ first' = written + 1
  /\ stalled' = FALSE
  /\ UNCHANGED <<written, sent>>

\* bt_write from the main loop or a USB callback
Write ==
  /\ cid
  /\ Enqueue(chan # "none")
  /\ UNCHANGED <<cid, linked, chan, first, sent, stalled>>

CanSendNow_OnlyOnce ==
  /\ requested /\ chan = "open"
  /\ fifo' = IF fifo = <<>> THEN fifo ELSE Tail(fifo)
  /\ sent' = IF fifo # <<>> /\ cid THEN Head(fifo) ELSE sent
  /\ requested' = FALSE
  /\ UNCHANGED <<cid, linked, chan, written, first, stalled>>

\* L2CAP_EVENT_CAN_SEND_NOW.  l2cap_send and the new request both fail when
\* hid_interrupt_cid has been cleared by a failed open.
CanSendNow ==
  /\ requested /\ chan = "open"
  /\ fifo' = IF fifo = <<>> THEN fifo ELSE Tail(fifo)
  /\ sent' = IF fifo # <<>> /\ cid THEN Head(fifo) ELSE sent
  /\ requested' = (fifo' # <<>> /\ cid)
  /\ UNCHANGED <<cid, linked, chan, written, first, stalled>>

Next ==
  \/ Linked
  \/ CreateChannel
  \/ ChannelOpened
  \/ ChannelOpenFailed
  \/ ChannelClosed
  \/ Disconnected
  \/ Write
  \/ CanSendNow

Spec == Init /\ [][Next]_vars

\* BTstack delivers a requested event once the channel can send.
FairSpec == Spec /\ WF_vars(CanSendNow)

-----------------------------------------------------------------------------
\* Reports wait only while an event is due: bt_write's test of the level and
\* CAN_SEND_NOW's test of emptiness never leave a queue nobody will serve,
\* except after the channel alone was lost over queued reports (the queue is
\* drained only when the whole link goes).
NoLostWakeup == cid /\ fifo # <<>> => requested \/ stalled

\* A report reaches the controller in the order it was written, at most once,
\* and never on a later ACL link than the one it was written for.
SentInOrderOnOwnLink == [][sent' # sent => sent' > sent /\ sent' >= first]_vars

\* On a channel that stays usable, every queued report is sent.
QueuedIsSent ==
  \A n \in 1..MaxWrites :
    (\E i \in DOMAIN fifo : fifo[i] = n) /\ cid /\ chan = "open" /\ ~stalled
      ~> sent >= n \/ chan # "open" \/ ~cid
=============================================================================
