--------------------------- MODULE SendFifoProofs ---------------------------
(***************************************************************************)
(* No lost wake-up, and no stale or reordered report, for any capacity and *)
(* any number of writes.                                                   *)
(***************************************************************************)
EXTENDS SendFifo, SequenceTheorems, TLAPS

\* A held cid belongs to a channel BTstack knows, on a link.
CidHasChannel == cid => linked /\ chan # "none"

\* A queue nobody will serve is always one that lost its channel.
QueueIsServed ==
  fifo # <<>> => /\ requested \/ stalled
                 /\ cid \/ stalled

\* Queued reports are in writing order, newer than what was sent, and of
\* this link.
QueueIsOrdered ==
  /\ first <= written + 1 /\ sent <= written
  /\ \A i \in 1..Len(fifo) :
       fifo[i] > sent /\ fifo[i] >= first /\ fifo[i] <= written
  /\ \A i, j \in 1..Len(fifo) : i < j => fifo[i] < fifo[j]

IInv == TypeOK /\ CidHasChannel /\ QueueIsServed /\ QueueIsOrdered

\* Appending the next report keeps the queue ordered and within its capacity.
LEMMA EnqueueOrdered ==
  ASSUME TypeOK, QueueIsOrdered, NEW open \in BOOLEAN, Enqueue(open),
         UNCHANGED <<first, sent>>
  PROVE  /\ fifo' \in Seq(1..MaxWrites) /\ Len(fifo') <= Capacity
         /\ written' \in 0..MaxWrites /\ requested' \in BOOLEAN
         /\ QueueIsOrdered'
<1>1. written' = written + 1 /\ written' \in 1..MaxWrites
  BY MaxWritesAssumption DEF TypeOK, Enqueue
<1>2. requested' \in BOOLEAN
  BY Zenon DEF TypeOK, Enqueue
<1>3. CASE Len(fifo) < Capacity
  <2>1. fifo' = Append(fifo, written')
    BY <1>3 DEF Enqueue
  <2>2. fifo' \in Seq(1..MaxWrites) /\ Len(fifo') = Len(fifo) + 1
    BY <1>1, <2>1 DEF TypeOK
  <2>3. \A i \in 1..Len(fifo') :
          fifo'[i] = IF i <= Len(fifo) THEN fifo[i] ELSE written'
    BY <1>1, <2>1 DEF TypeOK
  <2>4. /\ Len(fifo) \in Nat
        /\ \A i \in 1..Len(fifo) : fifo[i] \in 1..MaxWrites
    BY ElementOfSeq, LenProperties DEF TypeOK
  <2>5. Len(fifo') <= Capacity
    BY <1>3, <2>2, <2>4, CapacityAssumption
  <2>a. /\ written \in Nat /\ sent \in Nat /\ first \in Nat
        /\ written' > sent /\ written' >= first
    BY <1>1, MaxWritesAssumption DEF TypeOK, QueueIsOrdered
  <2>6. ASSUME NEW i \in 1..Len(fifo')
        PROVE  fifo'[i] > sent /\ fifo'[i] >= first /\ fifo'[i] <= written'
    <3>1. CASE i <= Len(fifo)
      <4>1. i \in 1..Len(fifo) /\ fifo'[i] = fifo[i]
        BY <2>2, <2>3, <2>4, <3>1
      <4>2. fifo[i] > sent /\ fifo[i] >= first /\ fifo[i] <= written
        BY <4>1 DEF QueueIsOrdered
      <4>3. fifo[i] \in Nat
        BY <2>4, <4>1
      <4>. QED
        BY <1>1, <2>a, <4>1, <4>2, <4>3
    <3>2. CASE ~(i <= Len(fifo))
      BY <1>1, <2>3, <2>a, <3>2
    <3>. QED
      BY <3>1, <3>2
  <2>7. ASSUME NEW i \in 1..Len(fifo'), NEW j \in 1..Len(fifo'), i < j
        PROVE  fifo'[i] < fifo'[j]
    <3>1. i \in 1..Len(fifo) /\ fifo'[i] = fifo[i] /\ fifo[i] \in Nat
      BY <2>2, <2>3, <2>4, <2>7
    <3>2. CASE j <= Len(fifo)
      BY <2>3, <2>4, <2>7, <3>1, <3>2 DEF QueueIsOrdered
    <3>3. CASE ~(j <= Len(fifo))
      <4>1. fifo[i] <= written
        BY <3>1 DEF QueueIsOrdered
      <4>. QED
        BY <1>1, <2>3, <2>a, <3>1, <3>3, <4>1
    <3>. QED
      BY <3>2, <3>3
  <2>8. first' <= written' + 1 /\ sent' <= written'
    BY <1>1 DEF TypeOK, QueueIsOrdered
  <2>9. QueueIsOrdered'
    BY <2>6, <2>7, <2>8 DEF QueueIsOrdered
  <2>. QED
    BY <1>1, <1>2, <2>2, <2>5, <2>9
<1>4. CASE ~(Len(fifo) < Capacity)
  BY <1>1, <1>2, <1>4, MaxWritesAssumption DEF TypeOK, Enqueue, QueueIsOrdered
<1>. QED
  BY <1>3, <1>4

\* Taking the head leaves an ordered queue of reports newer than the head.
LEMMA TailOrdered ==
  ASSUME TypeOK, QueueIsOrdered, fifo # <<>>
  PROVE  /\ Tail(fifo) \in Seq(1..MaxWrites)
         /\ Len(Tail(fifo)) = Len(fifo) - 1
         /\ Head(fifo) > sent /\ Head(fifo) >= first /\ Head(fifo) <= written
         /\ Head(fifo) \in 1..MaxWrites
         /\ \A i \in 1..Len(Tail(fifo)) : Tail(fifo)[i] = fifo[i + 1]
         /\ \A i \in 1..Len(Tail(fifo)) : Tail(fifo)[i] > Head(fifo)
<1>1. Len(fifo) \in Nat \ {0} /\ Head(fifo) = fifo[1]
  BY DEF TypeOK
<1>2. /\ Tail(fifo) \in Seq(1..MaxWrites) /\ Len(Tail(fifo)) = Len(fifo) - 1
      /\ \A i \in 1..Len(Tail(fifo)) : Tail(fifo)[i] = fifo[i + 1]
  BY DEF TypeOK
<1>3. Head(fifo) \in 1..MaxWrites
  BY HeadTailProperties DEF TypeOK
<1>. QED
  BY <1>1, <1>2, <1>3 DEF QueueIsOrdered

\* The report that makes the queue non-empty asks for the event.
LEMMA EnqueueServed ==
  ASSUME TypeOK, QueueIsServed, Enqueue(TRUE), cid', UNCHANGED stalled
  PROVE  QueueIsServed'
<1>1. CASE fifo = <<>>
  <2>1. Len(fifo) = 0 /\ Len(fifo) < Capacity
    BY <1>1, CapacityAssumption, EmptySeq
  <2>2. fifo' = Append(fifo, written') /\ Len(fifo') = 1
    BY <1>1, <2>1 DEF Enqueue
  <2>. QED
    BY <2>1, <2>2 DEF Enqueue, QueueIsServed
<1>2. CASE fifo # <<>>
  <2>1. requested => requested'
    BY DEF Enqueue
  <2>. QED
    BY <1>2, <2>1 DEF QueueIsServed
<1>. QED
  BY <1>1, <1>2

\* An empty queue has no elements to serve or to order.
LEMMA EmptyQueue ==
  ASSUME NEW q, q = << >>
  PROVE  q \in Seq(1..MaxWrites) /\ Len(q) = 0 /\ 1..Len(q) = {}
<1>1. Len(q) = 0 /\ q \in Seq(1..MaxWrites)
  BY EmptySeq
<1>. QED
  BY <1>1

LEMMA InitEstablishes == Init => IInv
<1> SUFFICES ASSUME Init PROVE IInv
  OBVIOUS
<1>1. fifo \in Seq(1..MaxWrites) /\ Len(fifo) = 0 /\ 1..Len(fifo) = {}
  BY EmptyQueue DEF Init
<1>2. QueueIsServed /\ QueueIsOrdered
  BY <1>1 DEF Init, QueueIsServed, QueueIsOrdered
<1>3. /\ cid = FALSE /\ linked = FALSE /\ chan = "none" /\ requested = FALSE
      /\ written = 0 /\ first = 1 /\ sent = 0 /\ stalled = FALSE
  BY DEF Init
<1>4. TypeOK
  <2>1. fifo \in Seq(1..MaxWrites) /\ Len(fifo) <= Capacity
    BY <1>1, CapacityAssumption
  <2>2. written \in 0..MaxWrites /\ sent \in 0..MaxWrites
        /\ first \in 1..(MaxWrites + 1)
    BY <1>3, MaxWritesAssumption
  <2>. QED
    BY <1>3, <2>1, <2>2 DEF TypeOK
<1>. QED
  BY <1>2, <1>3, <1>4 DEF IInv, CidHasChannel

LEMMA StepPreserves == IInv /\ [Next]_vars => IInv'
<1> SUFFICES ASSUME IInv, [Next]_vars PROVE IInv'
  OBVIOUS
<1> USE CapacityAssumption, MaxWritesAssumption DEF IInv, CidHasChannel
<1>1. CASE Linked
  BY <1>1 DEF Linked, TypeOK, QueueIsServed, QueueIsOrdered
<1>2. CASE CreateChannel
  BY <1>2 DEF CreateChannel, TypeOK, QueueIsServed, QueueIsOrdered
<1>3. CASE ChannelOpened
  <2>1. Enqueue(TRUE) /\ UNCHANGED <<linked, first, sent, stalled>>
    BY <1>3 DEF ChannelOpened
  <2>2. TypeOK' /\ QueueIsOrdered'
    BY <1>3, <2>1, EnqueueOrdered DEF ChannelOpened, TypeOK
  <2>3. QueueIsServed'
    BY <1>3, <2>1, EnqueueServed DEF ChannelOpened
  <2>. QED
    BY <1>3, <2>2, <2>3 DEF ChannelOpened
<1>4. CASE ChannelOpenFailed
  <2>1. UNCHANGED <<fifo, linked, written, first, sent>> /\ cid' = FALSE
    BY <1>4 DEF ChannelOpenFailed
  <2>2. chan' \in {"none", "pending", "open"} /\ requested' \in BOOLEAN
    BY <1>4 DEF ChannelOpenFailed, TypeOK
  <2>3. stalled' \in BOOLEAN /\ (fifo # <<>> => stalled')
    BY <1>4, Zenon DEF ChannelOpenFailed
  <2>. QED
    BY <2>1, <2>2, <2>3 DEF TypeOK, QueueIsServed, QueueIsOrdered
<1>5. CASE ChannelClosed
  <2>1. stalled' \in BOOLEAN /\ (fifo # <<>> => stalled')
    BY <1>5, Zenon DEF ChannelClosed
  <2>. QED
    BY <1>5, <2>1 DEF ChannelClosed, TypeOK, QueueIsServed, QueueIsOrdered
<1>6. CASE Disconnected
  <2>1. first' = written + 1 /\ first' \in 1..(MaxWrites + 1)
    BY <1>6 DEF Disconnected, TypeOK
  <2>2. fifo' \in Seq(1..MaxWrites) /\ Len(fifo') = 0 /\ 1..Len(fifo') = {}
    BY <1>6, EmptyQueue DEF Disconnected
  <2>3. /\ linked' = FALSE /\ cid' = FALSE /\ chan' = "none"
        /\ requested' = FALSE /\ stalled' = FALSE
        /\ UNCHANGED <<written, sent>>
    BY <1>6 DEF Disconnected
  <2>4. TypeOK'
    <3>1. fifo' \in Seq(1..MaxWrites) /\ Len(fifo') <= Capacity
      BY <2>2
    <3>. QED
      BY <2>1, <2>3, <3>1 DEF TypeOK
  <2>5. QueueIsOrdered'
    BY <2>1, <2>2, <2>3 DEF TypeOK, QueueIsOrdered
  <2>. QED
    BY <1>6, <2>3, <2>4, <2>5 DEF Disconnected, QueueIsServed
<1>7. CASE Write
  <2>1. (chan # "none") = TRUE /\ Enqueue(TRUE) /\ UNCHANGED <<first, sent>>
    BY <1>7 DEF Write
  <2>2. TypeOK' /\ QueueIsOrdered'
    BY <1>7, <2>1, EnqueueOrdered DEF Write, TypeOK
  <2>3. QueueIsServed'
    BY <1>7, <2>1, EnqueueServed DEF Write
  <2>. QED
    BY <1>7, <2>2, <2>3 DEF Write
<1>8. CASE CanSendNow
  <2>1. requested' \in BOOLEAN
    BY <1>8, Zenon DEF CanSendNow
  <2>2. UNCHANGED <<cid, linked, chan, written, first, stalled>>
    BY <1>8 DEF CanSendNow
  <2>3. CASE fifo = <<>>
    <3>1. fifo' = fifo /\ sent' = sent
      BY <1>8, <2>3 DEF CanSendNow
    <3>. QED
      BY <2>1, <2>2, <2>3, <3>1 DEF TypeOK, QueueIsServed, QueueIsOrdered
  <2>4. CASE fifo # <<>>
    <3>1. fifo' = Tail(fifo) /\ sent' \in {sent, Head(fifo)}
      BY <1>8, <2>4 DEF CanSendNow
    <3>2. requested' \/ stalled \/ fifo' = <<>>
      BY <1>8, <2>4 DEF CanSendNow, QueueIsServed
    <3>3. TypeOK'
      BY <2>1, <2>2, <2>4, <3>1, TailOrdered DEF TypeOK
    <3>4. QueueIsOrdered'
      BY <2>2, <2>4, <3>1, TailOrdered, SMTT(40) DEF TypeOK, QueueIsOrdered
    <3>. QED
      BY <2>2, <2>4, <3>2, <3>3, <3>4 DEF QueueIsServed
  <2>. QED
    BY <2>3, <2>4
<1>9. CASE UNCHANGED vars
  BY <1>9 DEF vars, TypeOK, QueueIsServed, QueueIsOrdered
<1>. QED
  BY <1>1, <1>2, <1>3, <1>4, <1>5, <1>6, <1>7, <1>8, <1>9 DEF Next

LEMMA Invariance == Spec => []IInv
BY InitEstablishes, StepPreserves, PTL DEF Spec

\* The queue never exceeds its capacity and the flags stay flags.
THEOREM TypeCorrect == Spec => []TypeOK
<1>1. IInv => TypeOK
  BY DEF IInv
<1>. QED
  BY <1>1, Invariance, PTL

\* A waiting report always has an event due, unless its channel was lost.
THEOREM WakeupIsNotLost == Spec => []NoLostWakeup
<1>1. IInv => NoLostWakeup
  BY DEF IInv, QueueIsServed, NoLostWakeup
<1>. QED
  BY <1>1, Invariance, PTL

\* Only CAN_SEND_NOW sends, and what it sends is the oldest report of a queue
\* that holds this link's reports only.
THEOREM ReportsInOrder == Spec => SentInOrderOnOwnLink
<1>1. ASSUME IInv, [Next]_vars, sent' # sent
      PROVE  sent' > sent /\ sent' >= first
  <2>1. CanSendNow
    BY <1>1 DEF Next, Linked, CreateChannel, ChannelOpened, ChannelOpenFailed,
                ChannelClosed, Disconnected, Write, vars
  <2>2. fifo # <<>> /\ sent' = Head(fifo)
    BY <1>1, <2>1 DEF CanSendNow
  <2>. QED
    BY <1>1, <2>2, TailOrdered DEF IInv
<1>2. IInv /\ [Next]_vars
        => [sent' # sent => sent' > sent /\ sent' >= first]_vars
  BY <1>1
<1>. QED
  BY <1>2, Invariance, PTL DEF Spec, SentInOrderOnOwnLink

\* The safety half of QueuedIsSent: a report that was accepted leaves the queue when it
\* is sent or with its link, or when the event finds the channel id cleared by a failed
\* open; a full queue drops the newest report and none that waits (bt.cpp:829-844).
QueuedIsKept ==
  [][\A i \in 1..Len(fifo) :
       \/ \E j \in 1..Len(fifo') : fifo'[j] = fifo[i]
       \/ sent' = fifo[i]
       \/ ~linked' \/ ~cid]_vars

\* It holds for every capacity, whatever is written, opened, closed and lost between.
THEOREM AcceptedIsSentOrLinkLost == Spec => QueuedIsKept
<1>1. ASSUME IInv, [Next]_vars, NEW i \in 1..Len(fifo), linked', cid
      PROVE  (\E j \in 1..Len(fifo') : fifo'[j] = fifo[i]) \/ sent' = fifo[i]
  <2>0. fifo \in Seq(1..MaxWrites) /\ Len(fifo) \in Nat
    <3>1. fifo \in Seq(1..MaxWrites)
      BY <1>1 DEF IInv, TypeOK
    <3> QED BY <3>1, LenProperties
  <2>1. CASE fifo' = fifo
    BY <2>1
  <2>2. ASSUME NEW open \in BOOLEAN, Enqueue(open), fifo' # fifo
        PROVE  \E j \in 1..Len(fifo') : fifo'[j] = fifo[i]
    <3>1. fifo' = Append(fifo, written') /\ written' \in 1..MaxWrites
      BY <1>1, <2>2, MaxWritesAssumption DEF Enqueue, IInv, TypeOK
    <3>2. Len(fifo') = Len(fifo) + 1 /\ fifo'[i] = fifo[i]
      BY <2>0, <3>1
    <3>3. i \in 1..Len(fifo')
      BY <2>0, <3>2
    <3> QED BY <3>2, <3>3
  <2>3. CASE CanSendNow
    <3>1. fifo # <<>> /\ fifo' = Tail(fifo) /\ sent' = Head(fifo)
      BY <1>1, <2>0, <2>3 DEF CanSendNow
    <3>2. CASE i = 1
      BY <2>0, <3>1, <3>2
    <3>3. CASE i # 1
      <4>1. /\ Len(fifo') = Len(fifo) - 1 /\ i - 1 \in 1..Len(fifo')
            /\ fifo'[i - 1] = fifo[i]
        BY <2>0, <3>1, <3>3
      <4> QED BY <4>1
    <3> QED BY <3>2, <3>3
  <2>4. CASE ChannelOpened
    BY <2>1, <2>2, <2>4 DEF ChannelOpened
  <2>5. CASE Write
    <3>1. Enqueue(chan # "none") /\ (chan # "none") \in BOOLEAN
      BY <2>5 DEF Write
    <3> QED BY <2>1, <2>2, <3>1
  <2> QED
    BY <1>1, <2>1, <2>3, <2>4, <2>5
    DEF Next, Linked, CreateChannel, ChannelOpenFailed, ChannelClosed, Disconnected,
        vars
<1>2. IInv /\ [Next]_vars =>
        [\A i \in 1..Len(fifo) :
           \/ \E j \in 1..Len(fifo') : fifo'[j] = fifo[i]
           \/ sent' = fifo[i]
           \/ ~linked' \/ ~cid]_vars
  BY <1>1
<1> QED BY <1>2, Invariance, PTL DEF Spec, QueuedIsKept
=============================================================================
