------------------------------ MODULE MicPath -------------------------------
(***************************************************************************)
(* The microphone path (audio.cpp): frames of the controller pass through  *)
(* mic_fifo from core 0 to core 1, which decodes them, and back through    *)
(* mic_decode_fifo to the USB endpoint.  Each queue operation is atomic,   *)
(* but "when full, remove the oldest, then add" is three of them, with the *)
(* other core taking from the queue in between.                            *)
(*                                                                         *)
(* Frames are numbered as they come; 0 is no frame.  A frame that the      *)
(* decoder refuses counts as none.                                         *)
(***************************************************************************)
EXTENDS Naturals, Sequences

CONSTANTS Capacity,    \* queue_init's 2
          MaxFrames    \* bound: frames of the controller

VARIABLES
  active,       \* mic_active, with the microphone not disabled
  fifo,         \* mic_fifo
  decodeFifo,   \* mic_decode_fifo
  hand0, full0, \* core 0 in mic_add_queue: the frame to add, the queue was full
  hand1, full1, \* core 1 in mic_proc: the frame taken, the queue was full ...
  decoded,      \* ... and whether it has been decoded
  made,         \* history: frames so far
  delivered     \* history: the last frame written to USB

vars == <<active, fifo, decodeFifo, hand0, full0, hand1, full1, decoded, made,
          delivered>>

Frames == 1..MaxFrames

TypeOK ==
  /\ active \in BOOLEAN
  /\ fifo \in Seq(Frames) /\ decodeFifo \in Seq(Frames)
  /\ Len(fifo) <= Capacity /\ Len(decodeFifo) <= Capacity
  /\ hand0 \in 0..MaxFrames /\ hand1 \in 0..MaxFrames
  /\ full0 \in BOOLEAN /\ full1 \in BOOLEAN /\ decoded \in BOOLEAN
  /\ made \in 0..MaxFrames /\ delivered \in 0..MaxFrames

Init ==
  /\ active = FALSE /\ fifo = <<>> /\ decodeFifo = <<>>
  /\ hand0 = 0 /\ full0 = FALSE /\ hand1 = 0 /\ full1 = FALSE /\ decoded = FALSE
  /\ made = 0 /\ delivered = 0

\* queue_try_remove(q, NULL) and queue_try_add
DropOldest(q) == IF q = <<>> THEN q ELSE Tail(q)
TryAdd(q, f) == IF Len(q) < Capacity THEN Append(q, f) ELSE q

-----------------------------------------------------------------------------
(* Core 0: mic_add_queue, in three steps, and the USB side of audio_loop   *)

\* (The faulty variant adds without looking.)
Arrive_Unchecked ==
  /\ hand0 = 0 /\ active /\ made < MaxFrames
  /\ made' = made + 1 /\ hand0' = made' /\ full0' = FALSE
  /\ UNCHANGED <<active, fifo, decodeFifo, hand1, full1, decoded, delivered>>

Arrive ==
  /\ hand0 = 0 /\ active /\ made < MaxFrames
  /\ made' = made + 1 /\ hand0' = made' /\ full0' = (Len(fifo) = Capacity)
  /\ UNCHANGED <<active, fifo, decodeFifo, hand1, full1, decoded, delivered>>

MakeRoom0 ==
  /\ hand0 # 0 /\ full0
  /\ fifo' = DropOldest(fifo) /\ full0' = FALSE
  /\ UNCHANGED <<active, decodeFifo, hand0, hand1, full1, decoded, made, delivered>>

Add0 ==
  /\ hand0 # 0 /\ ~full0
  /\ fifo' = TryAdd(fifo, hand0) /\ hand0' = 0
  /\ UNCHANGED <<active, decodeFifo, full0, hand1, full1, decoded, made, delivered>>

\* A frame that comes out after the host has closed the interface is dropped
Play ==
  /\ hand0 = 0 /\ decodeFifo # <<>>
  /\ decodeFifo' = Tail(decodeFifo)
  /\ delivered' = IF active THEN Head(decodeFifo) ELSE delivered
  /\ UNCHANGED <<active, fifo, hand0, full0, hand1, full1, decoded, made>>

\* set_mic_active, or the setting disable_mic
SetMicActive ==
  /\ hand0 = 0 /\ active' = ~active
  /\ UNCHANGED <<fifo, decodeFifo, hand0, full0, hand1, full1, decoded, made,
                 delivered>>

-----------------------------------------------------------------------------
(* Core 1: mic_proc                                                        *)

Take ==
  /\ hand1 = 0 /\ fifo # <<>>
  /\ hand1' = Head(fifo) /\ fifo' = Tail(fifo) /\ decoded' = FALSE
  /\ UNCHANGED <<active, decodeFifo, hand0, full0, full1, made, delivered>>

Decode ==
  /\ hand1 # 0 /\ ~decoded
  /\ IF active
       THEN decoded' = TRUE /\ full1' = (Len(decodeFifo) = Capacity)
            /\ UNCHANGED hand1
       ELSE hand1' = 0 /\ UNCHANGED <<decoded, full1>>
  /\ UNCHANGED <<active, fifo, decodeFifo, hand0, full0, made, delivered>>

MakeRoom1 ==
  /\ decoded /\ full1
  /\ decodeFifo' = DropOldest(decodeFifo) /\ full1' = FALSE
  /\ UNCHANGED <<active, fifo, hand0, full0, hand1, decoded, made, delivered>>

Add1 ==
  /\ decoded /\ ~full1
  /\ decodeFifo' = TryAdd(decodeFifo, hand1) /\ hand1' = 0 /\ decoded' = FALSE
  /\ UNCHANGED <<active, fifo, hand0, full0, full1, made, delivered>>

-----------------------------------------------------------------------------
Core0 == MakeRoom0 \/ Add0 \/ Play
Core1 == Take \/ Decode \/ MakeRoom1 \/ Add1
Next == Arrive \/ Core0 \/ SetMicActive \/ Core1

\* Both cores run on.
Spec == Init /\ [][Next]_vars /\ WF_vars(Core0) /\ WF_vars(Core1)

\* The frames on their way, wherever they are
Kept == ({hand0, hand1} \ {0}) \cup {fifo[i] : i \in DOMAIN fifo}
          \cup {decodeFifo[i] : i \in DOMAIN decodeFifo}

LQ == INSTANCE LossyQueue
        WITH kept <- Kept, open <- active, Room <- 2 * Capacity + 2

\* Two queues, two cores and their races are one lossy queue: no frame is
\* duplicated or overtaken, and the newest is never the one that is dropped.
MicIsLossyQueue == LQ!Spec
=============================================================================
