---------------------------- MODULE SpeakerPath -----------------------------
(***************************************************************************)
(* The speaker path (audio.cpp): audio_loop on core 0 gathers USB samples  *)
(* into frames and passes them through audio_fifo to core 1, which encodes *)
(* them into opus_buf, from where packets to the controller take the last. *)
(* When the speaker is disabled core 0 empties the queue, in which core 1  *)
(* may be taking too.                                                      *)
(*                                                                         *)
(* Frames are numbered; 0 is no frame.  A frame that the encoder refuses   *)
(* counts as none.                                                         *)
(***************************************************************************)
EXTENDS Naturals, Sequences

CONSTANTS Capacity,    \* queue_init's 2
          MaxFrames    \* bound: frames of the host

VARIABLES
  enabled,      \* not config.disable_speaker
  fifo,         \* audio_fifo
  hand0, full0, \* core 0 in audio_loop: the frame to add, the queue was full
  hand1,        \* core 1 in speaker_proc: the frame taken ...
  encoding,     \* ... and found to be wanted
  made,         \* history: frames so far
  opus          \* the frame in opus_buf

vars == <<enabled, fifo, hand0, full0, hand1, encoding, made, opus>>

Frames == 1..MaxFrames

TypeOK ==
  /\ enabled \in BOOLEAN
  /\ fifo \in Seq(Frames) /\ Len(fifo) <= Capacity
  /\ hand0 \in 0..MaxFrames /\ hand1 \in 0..MaxFrames
  /\ full0 \in BOOLEAN /\ encoding \in BOOLEAN
  /\ made \in 0..MaxFrames /\ opus \in 0..MaxFrames

Init ==
  /\ enabled \in BOOLEAN /\ fifo = <<>> /\ hand0 = 0 /\ full0 = FALSE
  /\ hand1 = 0 /\ encoding = FALSE /\ made = 0 /\ opus = 0

\* audio_loop: a frame is complete; when the queue is full its oldest goes
Gather ==
  /\ hand0 = 0 /\ enabled /\ made < MaxFrames
  /\ made' = made + 1 /\ hand0' = made' /\ full0' = (Len(fifo) = Capacity)
  /\ UNCHANGED <<enabled, fifo, hand1, encoding, opus>>

MakeRoom ==
  /\ hand0 # 0 /\ full0
  /\ fifo' = (IF fifo = <<>> THEN fifo ELSE Tail(fifo)) /\ full0' = FALSE
  /\ UNCHANGED <<enabled, hand0, hand1, encoding, made, opus>>

Add ==
  /\ hand0 # 0 /\ ~full0
  /\ fifo' = (IF Len(fifo) < Capacity THEN Append(fifo, hand0) ELSE fifo)
  /\ hand0' = 0
  /\ UNCHANGED <<enabled, full0, hand1, encoding, made, opus>>

\* audio_loop with the speaker disabled, one turn of its inner loop
Drain ==
  /\ hand0 = 0 /\ ~enabled /\ fifo # <<>>
  /\ fifo' = Tail(fifo)
  /\ UNCHANGED <<enabled, hand0, full0, hand1, encoding, made, opus>>

SetConfig ==
  /\ hand0 = 0 /\ enabled' = ~enabled
  /\ UNCHANGED <<fifo, hand0, full0, hand1, encoding, made, opus>>

\* Core 1: speaker_proc; the encoder runs without looking at the setting again
Take ==
  /\ hand1 = 0 /\ fifo # <<>>
  /\ hand1' = Head(fifo) /\ fifo' = Tail(fifo)
  /\ UNCHANGED <<enabled, hand0, full0, encoding, made, opus>>

Look ==
  /\ hand1 # 0 /\ ~encoding
  /\ IF enabled THEN encoding' = TRUE /\ UNCHANGED hand1
                ELSE hand1' = 0 /\ UNCHANGED encoding
  /\ UNCHANGED <<enabled, fifo, hand0, full0, made, opus>>

Encoded ==
  /\ encoding
  /\ opus' = hand1 /\ hand1' = 0 /\ encoding' = FALSE
  /\ UNCHANGED <<enabled, fifo, hand0, full0, made>>

Core0 == MakeRoom \/ Add \/ Drain
Core1 == Take \/ Look \/ Encoded
Next == Gather \/ Core0 \/ SetConfig \/ Core1

\* Both cores run on.
Spec == Init /\ [][Next]_vars /\ WF_vars(Core0) /\ WF_vars(Core1)

\* The frames on their way, wherever they are
Kept == ({hand0, hand1} \ {0}) \cup {fifo[i] : i \in DOMAIN fifo}

LQ == INSTANCE LossyQueue
        WITH kept <- Kept, delivered <- opus, open <- enabled, Room <- Capacity + 2

\* The path from USB samples to packets is a lossy queue, too: what the
\* controller plays is never older than what it has played.
SpeakerIsLossyQueue == LQ!Spec
=============================================================================
