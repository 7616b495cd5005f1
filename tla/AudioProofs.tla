---------------------------- MODULE AudioProofs -----------------------------
(***************************************************************************)
(* Both audio paths keep the safety half of what LossyQueue promises, for  *)
(* every capacity and every number of frames.                              *)
(*                                                                         *)
(* "When full, remove the oldest, then add" is three steps of a core, with *)
(* the other core taking from the queue in between.  What saves it is an   *)
(* order of all frames along their way, in the queues and in both hands    *)
(* (SpeakerInv, MicInv): whatever is dropped is older than the frame in    *)
(* hand, and whatever comes out is the oldest there is.                    *)
(*                                                                         *)
(* That frames keep coming out is fairness, and left to the model checker. *)
(***************************************************************************)
EXTENDS MCComponents, FiniteSetTheorems, SequenceTheorems, TLAPS

-----------------------------------------------------------------------------
(* Queues of frames                                                        *)

\* The frames in a queue, and a queue that holds them in the order they came
Entries(q) == {q[i] : i \in DOMAIN q}
Rising(q) == \A i, j \in 1..Len(q) : i < j => q[i] < q[j]

\* The entries of a queue, by their places
LEMMA EntriesByPlace ==
  ASSUME NEW n \in Nat, NEW q \in Seq(1..n)
  PROVE  /\ Len(q) \in Nat /\ DOMAIN q = 1..Len(q)
         /\ \A i \in 1..Len(q) : q[i] \in Entries(q) /\ q[i] \in 1..n
         /\ \A f \in Entries(q) : \E i \in 1..Len(q) : f = q[i]
         /\ Entries(q) \subseteq 1..n
<1>1. Len(q) \in Nat /\ DOMAIN q = 1..Len(q)
  BY LenProperties
<1>2. \A i \in 1..Len(q) : q[i] \in 1..n
  BY ElementOfSeq
<1> QED BY <1>1, <1>2 DEF Entries

\* The oldest frame leaves a queue.
LEMMA TailOfQueue ==
  ASSUME NEW n \in Nat, NEW q \in Seq(1..n), q # <<>>, Rising(q)
  PROVE  /\ Tail(q) \in Seq(1..n) /\ Len(Tail(q)) = Len(q) - 1 /\ Len(q) \in Nat \ {0}
         /\ Rising(Tail(q))
         /\ Head(q) \in Entries(q) /\ Head(q) \in 1..n
         /\ Entries(Tail(q)) = Entries(q) \ {Head(q)}
         /\ \A f \in Entries(Tail(q)) : Head(q) < f
<1> DEFINE t == Tail(q)
           h == Head(q)
<1>1. /\ t \in Seq(1..n) /\ Len(t) = Len(q) - 1
      /\ \A i \in 1..Len(t) : t[i] = q[i + 1]
      /\ Len(q) \in Nat \ {0} /\ h = q[1]
  BY HeadTailProperties, EmptySeq
<1> HIDE DEF t, h
<1>2. Rising(t)
  <2> SUFFICES ASSUME NEW i \in 1..Len(t), NEW j \in 1..Len(t), i < j
               PROVE  t[i] < t[j]
    BY DEF Rising
  <2>1. /\ i + 1 \in 1..Len(q) /\ j + 1 \in 1..Len(q) /\ i + 1 < j + 1
        /\ t[i] = q[i + 1] /\ t[j] = q[j + 1]
    BY <1>1
  <2> QED BY <2>1 DEF Rising
<1>3. h \in Entries(q) /\ h \in 1..n
  BY <1>1, EntriesByPlace
<1>4. ASSUME NEW f \in Entries(t) PROVE f \in Entries(q) /\ h < f
  <2>1. PICK i \in 1..Len(t) : f = t[i]
    BY <1>1, EntriesByPlace
  <2>2. f = q[i + 1] /\ i + 1 \in 1..Len(q) /\ 1 \in 1..Len(q) /\ 1 < i + 1
    BY <1>1, <2>1, SMTT(40)
  <2> QED BY <1>1, <2>2, EntriesByPlace DEF Rising
<1>5. ASSUME NEW f \in Entries(q), f # h PROVE f \in Entries(t)
  <2>1. PICK i \in 1..Len(q) : f = q[i]
    BY EntriesByPlace
  <2>2. i - 1 \in 1..Len(t) /\ (i - 1) + 1 = i
    BY <1>1, <1>5, <2>1
  <2>3. t[i - 1] = f
    BY <1>1, <2>1, <2>2
  <2> QED BY <1>1, <2>2, <2>3, EntriesByPlace
<1>6. Entries(t) \subseteq 1..n
  BY <1>1, EntriesByPlace
<1>7. Entries(t) = Entries(q) \ {h}
  <2>1. \A f \in Entries(t) : f # h
    BY <1>3, <1>4, <1>6
  <2> QED BY <1>4, <1>5, <2>1
<1> QED BY <1>1, <1>2, <1>3, <1>4, <1>7 DEF t, h

\* A newer frame enters it.
LEMMA AppendToQueue ==
  ASSUME NEW n \in Nat, NEW q \in Seq(1..n), Rising(q), NEW x \in 1..n,
         \A f \in Entries(q) : f < x
  PROVE  /\ Append(q, x) \in Seq(1..n) /\ Len(Append(q, x)) = Len(q) + 1
         /\ Rising(Append(q, x))
         /\ Entries(Append(q, x)) = Entries(q) \cup {x}
<1> DEFINE t == Append(q, x)
<1>1. /\ t \in Seq(1..n) /\ Len(t) = Len(q) + 1 /\ Len(q) \in Nat
      /\ \A i \in 1..Len(q) : t[i] = q[i]
      /\ t[Len(q) + 1] = x
  BY AppendProperties, LenProperties
<1> HIDE DEF t
<1>2. \A i \in 1..Len(q) : q[i] < x /\ q[i] \in 1..n
  BY EntriesByPlace
<1>3. Rising(t)
  <2> SUFFICES ASSUME NEW i \in 1..Len(t), NEW j \in 1..Len(t), i < j
               PROVE  t[i] < t[j]
    BY DEF Rising
  <2>1. i \in 1..Len(q) /\ t[i] = q[i]
    BY <1>1, SMTT(40)
  <2>2. CASE j \in 1..Len(q)
    BY <1>1, <2>1, <2>2 DEF Rising
  <2>3. CASE j = Len(q) + 1
    BY <1>1, <1>2, <2>1, <2>3
  <2>4. j \in 1..Len(q) \/ j = Len(q) + 1
    <3>1. Len(t) = Len(q) + 1 /\ Len(q) \in Nat
      BY <1>1
    <3> QED BY <3>1
  <2> QED BY <2>2, <2>3, <2>4
<1>4. Entries(t) = Entries(q) \cup {x}
  <2>1. ASSUME NEW f \in Entries(t) PROVE f \in Entries(q) \cup {x}
    <3>1. PICK i \in 1..Len(t) : f = t[i]
      BY <1>1, EntriesByPlace
    <3>2. CASE i \in 1..Len(q)
      BY <1>1, <3>1, <3>2, EntriesByPlace
    <3>3. CASE i = Len(q) + 1
      BY <1>1, <3>1, <3>3
    <3> QED BY <1>1, <3>2, <3>3
  <2>2. ASSUME NEW f \in Entries(q) PROVE f \in Entries(t)
    <3>1. PICK i \in 1..Len(q) : f = q[i]
      BY EntriesByPlace
    <3>2. i \in 1..Len(t) /\ f = t[i]
      BY <1>1, <3>1
    <3> QED BY <1>1, <3>2, EntriesByPlace
  <2>3. x \in Entries(t)
    <3>1. Len(t) \in 1..Len(t)
      BY <1>1
    <3> QED BY <1>1, <3>1, EntriesByPlace
  <2> QED BY <2>1, <2>2, <2>3
<1> QED BY <1>1, <1>3, <1>4 DEF t

\* A queue holds no more frames than it has places.
LEMMA EntriesAreFew ==
  ASSUME NEW n \in Nat, NEW q \in Seq(1..n)
  PROVE  /\ IsFiniteSet(Entries(q))
         /\ Cardinality(Entries(q)) \in Nat /\ Cardinality(Entries(q)) <= Len(q)
<1>1. Len(q) \in Nat /\ IsFiniteSet(1..Len(q)) /\ Cardinality(1..Len(q)) = Len(q)
  <2>1. Len(q) \in Nat
    BY EntriesByPlace
  <2>2. 1 \in Int /\ Len(q) \in Int
    BY <2>1
  <2>3. /\ IsFiniteSet(1..Len(q))
        /\ Cardinality(1..Len(q)) = IF 1 > Len(q) THEN 0 ELSE Len(q) - 1 + 1
    BY <2>2, FS_Interval, Zenon
  <2> QED BY <2>1, <2>3
<1>2. q \in Surjection(1..Len(q), Entries(q))
  <2>1. q \in [1..Len(q) -> Entries(q)]
    <3>1. q \in [1..Len(q) -> 1..n]
      BY LenProperties
    <3> QED BY <3>1, EntriesByPlace
  <2>2. \A f \in Entries(q) : \E i \in 1..Len(q) : q[i] = f
    BY EntriesByPlace
  <2> QED BY <2>1, <2>2 DEF Surjection
<1>3. IsFiniteSet(Entries(q)) /\ Cardinality(Entries(q)) <= Cardinality(1..Len(q))
  BY <1>1, <1>2, FS_Surjection
<1> QED BY <1>1, <1>3, FS_CardinalityType

\* What two hands hold adds two frames at most.
LEMMA HandsHoldTwo ==
  ASSUME NEW S, IsFiniteSet(S), NEW m \in Nat, Cardinality(S) <= m, NEW a, NEW b
  PROVE  /\ IsFiniteSet(({a, b} \ {0}) \cup S)
         /\ Cardinality(({a, b} \ {0}) \cup S) <= m + 2
<1>1. Cardinality(S) \in Nat
  BY FS_CardinalityType
<1>2. /\ IsFiniteSet(S \cup {a})
      /\ Cardinality(S \cup {a}) \in Nat /\ Cardinality(S \cup {a}) <= m + 1
  BY <1>1, FS_AddElement
<1>3. /\ IsFiniteSet((S \cup {a}) \cup {b})
      /\ Cardinality((S \cup {a}) \cup {b}) \in Nat
      /\ Cardinality((S \cup {a}) \cup {b}) <= m + 2
  BY <1>2, FS_AddElement
<1>4. ({a, b} \ {0}) \cup S \in SUBSET ((S \cup {a}) \cup {b})
  OBVIOUS
<1>5. /\ IsFiniteSet(({a, b} \ {0}) \cup S)
      /\ Cardinality(({a, b} \ {0}) \cup S) <= Cardinality((S \cup {a}) \cup {b})
  BY <1>3, <1>4, FS_Subset
<1> QED BY <1>3, <1>5, FS_CardinalityType

\* An empty queue holds nothing.
LEMMA NoEntries == Entries(<<>>) = {} /\ Rising(<<>>)
BY DEF Entries, Rising

\* queue_try_remove on a full queue leaves a place (MicPath names it DropOldest).
LEMMA RoomIsMade ==
  ASSUME NEW n \in Nat, NEW q \in Seq(1..n), Rising(q), Len(q) <= Capacity
  PROVE  /\ Mic!DropOldest(q) \in Seq(1..n) /\ Rising(Mic!DropOldest(q))
         /\ Len(Mic!DropOldest(q)) \in Nat /\ Len(Mic!DropOldest(q)) < Capacity
         /\ Entries(Mic!DropOldest(q)) \subseteq Entries(q)
<1>1. CASE q = <<>>
  <2>1. Mic!DropOldest(q) = q /\ Len(q) = 0
    BY <1>1, EmptySeq DEF Mic!DropOldest
  <2> QED BY <2>1, SizesAssumption
<1>2. CASE q # <<>>
  <2>1. Mic!DropOldest(q) = Tail(q)
    BY <1>2 DEF Mic!DropOldest
  <2> QED BY <1>2, <2>1, TailOfQueue, SizesAssumption
<1> QED BY <1>1, <1>2

\* The instances of LossyQueue have a Cardinality of their own.
LEMMA SameCardinality ==
  \A S : /\ Speaker!LQ!Cardinality(S) = Cardinality(S)
         /\ Mic!LQ!Cardinality(S) = Cardinality(S)
BY DEF Speaker!LQ!Cardinality, Mic!LQ!Cardinality, Cardinality

-----------------------------------------------------------------------------
(* The speaker                                                             *)

\* Frames leave every place of the path in the order they came: what has been
\* encoded is older than what core 1 holds, that than what is queued, and that
\* than what core 0 holds, which is the newest.  A queue that was found not to be
\* full has a place still, because core 1 only takes from it.
SpeakerInv ==
  /\ Speaker!TypeOK
  /\ Rising(audioFifo)
  /\ opus <= frames /\ taken <= frames
  /\ \A f \in Entries(audioFifo) : opus < f /\ taken < f /\ f <= frames
  /\ taken # 0 => opus < taken
  /\ gathered # 0 =>
       /\ gathered = frames /\ opus < gathered /\ taken < gathered
       /\ \A f \in Entries(audioFifo) : f < gathered
       /\ ~audioFull => Len(audioFifo) < Capacity
  /\ encoding => taken # 0

\* It holds in the beginning,
LEMMA SpeakerStarts == Speaker!Init => SpeakerInv
<1> SUFFICES ASSUME Speaker!Init PROVE SpeakerInv
  OBVIOUS
<1>1. /\ audioFifo = <<>> /\ gathered = 0 /\ taken = 0 /\ frames = 0 /\ opus = 0
      /\ ~encoding /\ encoding \in BOOLEAN /\ audioFull \in BOOLEAN
      /\ enabled \in BOOLEAN
  BY Zenon DEF Speaker!Init
<1>2. Speaker!TypeOK
  BY <1>1, SizesAssumption, EmptySeq DEF Speaker!TypeOK, Speaker!Frames
<1> QED BY <1>1, <1>2, NoEntries DEF SpeakerInv

\* what the lemmas below use of it,
LEMMA SpeakerKnown ==
  ASSUME SpeakerInv
  PROVE  /\ audioFifo \in Seq(1..SpeakerFrames) /\ Len(audioFifo) \in Nat
         /\ Entries(audioFifo) \subseteq 1..SpeakerFrames
         /\ gathered \in Nat /\ taken \in Nat /\ frames \in Nat /\ opus \in Nat
         /\ SpeakerFrames \in Nat /\ Capacity \in Nat /\ Capacity > 0
<1>1. /\ audioFifo \in Seq(1..SpeakerFrames) /\ SpeakerFrames \in Nat
      /\ Capacity \in Nat /\ Capacity > 0
      /\ gathered \in Nat /\ taken \in Nat /\ frames \in Nat /\ opus \in Nat
  BY SizesAssumption DEF SpeakerInv, Speaker!TypeOK, Speaker!Frames
<1> QED BY <1>1, EntriesByPlace

\* Every step of either core, and every change of the setting, preserves it.
LEMMA SpeakerSteps == SpeakerInv /\ [Speaker!Next]_(Speaker!vars) => SpeakerInv'
<1> SUFFICES ASSUME SpeakerInv, [Speaker!Next]_(Speaker!vars) PROVE SpeakerInv'
  OBVIOUS
<1>k. /\ audioFifo \in Seq(1..SpeakerFrames) /\ Len(audioFifo) \in Nat
      /\ Entries(audioFifo) \subseteq 1..SpeakerFrames
      /\ gathered \in Nat /\ taken \in Nat /\ frames \in Nat /\ opus \in Nat
      /\ SpeakerFrames \in Nat /\ Capacity \in Nat /\ Capacity > 0
  BY SpeakerKnown
<1> USE DEF Speaker!Frames
<1>t. audioFifo # <<>> =>
         /\ Tail(audioFifo) \in Seq(1..SpeakerFrames)
         /\ Len(Tail(audioFifo)) = Len(audioFifo) - 1
         /\ Rising(Tail(audioFifo)) /\ Head(audioFifo) \in 1..SpeakerFrames
         /\ Head(audioFifo) \in Entries(audioFifo)
         /\ Entries(Tail(audioFifo)) = Entries(audioFifo) \ {Head(audioFifo)}
         /\ \A f \in Entries(Tail(audioFifo)) : Head(audioFifo) < f
  BY <1>k, TailOfQueue DEF SpeakerInv
<1>1. CASE Speaker!Gather
  <2>1. audioFull' \in BOOLEAN /\ (~audioFull' => Len(audioFifo) # Capacity)
    BY <1>1, Zenon DEF Speaker!Gather
  <2>2. /\ gathered = 0 /\ frames < SpeakerFrames
        /\ frames' = frames + 1 /\ gathered' = frames'
        /\ UNCHANGED <<enabled, audioFifo, taken, encoding, opus>>
    BY <1>1 DEF Speaker!Gather
  <2> QED BY <2>1, <2>2, <1>k DEF SpeakerInv, Speaker!TypeOK
<1>2. CASE Speaker!MakeRoom
  <2>1. audioFull' \in BOOLEAN
    BY <1>2, Zenon DEF Speaker!MakeRoom
  <2>2. /\ \/ audioFifo' = audioFifo /\ audioFifo = <<>>
           \/ audioFifo # <<>> /\ audioFifo' = Tail(audioFifo)
        /\ UNCHANGED <<enabled, gathered, taken, encoding, frames, opus>>
    BY <1>2 DEF Speaker!MakeRoom
  <2>3. CASE audioFifo = <<>>
    <3>1. Len(audioFifo) = 0
      BY <2>3, EmptySeq
    <3> QED BY <2>1, <2>2, <2>3, <3>1, <1>k DEF SpeakerInv, Speaker!TypeOK
  <2>4. CASE audioFifo # <<>>
    <3>1. /\ audioFifo' \in Seq(1..SpeakerFrames) /\ Rising(audioFifo')
          /\ Len(audioFifo') < Capacity
          /\ Entries(audioFifo') \subseteq Entries(audioFifo)
      <4>1. audioFifo' = Tail(audioFifo)
        BY <2>2, <2>4, Zenon
      <4>2. Len(audioFifo) <= Capacity
        BY DEF SpeakerInv, Speaker!TypeOK
      <4> QED BY <2>4, <4>1, <4>2, <1>k, <1>t
    <3> QED BY <2>1, <2>2, <3>1, <1>k DEF SpeakerInv, Speaker!TypeOK
  <2> QED BY <2>3, <2>4
<1>3. CASE Speaker!Add
  <2>1. Len(audioFifo) < Capacity /\ audioFifo' = Append(audioFifo, gathered)
    BY <1>3, <1>k DEF SpeakerInv, Speaker!Add
  <2>2. gathered \in 1..SpeakerFrames /\ \A f \in Entries(audioFifo) : f < gathered
    BY <1>3, <1>k DEF SpeakerInv, Speaker!TypeOK, Speaker!Add
  <2>3. /\ audioFifo' \in Seq(1..SpeakerFrames) /\ Len(audioFifo') = Len(audioFifo) + 1
        /\ Rising(audioFifo')
        /\ Entries(audioFifo') = Entries(audioFifo) \cup {gathered}
    BY <1>k, <2>1, <2>2, AppendToQueue DEF SpeakerInv
  <2> QED BY <1>3, <1>k, <2>1, <2>2, <2>3
             DEF SpeakerInv, Speaker!TypeOK, Speaker!Add
<1>4. CASE Speaker!Drain
  BY <1>4, <1>k, <1>t DEF SpeakerInv, Speaker!TypeOK, Speaker!Drain
<1>5. CASE Speaker!SetConfig
  BY <1>5, <1>k DEF SpeakerInv, Speaker!TypeOK, Speaker!SetConfig
<1>6. CASE Speaker!Take
  BY <1>6, <1>k, <1>t DEF SpeakerInv, Speaker!TypeOK, Speaker!Take
<1>7. CASE Speaker!Look
  <2>1. /\ encoding' \in BOOLEAN
        /\ taken' = taken \/ (taken' = 0 /\ ~encoding')
    <3>1. encoding \in BOOLEAN
      BY DEF SpeakerInv, Speaker!TypeOK
    <3>2. CASE enabled
      BY <1>7, <3>2 DEF Speaker!Look
    <3>3. CASE ~enabled
      BY <1>7, <3>1, <3>3, Zenon DEF Speaker!Look
    <3> QED BY <3>2, <3>3
  <2>2. /\ taken # 0
        /\ UNCHANGED <<enabled, audioFifo, gathered, audioFull, frames, opus>>
    BY <1>7 DEF Speaker!Look
  <2> QED BY <2>1, <2>2, <1>k DEF SpeakerInv, Speaker!TypeOK
<1>8. CASE Speaker!Encoded
  <2>1. encoding' \in BOOLEAN /\ ~encoding'
    BY <1>8, Zenon DEF Speaker!Encoded
  <2>2. /\ encoding /\ opus' = taken /\ taken' = 0
        /\ UNCHANGED <<enabled, audioFifo, gathered, audioFull, frames>>
    BY <1>8 DEF Speaker!Encoded
  <2> QED BY <2>1, <2>2, <1>k DEF SpeakerInv, Speaker!TypeOK
<1>9. CASE UNCHANGED Speaker!vars
  BY <1>9 DEF SpeakerInv, Speaker!TypeOK, Speaker!vars
<1> QED BY <1>1, <1>2, <1>3, <1>4, <1>5, <1>6, <1>7, <1>8, <1>9
        DEF Speaker!Next, Speaker!Core0, Speaker!Core1

\* The frames on their way, by the places that hold them
LEMMA SpeakerKeeps ==
  /\ Speaker!Kept = ({gathered, taken} \ {0}) \cup Entries(audioFifo)
  /\ Speaker!Kept' = ({gathered', taken'} \ {0}) \cup Entries(audioFifo')
BY Zenon DEF Speaker!Kept, Entries

\* They are never more than the places: two hands and a queue.
LEMMA SpeakerHasRoom ==
  ASSUME SpeakerInv
  PROVE  Cardinality(({gathered, taken} \ {0}) \cup Entries(audioFifo)) <= Capacity + 2
<1>1. Len(audioFifo) <= Capacity
  BY DEF SpeakerInv, Speaker!TypeOK
<1>2. IsFiniteSet(Entries(audioFifo)) /\ Cardinality(Entries(audioFifo)) <= Capacity
  BY <1>1, SpeakerKnown, EntriesAreFew
<1> QED BY <1>2, SpeakerKnown, HandsHoldTwo

\* The same as a state formula, for the state before and after a step
SpeakerFits ==
  Cardinality(({gathered, taken} \ {0}) \cup Entries(audioFifo)) <= Capacity + 2

\* SpeakerHasRoom, as an implication,
LEMMA SpeakerAlwaysFits == SpeakerInv => SpeakerFits
BY SpeakerHasRoom DEF SpeakerFits

\* which holds after the step too.
LEMMA SpeakerStillFits == SpeakerInv' => SpeakerFits'
BY SpeakerAlwaysFits, PTL

\* A frame that goes, other than the newest of an enabled speaker, is a loss.
LEMMA SpeakerLoses ==
  ASSUME NEW f \in Speaker!Kept, f # frames \/ ~enabled,
         Speaker!Kept' = Speaker!Kept \ {f}, UNCHANGED <<frames, opus, enabled>>
  PROVE  Speaker!LQ!Next
BY Zenon DEF Speaker!LQ!Next, Speaker!LQ!Lose

\* Every step of speaker_proc and audio_loop is a step of LossyQueue or none: a
\* frame that changes hands stutters, and one that is encoded is the oldest.
LEMMA SpeakerStepIsQueueStep ==
  ASSUME SpeakerInv, SpeakerInv', [Speaker!Next]_(Speaker!vars)
  PROVE  [Speaker!LQ!Next]_(Speaker!LQ!vars)
<1>k. /\ audioFifo \in Seq(1..SpeakerFrames) /\ Len(audioFifo) \in Nat
      /\ Entries(audioFifo) \subseteq 1..SpeakerFrames
      /\ gathered \in Nat /\ taken \in Nat /\ frames \in Nat /\ opus \in Nat
      /\ SpeakerFrames \in Nat /\ Capacity \in Nat /\ Capacity > 0
  BY SpeakerKnown
<1>t. audioFifo # <<>> =>
         /\ Head(audioFifo) \in Entries(audioFifo)
         /\ Entries(Tail(audioFifo)) = Entries(audioFifo) \ {Head(audioFifo)}
  BY <1>k, TailOfQueue DEF SpeakerInv
<1>i. /\ \A f \in Entries(audioFifo) : opus < f /\ taken < f /\ f <= frames
      /\ taken # 0 => opus < taken
      /\ gathered # 0 =>
           /\ gathered = frames /\ opus < gathered /\ taken < gathered
           /\ \A f \in Entries(audioFifo) : f < gathered
      /\ taken <= frames
  BY DEF SpeakerInv
<1> DEFINE stutters == UNCHANGED <<frames, Speaker!Kept, opus, enabled>>
<1>s. stutters => [Speaker!LQ!Next]_(Speaker!LQ!vars)
  BY Zenon DEF Speaker!LQ!vars
<1>h. ASSUME audioFifo # <<>>, audioFifo' = Tail(audioFifo), gathered # 0 \/ ~enabled,
             UNCHANGED <<gathered, taken, frames, opus, enabled>>
      PROVE  Speaker!LQ!Next
  <2>1. /\ Head(audioFifo) \in Speaker!Kept
        /\ Speaker!Kept' = Speaker!Kept \ {Head(audioFifo)}
    BY <1>k, <1>t, <1>i, <1>h, SpeakerKeeps
  <2>2. gathered # 0 => Head(audioFifo) # frames
    BY <1>k, <1>t, <1>i, <1>h
  <2> QED BY <1>h, <2>1, <2>2, SpeakerLoses, Zenon
<1>1. CASE Speaker!Gather
  <2>1. /\ enabled /\ frames < SpeakerFrames /\ frames' = frames + 1
        /\ UNCHANGED <<opus, enabled>>
    BY <1>1 DEF Speaker!Gather
  <2>2. Speaker!Kept' = Speaker!Kept \cup {frames'}
    BY <1>1, <1>k, SpeakerKeeps DEF Speaker!Gather
  <2>3. Speaker!LQ!Cardinality(Speaker!Kept') <= Capacity + 2
    <3>1. Cardinality(Speaker!Kept') <= Capacity + 2
      BY SpeakerStillFits, SpeakerKeeps DEF SpeakerFits
    <3> QED BY <3>1, SameCardinality, Zenon
  <2> QED BY <2>1, <2>2, <2>3 DEF Speaker!LQ!Next, Speaker!LQ!Put
<1>2. CASE Speaker!MakeRoom
  <2>1. CASE audioFifo = <<>>
    <3>1. UNCHANGED <<audioFifo, gathered, taken, frames, opus, enabled>>
      BY <1>2, <2>1 DEF Speaker!MakeRoom
    <3> QED BY <1>s, <3>1, SpeakerKeeps
  <2>2. CASE audioFifo # <<>>
    BY <1>2, <1>h, <2>2 DEF Speaker!MakeRoom
  <2> QED BY <2>1, <2>2
<1>3. CASE Speaker!Add
  <2>1. Len(audioFifo) < Capacity /\ audioFifo' = Append(audioFifo, gathered)
    BY <1>3, <1>k DEF SpeakerInv, Speaker!Add
  <2>2. gathered \in 1..SpeakerFrames /\ \A f \in Entries(audioFifo) : f < gathered
    BY <1>3, <1>k DEF SpeakerInv, Speaker!TypeOK, Speaker!Add
  <2>3. Entries(audioFifo') = Entries(audioFifo) \cup {gathered}
    BY <1>k, <2>1, <2>2, AppendToQueue DEF SpeakerInv
  <2>4. /\ gathered' = 0 /\ gathered # 0
        /\ UNCHANGED <<taken, frames, opus, enabled>>
    BY <1>3 DEF Speaker!Add
  <2>5. Speaker!Kept' = Speaker!Kept
    BY <2>3, <2>4, SpeakerKeeps
  <2> QED BY <1>s, <2>4, <2>5
<1>4. CASE Speaker!Drain
  BY <1>4, <1>h DEF Speaker!Drain
<1>5. CASE Speaker!SetConfig
  <2>1. UNCHANGED <<audioFifo, gathered, taken, frames, opus>> /\ enabled' = ~enabled
    BY <1>5, Zenon DEF Speaker!SetConfig
  <2>2. Speaker!Kept' = Speaker!Kept
    BY <2>1, SpeakerKeeps
  <2> QED BY <2>1, <2>2, Zenon DEF Speaker!LQ!Next, Speaker!LQ!OpenOrClose
<1>6. CASE Speaker!Take
  <2>1. /\ taken = 0 /\ audioFifo # <<>> /\ taken' = Head(audioFifo)
        /\ audioFifo' = Tail(audioFifo)
        /\ UNCHANGED <<gathered, frames, opus, enabled>>
    BY <1>6 DEF Speaker!Take
  <2>2. Speaker!Kept' = Speaker!Kept
    BY <1>k, <1>t, <2>1, SpeakerKeeps
  <2> QED BY <1>s, <2>1, <2>2
<1>7. CASE Speaker!Look
  <2>1. /\ taken # 0
        /\ UNCHANGED <<audioFifo, gathered, frames, opus, enabled>>
    BY <1>7 DEF Speaker!Look
  <2>2. CASE enabled
    <3>1. taken' = taken
      BY <1>7, <2>2 DEF Speaker!Look
    <3> QED BY <1>s, <2>1, <3>1, SpeakerKeeps
  <2>3. CASE ~enabled
    <3>1. taken' = 0
      BY <1>7, <2>3 DEF Speaker!Look
    <3>2. taken \in Speaker!Kept /\ Speaker!Kept' = Speaker!Kept \ {taken}
      BY <1>k, <1>i, <2>1, <3>1, SpeakerKeeps
    <3> QED BY <2>1, <2>3, <3>2, SpeakerLoses, Zenon
  <2> QED BY <2>2, <2>3
<1>8. CASE Speaker!Encoded
  <2>1. /\ encoding /\ opus' = taken /\ taken' = 0
        /\ UNCHANGED <<audioFifo, gathered, frames, enabled>>
    BY <1>8 DEF Speaker!Encoded
  <2>2. taken # 0
    BY <2>1 DEF SpeakerInv
  <2>3. /\ taken \in Speaker!Kept /\ Speaker!Kept' = Speaker!Kept \ {taken}
        /\ \A g \in Speaker!Kept : taken <= g
    BY <1>k, <1>i, <2>1, <2>2, SpeakerKeeps
  <2> QED BY <2>1, <2>3, Zenon DEF Speaker!LQ!Next, Speaker!LQ!Deliver
<1>9. CASE UNCHANGED Speaker!vars
  <2>1. UNCHANGED <<audioFifo, gathered, taken, frames, opus, enabled>>
    BY <1>9 DEF Speaker!vars
  <2> QED BY <1>s, <2>1, SpeakerKeeps
<1> QED BY <1>1, <1>2, <1>3, <1>4, <1>5, <1>6, <1>7, <1>8, <1>9
        DEF Speaker!Next, Speaker!Core0, Speaker!Core1
\* SpeakerInv holds in every state of the path.
LEMMA SpeakerInvariance == Speaker!Spec => []SpeakerInv
BY SpeakerStarts, SpeakerSteps, PTL DEF Speaker!Spec

\* The queue from audio_loop to speaker_proc never holds more than queue_init gave
\* it, in whatever order the cores add, drain and take.
THEOREM SpeakerTypeCorrect == Speaker!Spec => []Speaker!TypeOK
<1>1. SpeakerInv => Speaker!TypeOK
  BY DEF SpeakerInv
<1> QED BY <1>1, SpeakerInvariance, PTL

\* An idle path is an empty LossyQueue.
LEMMA SpeakerStartsAsQueue == Speaker!Init => Speaker!LQ!Init
<1> SUFFICES ASSUME Speaker!Init PROVE Speaker!LQ!Init
  OBVIOUS
<1>1. /\ audioFifo = <<>> /\ gathered = 0 /\ taken = 0 /\ frames = 0 /\ opus = 0
      /\ enabled \in BOOLEAN
  BY Zenon DEF Speaker!Init
<1>2. Speaker!Kept = {}
  BY <1>1, NoEntries, SpeakerKeeps
<1> QED BY <1>1, <1>2, Zenon DEF Speaker!LQ!Init

\* The speaker's path implements the safety half of LossyQueue: no frame is
\* encoded twice or after a newer one, and the newest of an enabled speaker is
\* never the one that is dropped (audio_loop and speaker_proc of audio.cpp).
THEOREM SpeakerLosesAndKeepsOrder ==
  Speaker!Spec => Speaker!LQ!Init /\ [][Speaker!LQ!Next]_(Speaker!LQ!vars)
BY SpeakerInvariance, SpeakerStartsAsQueue, SpeakerStepIsQueueStep, PTL
   DEF Speaker!Spec

-----------------------------------------------------------------------------
(* The microphone                                                          *)

\* The same order along the microphone's path: played, decoded and queued, held by
\* core 1, queued, held by core 0.  Both cores may trust that a queue they found
\* not to be full has a place still: each is the only one that adds to its queue.
MicInv ==
  /\ Mic!TypeOK
  /\ Rising(fifo) /\ Rising(decodeFifo)
  /\ delivered <= made /\ hand1 <= made
  /\ \A f \in Entries(decodeFifo) : delivered < f /\ f <= made
  /\ \A g \in Entries(fifo) : delivered < g /\ hand1 < g /\ g <= made
  /\ \A f \in Entries(decodeFifo), g \in Entries(fifo) : f < g
  /\ hand1 # 0 => delivered < hand1 /\ \A f \in Entries(decodeFifo) : f < hand1
  /\ hand0 # 0 =>
       /\ hand0 = made /\ delivered < hand0 /\ hand1 < hand0
       /\ \A f \in Entries(decodeFifo) \cup Entries(fifo) : f < hand0
       /\ ~full0 => Len(fifo) < Capacity
  /\ decoded => hand1 # 0 /\ (~full1 => Len(decodeFifo) < Capacity)

\* It holds in the beginning,
LEMMA MicStarts == Mic!Init => MicInv
<1> SUFFICES ASSUME Mic!Init PROVE MicInv
  OBVIOUS
<1>1. /\ fifo = <<>> /\ decodeFifo = <<>>
      /\ hand0 = 0 /\ hand1 = 0 /\ made = 0 /\ delivered = 0
      /\ ~decoded /\ decoded \in BOOLEAN /\ active \in BOOLEAN
      /\ full0 \in BOOLEAN /\ full1 \in BOOLEAN
  BY Zenon DEF Mic!Init
<1>2. Mic!TypeOK
  BY <1>1, SizesAssumption, EmptySeq DEF Mic!TypeOK, Mic!Frames
<1> QED BY <1>1, <1>2, NoEntries DEF MicInv

\* what the lemmas below use of it,
LEMMA MicKnown ==
  ASSUME MicInv
  PROVE  /\ fifo \in Seq(1..MicFrames) /\ Len(fifo) \in Nat
         /\ decodeFifo \in Seq(1..MicFrames) /\ Len(decodeFifo) \in Nat
         /\ Len(fifo) <= Capacity /\ Len(decodeFifo) <= Capacity
         /\ Entries(fifo) \subseteq 1..MicFrames
         /\ Entries(decodeFifo) \subseteq 1..MicFrames
         /\ hand0 \in Nat /\ hand1 \in Nat /\ made \in Nat /\ delivered \in Nat
         /\ MicFrames \in Nat /\ Capacity \in Nat /\ Capacity > 0
<1>1. /\ fifo \in Seq(1..MicFrames) /\ decodeFifo \in Seq(1..MicFrames)
      /\ MicFrames \in Nat
      /\ Len(fifo) <= Capacity /\ Len(decodeFifo) <= Capacity
      /\ Capacity \in Nat /\ Capacity > 0
      /\ hand0 \in Nat /\ hand1 \in Nat /\ made \in Nat /\ delivered \in Nat
  BY SizesAssumption DEF MicInv, Mic!TypeOK, Mic!Frames
<1> QED BY <1>1, EntriesByPlace

\* Every step of either core, and every change of the interface, preserves it.
LEMMA MicSteps == MicInv /\ [Mic!Next]_(Mic!vars) => MicInv'
<1> SUFFICES ASSUME MicInv, [Mic!Next]_(Mic!vars) PROVE MicInv'
  OBVIOUS
<1>k. /\ fifo \in Seq(1..MicFrames) /\ Len(fifo) \in Nat
      /\ decodeFifo \in Seq(1..MicFrames) /\ Len(decodeFifo) \in Nat
      /\ Len(fifo) <= Capacity /\ Len(decodeFifo) <= Capacity
      /\ Entries(fifo) \subseteq 1..MicFrames
      /\ Entries(decodeFifo) \subseteq 1..MicFrames
      /\ hand0 \in Nat /\ hand1 \in Nat /\ made \in Nat /\ delivered \in Nat
      /\ MicFrames \in Nat /\ Capacity \in Nat /\ Capacity > 0
  BY MicKnown
<1> USE DEF Mic!Frames
<1>t. fifo # <<>> =>
         /\ Tail(fifo) \in Seq(1..MicFrames) /\ Len(Tail(fifo)) = Len(fifo) - 1
         /\ Rising(Tail(fifo)) /\ Head(fifo) \in 1..MicFrames
         /\ Head(fifo) \in Entries(fifo)
         /\ Entries(Tail(fifo)) = Entries(fifo) \ {Head(fifo)}
         /\ \A f \in Entries(Tail(fifo)) : Head(fifo) < f
  BY <1>k, TailOfQueue DEF MicInv
<1>u. decodeFifo # <<>> =>
         /\ Tail(decodeFifo) \in Seq(1..MicFrames)
         /\ Len(Tail(decodeFifo)) = Len(decodeFifo) - 1
         /\ Rising(Tail(decodeFifo)) /\ Head(decodeFifo) \in 1..MicFrames
         /\ Head(decodeFifo) \in Entries(decodeFifo)
         /\ Entries(Tail(decodeFifo)) = Entries(decodeFifo) \ {Head(decodeFifo)}
         /\ \A f \in Entries(Tail(decodeFifo)) : Head(decodeFifo) < f
  BY <1>k, TailOfQueue DEF MicInv
<1>1. CASE Mic!Arrive
  <2>1. full0' \in BOOLEAN /\ (~full0' => Len(fifo) # Capacity)
    BY <1>1, Zenon DEF Mic!Arrive
  <2>2. /\ hand0 = 0 /\ made < MicFrames /\ made' = made + 1 /\ hand0' = made'
        /\ UNCHANGED <<active, fifo, decodeFifo, hand1, full1, decoded, delivered>>
    BY <1>1 DEF Mic!Arrive
  <2> QED BY <2>1, <2>2, <1>k DEF MicInv, Mic!TypeOK
<1>2. CASE Mic!MakeRoom0
  <2>1. full0' \in BOOLEAN
    BY <1>2, Zenon DEF Mic!MakeRoom0
  <2>2. /\ fifo' = Mic!DropOldest(fifo)
        /\ UNCHANGED <<active, decodeFifo, hand0, hand1, full1, decoded, made,
                       delivered>>
    BY <1>2 DEF Mic!MakeRoom0
  <2>3. /\ fifo' \in Seq(1..MicFrames) /\ Rising(fifo')
        /\ Len(fifo') \in Nat /\ Len(fifo') < Capacity
        /\ Entries(fifo') \subseteq Entries(fifo)
    BY <2>2, <1>k, RoomIsMade DEF MicInv
  <2> QED BY <2>1, <2>2, <2>3, <1>k DEF MicInv, Mic!TypeOK
<1>3. CASE Mic!Add0
  <2>1. Len(fifo) < Capacity /\ fifo' = Append(fifo, hand0)
    BY <1>3, <1>k DEF MicInv, Mic!Add0, Mic!TryAdd
  <2>2. hand0 \in 1..MicFrames /\ \A f \in Entries(fifo) : f < hand0
    BY <1>3, <1>k DEF MicInv, Mic!TypeOK, Mic!Add0
  <2>3. /\ fifo' \in Seq(1..MicFrames) /\ Len(fifo') = Len(fifo) + 1
        /\ Rising(fifo') /\ Entries(fifo') = Entries(fifo) \cup {hand0}
    BY <1>k, <2>1, <2>2, AppendToQueue DEF MicInv
  <2>4. /\ hand0 # 0 /\ hand0' = 0
        /\ UNCHANGED <<active, decodeFifo, full0, hand1, full1, decoded, made,
                       delivered>>
    BY <1>3 DEF Mic!Add0
  <2> QED BY <1>k, <2>1, <2>2, <2>3, <2>4 DEF MicInv, Mic!TypeOK
<1>4. CASE Mic!Play
  BY <1>4, <1>k, <1>u DEF MicInv, Mic!TypeOK, Mic!Play
<1>5. CASE Mic!SetMicActive
  BY <1>5, <1>k DEF MicInv, Mic!TypeOK, Mic!SetMicActive
<1>6. CASE Mic!Take
  <2>1. decoded' \in BOOLEAN /\ ~decoded'
    BY <1>6, Zenon DEF Mic!Take
  <2>2. /\ hand1 = 0 /\ fifo # <<>> /\ hand1' = Head(fifo) /\ fifo' = Tail(fifo)
        /\ UNCHANGED <<active, decodeFifo, hand0, full0, full1, made, delivered>>
    BY <1>6 DEF Mic!Take
  <2> QED BY <2>1, <2>2, <1>k, <1>t DEF MicInv, Mic!TypeOK
<1>7. CASE Mic!Decode
  <2>1. /\ hand1 # 0
        /\ UNCHANGED <<active, fifo, decodeFifo, hand0, full0, made, delivered>>
    BY <1>7 DEF Mic!Decode
  <2>2. CASE active
    <3>1. full1' \in BOOLEAN /\ (~full1' => Len(decodeFifo) # Capacity)
      BY <1>7, <2>2, Zenon DEF Mic!Decode
    <3>2. decoded' \in BOOLEAN /\ hand1' = hand1
      BY <1>7, <2>2 DEF Mic!Decode
    <3> QED BY <2>1, <3>1, <3>2, <1>k DEF MicInv, Mic!TypeOK
  <2>3. CASE ~active
    <3>1. ~decoded /\ hand1' = 0 /\ UNCHANGED <<decoded, full1>>
      BY <1>7, <2>3 DEF Mic!Decode
    <3> QED BY <2>1, <3>1, <1>k DEF MicInv, Mic!TypeOK
  <2> QED BY <2>2, <2>3
<1>8. CASE Mic!MakeRoom1
  <2>1. full1' \in BOOLEAN
    BY <1>8, Zenon DEF Mic!MakeRoom1
  <2>2. /\ decodeFifo' = Mic!DropOldest(decodeFifo)
        /\ UNCHANGED <<active, fifo, hand0, full0, hand1, decoded, made, delivered>>
    BY <1>8 DEF Mic!MakeRoom1
  <2>3. /\ decodeFifo' \in Seq(1..MicFrames) /\ Rising(decodeFifo')
        /\ Len(decodeFifo') \in Nat /\ Len(decodeFifo') < Capacity
        /\ Entries(decodeFifo') \subseteq Entries(decodeFifo)
    BY <2>2, <1>k, RoomIsMade DEF MicInv
  <2> QED BY <2>1, <2>2, <2>3, <1>k DEF MicInv, Mic!TypeOK
<1>9. CASE Mic!Add1
  <2>1. Len(decodeFifo) < Capacity /\ decodeFifo' = Append(decodeFifo, hand1)
    BY <1>9, <1>k DEF MicInv, Mic!Add1, Mic!TryAdd
  <2>2. hand1 \in 1..MicFrames /\ \A f \in Entries(decodeFifo) : f < hand1
    BY <1>9, <1>k DEF MicInv, Mic!TypeOK, Mic!Add1
  <2>3. /\ decodeFifo' \in Seq(1..MicFrames)
        /\ Len(decodeFifo') = Len(decodeFifo) + 1
        /\ Rising(decodeFifo')
        /\ Entries(decodeFifo') = Entries(decodeFifo) \cup {hand1}
    BY <1>k, <2>1, <2>2, AppendToQueue DEF MicInv
  <2>4. decoded' \in BOOLEAN /\ ~decoded'
    BY <1>9, Zenon DEF Mic!Add1
  <2>5. /\ hand1' = 0 /\ UNCHANGED <<active, fifo, hand0, full0, full1, made, delivered>>
    BY <1>9 DEF Mic!Add1
  <2> QED BY <1>k, <2>1, <2>2, <2>3, <2>4, <2>5 DEF MicInv, Mic!TypeOK
<1>10. CASE UNCHANGED Mic!vars
  BY <1>10 DEF MicInv, Mic!TypeOK, Mic!vars
<1> QED BY <1>1, <1>2, <1>3, <1>4, <1>5, <1>6, <1>7, <1>8, <1>9, <1>10
        DEF Mic!Next, Mic!Core0, Mic!Core1

\* The frames on their way, by the places that hold them
LEMMA MicKeeps ==
  /\ Mic!Kept = ({hand0, hand1} \ {0}) \cup Entries(fifo) \cup Entries(decodeFifo)
  /\ Mic!Kept' = ({hand0', hand1'} \ {0}) \cup Entries(fifo') \cup Entries(decodeFifo')
BY Zenon DEF Mic!Kept, Entries

\* They are never more than the places: two hands and two queues.
MicFits ==
  Cardinality(({hand0, hand1} \ {0}) \cup (Entries(fifo) \cup Entries(decodeFifo)))
    <= 2 * Capacity + 2

\* The queues hold no more than their places together,
LEMMA BothQueuesAreFew ==
  ASSUME MicInv
  PROVE  /\ IsFiniteSet(Entries(fifo) \cup Entries(decodeFifo))
         /\ Cardinality(Entries(fifo) \cup Entries(decodeFifo)) <= 2 * Capacity
<1>k. /\ fifo \in Seq(1..MicFrames) /\ Len(fifo) \in Nat
      /\ decodeFifo \in Seq(1..MicFrames) /\ Len(decodeFifo) \in Nat
      /\ Len(fifo) <= Capacity /\ Len(decodeFifo) <= Capacity
      /\ MicFrames \in Nat /\ Capacity \in Nat
  BY MicKnown
<1>1. /\ IsFiniteSet(Entries(fifo)) /\ Cardinality(Entries(fifo)) \in Nat
      /\ Cardinality(Entries(fifo)) <= Capacity
  BY <1>k, EntriesAreFew
<1>2. /\ IsFiniteSet(Entries(decodeFifo)) /\ Cardinality(Entries(decodeFifo)) \in Nat
      /\ Cardinality(Entries(decodeFifo)) <= Capacity
  BY <1>k, EntriesAreFew
<1>3. /\ IsFiniteSet(Entries(fifo) \cap Entries(decodeFifo))
  BY <1>1, FS_Intersection
<1>4. Cardinality(Entries(fifo) \cap Entries(decodeFifo)) \in Nat
  BY <1>3, FS_CardinalityType
<1>5. /\ IsFiniteSet(Entries(fifo) \cup Entries(decodeFifo))
      /\ Cardinality(Entries(fifo) \cup Entries(decodeFifo)) =
           Cardinality(Entries(fifo)) + Cardinality(Entries(decodeFifo))
             - Cardinality(Entries(fifo) \cap Entries(decodeFifo))
  BY <1>1, <1>2, FS_Union
<1> QED BY <1>k, <1>1, <1>2, <1>4, <1>5

\* so that the path has room,
LEMMA MicAlwaysFits == MicInv => MicFits
<1> SUFFICES ASSUME MicInv PROVE MicFits
  OBVIOUS
<1>1. /\ IsFiniteSet(Entries(fifo) \cup Entries(decodeFifo))
      /\ Cardinality(Entries(fifo) \cup Entries(decodeFifo)) <= 2 * Capacity
      /\ 2 * Capacity \in Nat
  BY BothQueuesAreFew, SizesAssumption
<1> QED BY <1>1, HandsHoldTwo DEF MicFits

\* and has it after a step too.
LEMMA MicStillFits == MicInv' => MicFits'
BY MicAlwaysFits, PTL

\* A frame that goes, other than the newest of an open path, is a loss.
LEMMA MicLoses ==
  ASSUME NEW f \in Mic!Kept, f # made \/ ~active, Mic!Kept' = Mic!Kept \ {f},
         UNCHANGED <<made, delivered, active>>
  PROVE  Mic!LQ!Next
BY Zenon DEF Mic!LQ!Next, Mic!LQ!Lose

\* Every step of mic_add_queue, mic_proc and the USB side is a step of LossyQueue
\* or none: an entry that is dropped to make room is a loss, never of the newest,
\* since another frame is in the hand of whoever drops it.
LEMMA MicStepIsQueueStep ==
  ASSUME MicInv, MicInv', [Mic!Next]_(Mic!vars)
  PROVE  [Mic!LQ!Next]_(Mic!LQ!vars)
<1>k. /\ fifo \in Seq(1..MicFrames) /\ Len(fifo) \in Nat
      /\ decodeFifo \in Seq(1..MicFrames) /\ Len(decodeFifo) \in Nat
      /\ Len(fifo) <= Capacity /\ Len(decodeFifo) <= Capacity
      /\ Entries(fifo) \subseteq 1..MicFrames
      /\ Entries(decodeFifo) \subseteq 1..MicFrames
      /\ hand0 \in Nat /\ hand1 \in Nat /\ made \in Nat /\ delivered \in Nat
      /\ MicFrames \in Nat /\ Capacity \in Nat /\ Capacity > 0
  BY MicKnown
<1>t. fifo # <<>> =>
         /\ Head(fifo) \in Entries(fifo)
         /\ Entries(Tail(fifo)) = Entries(fifo) \ {Head(fifo)}
  BY <1>k, TailOfQueue DEF MicInv
<1>u. decodeFifo # <<>> =>
         /\ Head(decodeFifo) \in Entries(decodeFifo)
         /\ Entries(Tail(decodeFifo)) = Entries(decodeFifo) \ {Head(decodeFifo)}
         /\ \A f \in Entries(Tail(decodeFifo)) : Head(decodeFifo) < f
  BY <1>k, TailOfQueue DEF MicInv
<1>i. /\ \A f \in Entries(decodeFifo) : delivered < f /\ f <= made
      /\ \A g \in Entries(fifo) : delivered < g /\ hand1 < g /\ g <= made
      /\ \A f \in Entries(decodeFifo), g \in Entries(fifo) : f < g
      /\ hand1 # 0 => delivered < hand1 /\ \A f \in Entries(decodeFifo) : f < hand1
      /\ hand0 # 0 =>
           /\ hand0 = made /\ delivered < hand0 /\ hand1 < hand0
           /\ \A f \in Entries(decodeFifo) \cup Entries(fifo) : f < hand0
  BY DEF MicInv
<1> DEFINE stutters == UNCHANGED <<made, Mic!Kept, delivered, active>>
<1>s. stutters => [Mic!LQ!Next]_(Mic!LQ!vars)
  BY Zenon DEF Mic!LQ!vars
<1>1. CASE Mic!Arrive
  <2>1. /\ active /\ made < MicFrames /\ made' = made + 1
        /\ UNCHANGED <<delivered, active>>
    BY <1>1 DEF Mic!Arrive
  <2>2. Mic!Kept' = Mic!Kept \cup {made'}
    BY <1>1, <1>k, MicKeeps DEF Mic!Arrive
  <2>3. Mic!LQ!Cardinality(Mic!Kept') <= 2 * Capacity + 2
    <3>1. Cardinality(Mic!Kept') <= 2 * Capacity + 2
      <4>1. Mic!Kept' = ({hand0', hand1'} \ {0})
                           \cup (Entries(fifo') \cup Entries(decodeFifo'))
        BY MicKeeps, Zenon
      <4> QED BY <4>1, MicStillFits DEF MicFits
    <3> QED BY <3>1, SameCardinality, Zenon
  <2> QED BY <2>1, <2>2, <2>3 DEF Mic!LQ!Next, Mic!LQ!Put
<1>2. CASE Mic!MakeRoom0
  <2>1. /\ hand0 # 0
        /\ UNCHANGED <<decodeFifo, hand0, hand1, made, delivered, active>>
    BY <1>2 DEF Mic!MakeRoom0
  <2>2. CASE fifo = <<>>
    <3>1. fifo' = fifo
      BY <1>2, <2>2 DEF Mic!MakeRoom0, Mic!DropOldest
    <3> QED BY <1>s, <2>1, <3>1, MicKeeps
  <2>3. CASE fifo # <<>>
    <3>1. fifo' = Tail(fifo)
      BY <1>2, <2>3 DEF Mic!MakeRoom0, Mic!DropOldest
    <3>2. /\ Head(fifo) \in Mic!Kept /\ Head(fifo) # made
          /\ Mic!Kept' = Mic!Kept \ {Head(fifo)}
      BY <1>k, <1>t, <1>i, <2>1, <2>3, <3>1, MicKeeps
    <3> QED BY <2>1, <3>2, MicLoses, Zenon
  <2> QED BY <2>2, <2>3
<1>3. CASE Mic!Add0
  <2>1. Len(fifo) < Capacity /\ fifo' = Append(fifo, hand0)
    BY <1>3, <1>k DEF MicInv, Mic!Add0, Mic!TryAdd
  <2>2. hand0 \in 1..MicFrames /\ \A f \in Entries(fifo) : f < hand0
    BY <1>3, <1>k DEF MicInv, Mic!TypeOK, Mic!Add0
  <2>3. Entries(fifo') = Entries(fifo) \cup {hand0}
    <3>1. Rising(fifo)
      BY DEF MicInv
    <3>2. Entries(Append(fifo, hand0)) = Entries(fifo) \cup {hand0}
      <4>1. MicFrames \in Nat /\ fifo \in Seq(1..MicFrames)
        BY <1>k
      <4> QED BY <2>2, <3>1, <4>1, AppendToQueue, Zenon
    <3> QED BY <2>1, <3>2, Zenon
  <2>4. /\ hand0 # 0 /\ hand0' = 0
        /\ UNCHANGED <<decodeFifo, hand1, made, delivered, active>>
    BY <1>3 DEF Mic!Add0
  <2>5. Mic!Kept' = Mic!Kept
    BY <2>3, <2>4, MicKeeps
  <2> QED BY <1>s, <2>4, <2>5
<1>4. CASE Mic!Play
  <2>1. /\ hand0 = 0 /\ decodeFifo # <<>> /\ decodeFifo' = Tail(decodeFifo)
        /\ delivered' = IF active THEN Head(decodeFifo) ELSE delivered
        /\ UNCHANGED <<fifo, hand0, hand1, made, active>>
    BY <1>4 DEF Mic!Play
  <2>2. /\ Head(decodeFifo) \in Mic!Kept
        /\ Mic!Kept' = Mic!Kept \ {Head(decodeFifo)}
    BY <1>k, <1>u, <1>i, <2>1, MicKeeps
  <2>3. CASE active
    <3>1. \A g \in Mic!Kept : Head(decodeFifo) <= g
      BY <1>k, <1>u, <1>i, <2>1, MicKeeps
    <3> QED BY <2>1, <2>2, <2>3, <3>1, Zenon DEF Mic!LQ!Next, Mic!LQ!Deliver
  <2>4. CASE ~active
    BY <2>1, <2>2, <2>4, MicLoses, Zenon
  <2> QED BY <2>3, <2>4
<1>5. CASE Mic!SetMicActive
  <2>1. UNCHANGED <<fifo, decodeFifo, hand0, hand1, made, delivered>> /\ active' = ~active
    BY <1>5, Zenon DEF Mic!SetMicActive
  <2>2. Mic!Kept' = Mic!Kept
    BY <2>1, MicKeeps
  <2> QED BY <2>1, <2>2, Zenon DEF Mic!LQ!Next, Mic!LQ!OpenOrClose
<1>6. CASE Mic!Take
  <2>1. /\ hand1 = 0 /\ fifo # <<>> /\ hand1' = Head(fifo) /\ fifo' = Tail(fifo)
        /\ UNCHANGED <<decodeFifo, hand0, made, delivered, active>>
    BY <1>6 DEF Mic!Take
  <2>2. Mic!Kept' = Mic!Kept
    BY <1>k, <1>t, <2>1, MicKeeps
  <2> QED BY <1>s, <2>1, <2>2
<1>7. CASE Mic!Decode
  <2>1. hand1 # 0 /\ UNCHANGED <<fifo, decodeFifo, hand0, made, delivered, active>>
    BY <1>7 DEF Mic!Decode
  <2>2. CASE active
    <3>1. hand1' = hand1
      BY <1>7, <2>2 DEF Mic!Decode
    <3> QED BY <1>s, <2>1, <3>1, MicKeeps
  <2>3. CASE ~active
    <3>1. hand1' = 0
      BY <1>7, <2>3 DEF Mic!Decode
    <3>2. hand1 \in Mic!Kept /\ Mic!Kept' = Mic!Kept \ {hand1}
      BY <1>k, <1>i, <2>1, <3>1, MicKeeps
    <3> QED BY <2>1, <2>3, <3>2, MicLoses, Zenon
  <2> QED BY <2>2, <2>3
<1>8. CASE Mic!MakeRoom1
  <2>1. /\ hand1 # 0
        /\ UNCHANGED <<fifo, hand0, hand1, made, delivered, active>>
    BY <1>8 DEF MicInv, Mic!MakeRoom1
  <2>2. CASE decodeFifo = <<>>
    <3>1. decodeFifo' = decodeFifo
      BY <1>8, <2>2 DEF Mic!MakeRoom1, Mic!DropOldest
    <3> QED BY <1>s, <2>1, <3>1, MicKeeps
  <2>3. CASE decodeFifo # <<>>
    <3>1. decodeFifo' = Tail(decodeFifo)
      BY <1>8, <2>3 DEF Mic!MakeRoom1, Mic!DropOldest
    <3>2. hand1 <= made
      BY DEF MicInv
    <3>3. /\ Head(decodeFifo) \in Mic!Kept /\ Head(decodeFifo) # made
          /\ Mic!Kept' = Mic!Kept \ {Head(decodeFifo)}
      BY <1>k, <1>u, <1>i, <2>1, <2>3, <3>1, <3>2, MicKeeps
    <3> QED BY <2>1, <3>3, MicLoses, Zenon
  <2> QED BY <2>2, <2>3
<1>9. CASE Mic!Add1
  <2>1. Len(decodeFifo) < Capacity /\ decodeFifo' = Append(decodeFifo, hand1)
    BY <1>9, <1>k DEF MicInv, Mic!Add1, Mic!TryAdd
  <2>2. hand1 \in 1..MicFrames /\ \A f \in Entries(decodeFifo) : f < hand1
    BY <1>9, <1>k DEF MicInv, Mic!TypeOK, Mic!Add1
  <2>3. Entries(decodeFifo') = Entries(decodeFifo) \cup {hand1}
    <3>1. Rising(decodeFifo)
      BY DEF MicInv
    <3>2. Entries(Append(decodeFifo, hand1)) = Entries(decodeFifo) \cup {hand1}
      <4>1. MicFrames \in Nat /\ decodeFifo \in Seq(1..MicFrames)
        BY <1>k
      <4> QED BY <2>2, <3>1, <4>1, AppendToQueue, Zenon
    <3> QED BY <2>1, <3>2, Zenon
  <2>4. hand1' = 0 /\ UNCHANGED <<fifo, hand0, made, delivered, active>>
    BY <1>9 DEF Mic!Add1
  <2>5. Mic!Kept' = Mic!Kept
    BY <1>k, <2>2, <2>3, <2>4, MicKeeps
  <2> QED BY <1>s, <2>4, <2>5
<1>10. CASE UNCHANGED Mic!vars
  <2>1. UNCHANGED <<fifo, decodeFifo, hand0, hand1, made, delivered, active>>
    BY <1>10 DEF Mic!vars
  <2> QED BY <1>s, <2>1, MicKeeps
<1> QED BY <1>1, <1>2, <1>3, <1>4, <1>5, <1>6, <1>7, <1>8, <1>9, <1>10
        DEF Mic!Next, Mic!Core0, Mic!Core1

\* MicInv holds in every state of the path.
LEMMA MicInvariance == Mic!Spec => []MicInv
BY MicStarts, MicSteps, PTL DEF Mic!Spec

\* Neither queue of the microphone holds more than queue_init gave it.
THEOREM MicTypeCorrect == Mic!Spec => []Mic!TypeOK
<1>1. MicInv => Mic!TypeOK
  BY DEF MicInv
<1> QED BY <1>1, MicInvariance, PTL

\* An idle path is an empty LossyQueue.
LEMMA MicStartsAsQueue == Mic!Init => Mic!LQ!Init
<1> SUFFICES ASSUME Mic!Init PROVE Mic!LQ!Init
  OBVIOUS
<1>1. /\ fifo = <<>> /\ decodeFifo = <<>>
      /\ hand0 = 0 /\ hand1 = 0 /\ made = 0 /\ delivered = 0
      /\ active \in BOOLEAN
  BY Zenon DEF Mic!Init
<1>2. Mic!Kept = {}
  BY <1>1, NoEntries, MicKeeps
<1> QED BY <1>1, <1>2, Zenon DEF Mic!LQ!Init

\* The microphone's path implements the safety half of LossyQueue: through two
\* queues and two cores no frame is played twice or after a newer one, and while
\* the interface is open the newest is never the one that is dropped
\* (mic_add_queue, mic_proc and audio_loop of audio.cpp).
THEOREM MicLosesAndKeepsOrder ==
  Mic!Spec => Mic!LQ!Init /\ [][Mic!LQ!Next]_(Mic!LQ!vars)
BY MicInvariance, MicStartsAsQueue, MicStepIsQueueStep, PTL DEF Mic!Spec
=============================================================================
