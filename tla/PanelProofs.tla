---------------------------- MODULE PanelProofs -----------------------------
(***************************************************************************)
(* What the BOOTSEL button does to the bridge, for every time and bound    *)
(* and for every set of bodies the host may send.                          *)
(*                                                                         *)
(* Gestures.  GestureInv says for each state of button_fsm what the        *)
(* samples of the gesture end in and how many presses they hold: pressing  *)
(* for pressSamples samples, released for waitSamples + 1 of them, down    *)
(* for a whole hold; and idle after a gesture that is over.  With what one *)
(* more sample adds to a sequence (AppendPressed, AppendReleased), each    *)
(* case of button_check keeps it.  Its last part counts: every press read  *)
(* is a touch of the finger or follows a read that failed.  PanelInv, with *)
(* the types of settings and flash, holds in every state; it gives the     *)
(* action of every sample, and with it when the mode changes.              *)
(*                                                                         *)
(* Mode and flash.  The stored page and the mode can only disagree while a *)
(* save is owed, while the sector is being written, or after a save of the *)
(* host that failed; and since a page is written from the mode in RAM,     *)
(* that mode must be the active one (IInv).                                *)
(*                                                                         *)
(* SMT does not see that a Boolean passed as a value is the same as a      *)
(* formula.  So the lemmas about samples speak of the positions that are   *)
(* pressed (On) and have pressed and released cases of their own, and      *)
(* Zenon takes the steps that turn one into the other.                     *)
(***************************************************************************)
EXTENDS Panel, FiniteSetTheorems, SequenceTheorems, TLAPS

-----------------------------------------------------------------------------
(* The samples of a gesture                                                *)

\* s ends in exactly n samples that are v
RunOf(s, v, n) ==
  /\ n \in 0..Len(s)
  /\ \A i \in (Len(s) - n + 1)..Len(s) : s[i] = v
  /\ n < Len(s) => s[Len(s) - n] # v

\* The instance G has a Cardinality of its own, which is Cardinality.
LEMMA CardinalityIsG == \A S : G!Cardinality(S) = Cardinality(S)
BY DEF G!Cardinality, Cardinality

\* A run is what Trailing counts.
LEMMA RunIsTrailing ==
  ASSUME NEW s \in Seq(BOOLEAN), NEW v, NEW n, RunOf(s, v, n)
  PROVE  G!Trailing(s, v) = n
<1> DEFINE run == {i \in DOMAIN s : \A j \in i..Len(s) : s[j] = v}
<1>1. Len(s) \in Nat /\ DOMAIN s = 1..Len(s) /\ n \in 0..Len(s)
  BY LenProperties DEF RunOf
<1>2. run = (Len(s) - n + 1)..Len(s)
  <2>1. ASSUME NEW i \in run PROVE i >= Len(s) - n + 1
    <3>1. i \in 1..Len(s) /\ \A j \in i..Len(s) : s[j] = v
      BY <1>1
    <3>2. ASSUME i < Len(s) - n + 1 PROVE FALSE
      <4>1. Len(s) - n \in i..Len(s) /\ n < Len(s)
        BY <1>1, <3>1, <3>2
      <4> QED BY <3>1, <4>1 DEF RunOf
    <3> QED BY <1>1, <3>1, <3>2
  <2>2. ASSUME NEW i \in (Len(s) - n + 1)..Len(s) PROVE i \in run
    BY <1>1 DEF RunOf
  <2> QED BY <1>1, <2>1, <2>2
<1>3. Cardinality((Len(s) - n + 1)..Len(s)) = n
  BY <1>1, FS_Interval
<1> QED BY <1>2, <1>3, CardinalityIsG DEF G!Trailing

\* A sample like the last one makes the run longer, another one starts a new run.
LEMMA RunAppend ==
  ASSUME NEW s \in Seq(BOOLEAN), NEW v \in BOOLEAN
  PROVE  /\ \A n : RunOf(s, v, n) => RunOf(Append(s, v), v, n + 1)
         /\ s = <<>> \/ s[Len(s)] # v => RunOf(Append(s, v), v, 1)
         /\ RunOf(Append(s, v), ~v, 0)
<1> DEFINE t == Append(s, v)
<1>1. /\ Len(s) \in Nat /\ Len(t) = Len(s) + 1
      /\ \A i \in 1..Len(s) : t[i] = s[i]
      /\ t[Len(s) + 1] = v
  BY LenProperties, AppendProperties
<1> HIDE DEF t
<1>2. ASSUME NEW n, RunOf(s, v, n) PROVE RunOf(t, v, n + 1)
  <2>1. n \in 0..Len(s)
    BY <1>2 DEF RunOf
  <2>2. ASSUME NEW i \in (Len(t) - (n + 1) + 1)..Len(t) PROVE t[i] = v
    <3>1. i \in Len(s) - n + 1..Len(s) \/ i = Len(s) + 1
      BY <1>1, <2>1
    <3>2. i \in Len(s) - n + 1..Len(s) => i \in 1..Len(s)
      BY <1>1, <2>1
    <3> QED BY <1>1, <1>2, <3>1, <3>2 DEF RunOf
  <2>3. ASSUME n + 1 < Len(t) PROVE t[Len(t) - (n + 1)] # v
    <3>1. n < Len(s) /\ Len(t) - (n + 1) = Len(s) - n /\ Len(s) - n \in 1..Len(s)
      BY <1>1, <2>1, <2>3
    <3> QED BY <1>1, <1>2, <3>1 DEF RunOf
  <2> QED BY <1>1, <2>1, <2>2, <2>3 DEF RunOf
<1>3. ASSUME s = <<>> \/ s[Len(s)] # v PROVE RunOf(t, v, 1)
  <2>1. 1 < Len(t) => t[Len(t) - 1] # v
    <3>1. CASE s = <<>>
      BY <1>1, <3>1, EmptySeq
    <3>2. CASE s # <<>>
      <4>1. Len(s) \in 1..Len(s)
        BY <3>2, <1>1, EmptySeq
      <4> QED BY <1>1, <1>3, <3>2, <4>1
    <3> QED BY <3>1, <3>2
  <2> QED BY <1>1, <2>1 DEF RunOf
<1>4. RunOf(t, ~v, 0)
  BY <1>1 DEF RunOf
<1> QED BY <1>2, <1>3, <1>4 DEF t

\* The positions of the pressed samples
On(s) == {i \in DOMAIN s : s[i]}

\* Presses and holds in terms of these positions
LEMMA OnProperties ==
  ASSUME NEW s \in Seq(BOOLEAN)
  PROVE  /\ On(s) \subseteq 1..Len(s)
         /\ \A i \in 1..Len(s) : (i \in On(s) <=> s[i]) /\ s[i] \in BOOLEAN
         /\ G!Presses(s) = Cardinality({i \in On(s) : i = 1 \/ i - 1 \notin On(s)})
         /\ G!HeldIn(s) <=> \E i \in 1..Len(s) :
              i >= HoldSamples /\ (i - HoldSamples + 1)..i \subseteq On(s)
<1>1. DOMAIN s = 1..Len(s) /\ Len(s) \in Nat
  BY LenProperties
<1>2. On(s) \subseteq 1..Len(s) /\ \A i : i \in On(s) <=> i \in 1..Len(s) /\ s[i]
  BY <1>1, Zenon DEF On
<1>3. \A i \in 1..Len(s) : s[i] \in BOOLEAN
  BY ElementOfSeq
<1>4. G!Presses(s) = Cardinality({i \in On(s) : i = 1 \/ i - 1 \notin On(s)})
  <2>1. ASSUME NEW i \in 1..Len(s), i # 1 PROVE i - 1 \in On(s) <=> s[i - 1]
    <3>1. i - 1 \in 1..Len(s)
      BY <1>1, <2>1
    <3> QED BY <1>2, <3>1, Zenon
  <2>2. ASSUME NEW i
        PROVE  i \in DOMAIN s /\ (s[i] /\ (i = 1 \/ ~s[i - 1]))
                 <=> i \in On(s) /\ (i = 1 \/ i - 1 \notin On(s))
    BY <1>1, <1>2, <2>1, Zenon
  <2>3. {i \in DOMAIN s : s[i] /\ (i = 1 \/ ~s[i - 1])}
          = {i \in On(s) : i = 1 \/ i - 1 \notin On(s)}
    BY <2>2, Zenon
  <2> QED BY <2>3, CardinalityIsG, Zenon DEF G!Presses
<1>5. ASSUME NEW i \in 1..Len(s), i >= HoldSamples
      PROVE  (\A j \in (i - HoldSamples + 1)..i : s[j])
               <=> (i - HoldSamples + 1)..i \subseteq On(s)
  <2>1. (i - HoldSamples + 1)..i \subseteq 1..Len(s)
    BY <1>1, <1>5, TimesAssumption
  <2> QED BY <1>2, <2>1, Zenon
<1>6. G!HeldIn(s) <=> \E i \in 1..Len(s) :
              i >= HoldSamples /\ (i - HoldSamples + 1)..i \subseteq On(s)
  BY <1>1, <1>5, Zenon DEF G!HeldIn
<1> QED BY <1>2, <1>3, <1>4, <1>6

\* Another sample is on when it is pressed, and changes none before it.
LEMMA OnAppend ==
  ASSUME NEW s \in Seq(BOOLEAN), NEW v \in BOOLEAN
  PROVE  On(Append(s, v)) = On(s) \cup (IF v THEN {Len(s) + 1} ELSE {})
<1> DEFINE t == Append(s, v)
<1>1. /\ Len(s) \in Nat /\ Len(t) = Len(s) + 1 /\ t \in Seq(BOOLEAN)
      /\ \A i \in 1..Len(s) : t[i] = s[i]
      /\ t[Len(s) + 1] = v
  BY LenProperties, AppendProperties
<1>2. \A i \in 1..(Len(s) + 1) : i \in On(t) <=> t[i]
  BY <1>1, OnProperties, Zenon
<1>3. Len(s) + 1 \in 1..(Len(s) + 1) /\ 1..Len(s) \subseteq 1..(Len(s) + 1)
      /\ \A i \in 1..(Len(s) + 1) : i \in 1..Len(s) \/ i = Len(s) + 1
  BY <1>1
<1>4. Len(s) + 1 \in On(t) <=> v
  BY <1>1, <1>2, <1>3, Zenon
<1>5. \A i \in 1..Len(s) : i \in On(t) <=> i \in On(s)
  BY <1>1, <1>2, <1>3, OnProperties, Zenon
<1>6. On(s) \subseteq 1..Len(s) /\ On(t) \subseteq 1..(Len(s) + 1)
  BY <1>1, OnProperties, Zenon
<1> HIDE DEF t
<1>7. On(t) = On(s) \cup (IF v THEN {Len(s) + 1} ELSE {})
  BY <1>1, <1>3, <1>4, <1>5, <1>6
<1> QED BY <1>7 DEF t

\* A sample adds a press when it is pressed and the one before it was not.
LEMMA PressesAppend ==
  ASSUME NEW s \in Seq(BOOLEAN), NEW v \in BOOLEAN
  PROVE  /\ G!Presses(s) \in Nat
         /\ G!Presses(Append(s, v)) =
              G!Presses(s) + (IF v /\ (s = <<>> \/ ~s[Len(s)]) THEN 1 ELSE 0)
<1> DEFINE t == Append(s, v)
           starts(r) == {i \in On(r) : i = 1 \/ i - 1 \notin On(r)}
<1>1. Len(s) \in Nat /\ On(s) \subseteq 1..Len(s) /\ t \in Seq(BOOLEAN)
  BY LenProperties, OnProperties, AppendProperties
<1>2. On(t) = On(s) \cup (IF v THEN {Len(s) + 1} ELSE {})
  BY OnAppend
<1>3. G!Presses(s) = Cardinality(starts(s)) /\ G!Presses(t) = Cardinality(starts(t))
  BY <1>1, OnProperties, Zenon
<1>4. s = <<>> \/ ~s[Len(s)] <=> Len(s) = 0 \/ Len(s) \notin On(s)
  <2>1. s = <<>> <=> Len(s) = 0
    BY EmptySeq
  <2>2. Len(s) # 0 => Len(s) \in 1..Len(s)
    BY <1>1
  <2> QED BY <2>1, <2>2, OnProperties, Zenon
<1>5. IsFiniteSet(starts(s)) /\ Len(s) + 1 \notin starts(s)
  <2>1. starts(s) \subseteq 1..Len(s) /\ IsFiniteSet(1..Len(s))
    BY <1>1, FS_Interval
  <2> QED BY <1>1, <2>1, FS_Subset
<1>6. Cardinality(starts(s)) \in Nat
  BY <1>5, FS_CardinalityType
<1> HIDE DEF t
<1>7. CASE v /\ (s = <<>> \/ ~s[Len(s)])
  <2>1. starts(t) = starts(s) \cup {Len(s) + 1}
    BY <1>1, <1>2, <1>4, <1>7
  <2>2. Cardinality(starts(t)) = Cardinality(starts(s)) + 1
    BY <1>5, <2>1, FS_AddElement
  <2> QED BY <1>3, <1>6, <1>7, <2>2 DEF t
<1>8. CASE ~(v /\ (s = <<>> \/ ~s[Len(s)]))
  <2>1. starts(t) = starts(s)
    BY <1>1, <1>2, <1>4, <1>8
  <2>2. (IF v /\ (s = <<>> \/ ~s[Len(s)]) THEN 1 ELSE 0) = 0
    BY <1>8, Zenon
  <2>3. G!Presses(t) = G!Presses(s) /\ G!Presses(s) \in Nat
    BY <1>3, <1>6, <2>1
  <2> QED BY <2>2, <2>3 DEF t
<1> QED BY <1>7, <1>8

\* A sample makes a hold when it completes a run of HoldSamples.
LEMMA HeldInAppend ==
  ASSUME NEW s \in Seq(BOOLEAN), NEW v \in BOOLEAN
  PROVE  /\ G!HeldIn(s) => G!HeldIn(Append(s, v))
         /\ ~v /\ ~G!HeldIn(s) => ~G!HeldIn(Append(s, v))
         /\ \A n : v /\ ~G!HeldIn(s) /\ RunOf(Append(s, v), TRUE, n) =>
                (G!HeldIn(Append(s, v)) <=> n >= HoldSamples)
<1> DEFINE t == Append(s, v)
           held(r, i) == i >= HoldSamples /\ (i - HoldSamples + 1)..i \subseteq On(r)
<1>1. /\ Len(s) \in Nat /\ Len(t) = Len(s) + 1 /\ t \in Seq(BOOLEAN)
      /\ On(s) \subseteq 1..Len(s)
  BY LenProperties, AppendProperties, OnProperties
<1>2. HoldSamples \in Nat /\ HoldSamples > 1
  BY TimesAssumption
<1>3. On(t) = On(s) \cup (IF v THEN {Len(s) + 1} ELSE {})
  BY OnAppend
<1>4. /\ G!HeldIn(s) <=> \E i \in 1..Len(s) : held(s, i)
      /\ G!HeldIn(t) <=> \E i \in 1..(Len(s) + 1) : held(t, i)
  BY <1>1, OnProperties
<1>a. \A i \in 1..(Len(s) + 1) : (i \in On(t) <=> t[i]) /\ t[i] \in BOOLEAN
  BY <1>1, OnProperties, Zenon
<1> HIDE DEF t
<1>5. ASSUME NEW i \in 1..Len(s) PROVE held(t, i) <=> held(s, i)
  BY <1>1, <1>2, <1>3
<1>6. G!HeldIn(t) <=> G!HeldIn(s) \/ held(t, Len(s) + 1)
  <2>1. /\ \A i \in 1..(Len(s) + 1) : i \in 1..Len(s) \/ i = Len(s) + 1
        /\ \A i \in 1..Len(s) : i \in 1..(Len(s) + 1)
        /\ Len(s) + 1 \in 1..(Len(s) + 1)
    BY <1>1
  <2> HIDE DEF held
  <2> QED BY <1>4, <1>5, <2>1
<1>7. ~v => ~held(t, Len(s) + 1)
  <2>1. Len(s) + 1 \in ((Len(s) + 1) - HoldSamples + 1)..(Len(s) + 1)
    BY <1>1, <1>2
  <2>2. Len(s) + 1 \notin On(s)
    BY <1>1
  <2> QED BY <1>3, <2>1, <2>2
<1>8. ASSUME NEW n, RunOf(t, TRUE, n) PROVE held(t, Len(s) + 1) <=> n >= HoldSamples
  <2>1. n \in 0..Len(t)
    BY <1>8 DEF RunOf
  <2>2. \A i \in (Len(t) - n + 1)..Len(t) : i \in On(t)
    <3>1. (Len(t) - n + 1)..Len(t) \subseteq 1..(Len(s) + 1)
      BY <1>1, <2>1
    <3> QED BY <1>8, <1>a, <3>1, Zenon DEF RunOf
  <2>3. n < Len(t) => Len(t) - n \notin On(t)
    <3>1. n < Len(t) => Len(t) - n \in 1..(Len(s) + 1)
      BY <1>1, <2>1
    <3> QED BY <1>8, <1>a, <3>1, Zenon DEF RunOf
  <2> QED BY <1>1, <1>2, <2>1, <2>2, <2>3
<1> QED BY <1>6, <1>7, <1>8 DEF t

\* s ends in exactly n pressed samples, or in n released ones
EndsDown(s, n) == RunOf(s, TRUE, n)
EndsUp(s, n) == RunOf(s, FALSE, n)

\* How long the button has been down, or up, at the end of s
DownFor(s) == G!Trailing(s, TRUE)
UpFor(s) == G!Trailing(s, FALSE)

\* Over and ActionOf in these terms
LEMMA Readings ==
  ASSUME NEW s
  PROVE  /\ G!Over(s) <=> \/ G!Presses(s) = 0
                          \/ UpFor(s) > ClickWindow
                          \/ G!HeldIn(s) /\ UpFor(s) > 0
         /\ G!ActionOf(s) =
              IF DownFor(s) = HoldSamples THEN "hold"
              ELSE IF ~G!HeldIn(s) /\ G!Presses(s) > 0 /\ UpFor(s) = ClickWindow + 1
                THEN CASE G!Presses(s) = 1 -> "click"
                       [] G!Presses(s) = 2 -> "toggle"
                       [] OTHER -> "boot"
              ELSE "none"
BY Zenon DEF G!Over, G!ActionOf, DownFor, UpFor

\* A sequence that ends in n pressed samples
LEMMA EndsPressed ==
  ASSUME NEW s \in Seq(BOOLEAN), NEW n, n # 0, EndsDown(s, n)
  PROVE  /\ n \in 1..Len(s) /\ s # <<>> /\ Len(s) \in On(s)
         /\ DownFor(s) = n /\ UpFor(s) = 0
<1>1. n \in 1..Len(s) /\ Len(s) \in Nat
  BY LenProperties DEF RunOf, EndsDown
<1>2. s # <<>>
  BY <1>1, EmptySeq
<1>3. s[Len(s)] = TRUE
  BY <1>1 DEF RunOf, EndsDown
<1>4. RunOf(s, FALSE, 0)
  <2>1. /\ 0 \in 0..Len(s) /\ Len(s) - 0 = Len(s)
        /\ \A i \in (Len(s) - 0 + 1)..Len(s) : s[i] = FALSE
    BY <1>1
  <2> QED BY <1>3, <2>1, Zenon DEF RunOf
<1>5. Len(s) \in 1..Len(s)
  BY <1>1
<1>6. Len(s) \in On(s)
  BY <1>3, <1>5, OnProperties, Zenon
<1> QED BY <1>1, <1>2, <1>4, <1>6, RunIsTrailing, Zenon DEF EndsDown, DownFor, UpFor

\* A sequence that ends in n released samples
LEMMA EndsReleased ==
  ASSUME NEW s \in Seq(BOOLEAN), NEW n, n # 0, EndsUp(s, n)
  PROVE  /\ n \in 1..Len(s) /\ s # <<>> /\ Len(s) \notin On(s)
         /\ UpFor(s) = n /\ DownFor(s) = 0
<1>1. n \in 1..Len(s) /\ Len(s) \in Nat
  BY LenProperties DEF RunOf, EndsUp
<1>2. s # <<>>
  BY <1>1, EmptySeq
<1>3. s[Len(s)] = FALSE
  BY <1>1 DEF RunOf, EndsUp
<1>4. RunOf(s, TRUE, 0)
  <2>1. /\ 0 \in 0..Len(s) /\ Len(s) - 0 = Len(s)
        /\ \A i \in (Len(s) - 0 + 1)..Len(s) : s[i] = TRUE
    BY <1>1
  <2> QED BY <1>3, <2>1, Zenon DEF RunOf
<1>5. Len(s) \in 1..Len(s)
  BY <1>1
<1>6. Len(s) \notin On(s)
  BY <1>3, <1>5, OnProperties, Zenon
<1> QED BY <1>1, <1>2, <1>4, <1>6, RunIsTrailing, Zenon DEF EndsUp, DownFor, UpFor

\* What another pressed sample makes of a sequence
LEMMA AppendPressed ==
  ASSUME NEW s \in Seq(BOOLEAN), NEW v, v = TRUE, NEW t, t = Append(s, v)
  PROVE  /\ t \in Seq(BOOLEAN) /\ t # <<>> /\ Len(t) \in On(t)
         /\ \A n : EndsDown(s, n) => EndsDown(t, n + 1)
         /\ Len(s) \notin On(s) => EndsDown(t, 1)
         /\ G!Presses(s) \in Nat /\ G!Presses(t) \in Nat
         /\ Len(s) \in On(s) => G!Presses(t) = G!Presses(s)
         /\ Len(s) \notin On(s) => G!Presses(t) = G!Presses(s) + 1
         /\ G!HeldIn(s) => G!HeldIn(t)
         /\ \A n : ~G!HeldIn(s) /\ EndsDown(t, n) =>
                (G!HeldIn(t) <=> n >= HoldSamples)
<1>1. /\ TRUE \in BOOLEAN /\ Len(s) \in Nat /\ t \in Seq(BOOLEAN)
      /\ Len(t) = Len(s) + 1 /\ t # <<>>
  <2>1. TRUE \in BOOLEAN
    BY Zenon
  <2>2. t \in Seq(BOOLEAN) /\ Len(t) = Len(s) + 1 /\ Len(s) \in Nat
    BY <2>1, AppendProperties, LenProperties, Zenon
  <2>3. t # <<>>
    <3>1. Len(t) # 0
      BY <2>2
    <3> QED BY <2>2, <3>1, EmptySeq, Zenon
  <2> QED BY <2>1, <2>2, <2>3, Zenon
<1>2. s = <<>> \/ ~s[Len(s)] <=> Len(s) \notin On(s)
  <2>1. s = <<>> <=> Len(s) = 0
    BY EmptySeq
  <2>2. Len(s) # 0 => Len(s) \in 1..Len(s)
    BY <1>1
  <2>3. 0 \notin On(s)
    <3>1. On(s) \subseteq 1..Len(s)
      BY OnProperties, Zenon
    <3> QED BY <1>1, <3>1
  <2> QED BY <2>1, <2>2, <2>3, OnProperties, Zenon
<1>3. Len(t) \in On(t)
  <2>1. Len(t) \in 1..Len(t)
    BY <1>1
  <2>2. t[Len(t)] = TRUE
    <3>1. t[Len(s) + 1] = v
      BY <1>1, AppendProperties, Zenon
    <3> QED BY <1>1, <3>1, Zenon
  <2> QED BY <1>1, <2>1, <2>2, OnProperties, Zenon
<1>4. /\ \A n : RunOf(s, TRUE, n) => RunOf(t, TRUE, n + 1)
      /\ Len(s) \notin On(s) => RunOf(t, TRUE, 1)
  <2>1. ASSUME NEW n, RunOf(s, TRUE, n) PROVE RunOf(t, TRUE, n + 1)
    BY <1>1, <2>1, RunAppend, Zenon
  <2>2. ASSUME Len(s) \notin On(s) PROVE RunOf(t, TRUE, 1)
    <3>1. s = <<>> \/ s[Len(s)] # TRUE
      BY <1>2, <2>2, Zenon
    <3> QED BY <1>1, <3>1, RunAppend, Zenon
  <2> QED BY <2>1, <2>2
<1>5. /\ G!Presses(s) \in Nat
      /\ G!Presses(t) = G!Presses(s) + (IF Len(s) \notin On(s) THEN 1 ELSE 0)
  BY <1>1, <1>2, PressesAppend, Zenon
<1>6. /\ G!HeldIn(s) => G!HeldIn(t)
      /\ \A n : ~G!HeldIn(s) /\ RunOf(t, TRUE, n) =>
                (G!HeldIn(t) <=> n >= HoldSamples)
  BY <1>1, HeldInAppend, Zenon
<1>7. /\ G!Presses(t) \in Nat
      /\ Len(s) \in On(s) => G!Presses(t) = G!Presses(s)
      /\ Len(s) \notin On(s) => G!Presses(t) = G!Presses(s) + 1
  BY <1>5
<1> QED BY <1>1, <1>3, <1>4, <1>5, <1>6, <1>7, Zenon DEF EndsDown

\* What another released sample makes of a sequence
LEMMA AppendReleased ==
  ASSUME NEW s \in Seq(BOOLEAN), NEW v, v = FALSE, NEW t, t = Append(s, v)
  PROVE  /\ t \in Seq(BOOLEAN) /\ t # <<>> /\ Len(t) \notin On(t)
         /\ \A n : EndsUp(s, n) => EndsUp(t, n + 1)
         /\ s = <<>> \/ Len(s) \in On(s) => EndsUp(t, 1)
         /\ G!Presses(s) \in Nat /\ G!Presses(t) = G!Presses(s)
         /\ G!HeldIn(s) <=> G!HeldIn(t)
<1>1. /\ FALSE \in BOOLEAN /\ Len(s) \in Nat /\ t \in Seq(BOOLEAN)
      /\ Len(t) = Len(s) + 1 /\ t # <<>>
  <2>1. FALSE \in BOOLEAN
    BY Zenon
  <2>2. t \in Seq(BOOLEAN) /\ Len(t) = Len(s) + 1 /\ Len(s) \in Nat
    BY <2>1, AppendProperties, LenProperties, Zenon
  <2>3. t # <<>>
    <3>1. Len(t) # 0
      BY <2>2
    <3> QED BY <2>2, <3>1, EmptySeq, Zenon
  <2> QED BY <2>1, <2>2, <2>3, Zenon
<1>2. Len(t) \notin On(t)
  <2>1. Len(t) \in 1..Len(t)
    BY <1>1
  <2>2. t[Len(t)] = FALSE
    <3>1. t[Len(s) + 1] = v
      BY <1>1, AppendProperties, Zenon
    <3> QED BY <1>1, <3>1, Zenon
  <2> QED BY <1>1, <2>1, <2>2, OnProperties, Zenon
<1>3. \A n : RunOf(s, FALSE, n) => RunOf(t, FALSE, n + 1)
  BY <1>1, RunAppend, Zenon
<1>4. ASSUME s = <<>> \/ Len(s) \in On(s) PROVE RunOf(t, FALSE, 1)
  <2>1. s = <<>> \/ s[Len(s)] # FALSE
    <3>1. Len(s) \in On(s) => Len(s) \in 1..Len(s)
      BY OnProperties
    <3> QED BY <1>4, <3>1, OnProperties, Zenon
  <2> QED BY <1>1, <2>1, RunAppend, Zenon
<1>5. G!Presses(s) \in Nat /\ G!Presses(t) = G!Presses(s) + 0
  BY <1>1, PressesAppend, Zenon
<1>6. G!HeldIn(s) <=> G!HeldIn(t)
  BY <1>1, HeldInAppend, Zenon
<1>7. G!Presses(t) = G!Presses(s)
  BY <1>5
<1> QED BY <1>1, <1>2, <1>3, <1>4, <1>5, <1>6, <1>7, Zenon DEF EndsUp

-----------------------------------------------------------------------------
(* The invariant                                                           *)

\* What each state of button_fsm says of the samples: idle, that they stand for no
\* gesture or for one that is over and acted on;
IdleInv ==
  /\ G!Over(samples) /\ act = G!ActionOf(samples)
  /\ pressSamples = 0 /\ clickCount = 0

\* pressing, that they end with the press being counted, too short for a hold yet,
PressingInv ==
  /\ pressSamples \in 1..(HoldSamples - 1)
  /\ EndsDown(samples, pressSamples)
  /\ ~G!HeldIn(samples) /\ G!Presses(samples) = clickCount + 1 /\ act = "none"

\* wait, that they end with the pause being counted, after clicks only,
WaitInv ==
  /\ waitSamples \in 0..(ClickWindow - 1)
  /\ EndsUp(samples, waitSamples + 1)
  /\ ~G!HeldIn(samples) /\ clickCount > 0 /\ G!Presses(samples) = clickCount
  /\ act = "none"

\* held, that they end with a press which has set off the hold.
HeldInv ==
  /\ pressSamples = HoldSamples /\ clickCount = 0
  /\ \E n \in {HoldSamples, HoldSamples + 1} :
       /\ EndsDown(samples, n)
       /\ act = (IF n = HoldSamples THEN "hold" ELSE "none")
  /\ G!HeldIn(samples) /\ G!Presses(samples) > 0

MachineInv ==
  /\ fsm = "idle" => IdleInv
  /\ fsm = "pressing" => PressingInv
  /\ fsm = "wait" => WaitInv
  /\ fsm = "held" => HeldInv

\* Every press read is a touch of the finger or follows a missed read of its own.
SplitInv ==
  samples # <<>> =>
    IF Len(samples) \in On(samples)
      THEN finger /\ G!Presses(samples) <= touches + misses
      ELSE G!Presses(samples) + (IF finger THEN 1 ELSE 0) <= touches + misses

GestureInv == G!TypeOK /\ MachineInv /\ SplitInv

\* The empty sequence
LEMMA NoSamples ==
  /\ <<>> \in Seq(BOOLEAN) /\ Len(<<>>) = 0 /\ 0 \notin On(<<>>)
  /\ G!Presses(<<>>) = 0 /\ ~G!HeldIn(<<>>)
<1>1. <<>> \in Seq(BOOLEAN) /\ Len(<<>>) = 0
  BY EmptySeq
<1>2. On(<<>>) \subseteq 1..0
  <2>1. On(<<>>) \subseteq 1..Len(<<>>)
    BY <1>1, OnProperties, Zenon
  <2> QED BY <1>1, <2>1, Zenon
<1>3. On(<<>>) = {} /\ {i \in On(<<>>) : i = 1 \/ i - 1 \notin On(<<>>)} = {}
  BY <1>2
<1>4. G!Presses(<<>>) = Cardinality({i \in On(<<>>) : i = 1 \/ i - 1 \notin On(<<>>)})
  BY <1>1, OnProperties, Zenon
<1>5. ~G!HeldIn(<<>>)
  <2>1. G!HeldIn(<<>>) => \E i \in 1..Len(<<>>) : TRUE
    BY <1>1, OnProperties, Zenon
  <2> QED BY <1>1, <2>1
<1> QED BY <1>1, <1>3, <1>4, <1>5, FS_EmptySet

\* What the lemmas below keep needing
LEMMA Known ==
  ASSUME GestureInv
  PROVE  /\ samples \in Seq(BOOLEAN) /\ clickCount \in Nat
         /\ fsm \in {"idle", "pressing", "held", "wait"}
         /\ ClickWindow \in Nat \ {0} /\ HoldSamples \in Nat \ {0, 1}
         /\ G!Presses(samples) \in Nat
<1>1. /\ samples \in Seq(BOOLEAN) /\ clickCount \in Nat
      /\ fsm \in {"idle", "pressing", "held", "wait"}
      /\ ClickWindow \in Nat \ {0} /\ HoldSamples \in Nat \ {0, 1}
  BY TimesAssumption DEF GestureInv, G!TypeOK
<1>2. G!Presses(samples) \in Nat
  <2>1. \E t : t = Append(samples, TRUE)
    OBVIOUS
  <2> QED BY <1>1, <2>1, AppendPressed, Zenon
<1> QED BY <1>1, <1>2

\* A gesture in progress goes on with the next sample.
LEMMA GestureGoesOn ==
  ASSUME GestureInv
  PROVE  fsm # "idle" => ~G!Over(samples)
<1>1. CASE fsm = "pressing"
  <2>1. PressingInv
    BY <1>1 DEF GestureInv, MachineInv
  <2>2. pressSamples # 0 /\ EndsDown(samples, pressSamples)
    BY <2>1 DEF PressingInv
  <2>3. UpFor(samples) = 0
    BY <2>2, EndsPressed, Known, Zenon
  <2> QED BY <2>1, <2>3, Known, Readings DEF PressingInv
<1>2. CASE fsm = "wait"
  <2>1. WaitInv
    BY <1>2 DEF GestureInv, MachineInv
  <2>2. waitSamples + 1 # 0 /\ EndsUp(samples, waitSamples + 1)
    BY <2>1 DEF WaitInv
  <2>3. UpFor(samples) = waitSamples + 1
    BY <2>2, EndsReleased, Known, Zenon
  <2> QED BY <2>1, <2>3, Known, Readings DEF WaitInv
<1>3. CASE fsm = "held"
  <2>1. HeldInv
    BY <1>3 DEF GestureInv, MachineInv
  <2>2. PICK n : n # 0 /\ EndsDown(samples, n)
    BY <2>1, Known DEF HeldInv
  <2>3. UpFor(samples) = 0
    BY <2>2, EndsPressed, Known, Zenon
  <2> QED BY <2>1, <2>3, Known, Readings DEF HeldInv
<1> QED BY <1>1, <1>2, <1>3, Known

\* Idle: a gesture begins, or nothing does.
LEMMA IdleStep ==
  ASSUME GestureInv, NEW v, v = TRUE \/ v = FALSE, G!Idle(v), samples' = Append(<<>>, v)
  PROVE  MachineInv'
<1>1. fsm = "idle" /\ IdleInv /\ act' = "none" /\ clickCount' = 0
  BY DEF G!Idle, GestureInv, MachineInv, IdleInv
<1>2. CASE v = TRUE
  <2>1. /\ EndsDown(samples', 1) /\ G!Presses(samples') = G!Presses(<<>>) + 1
        /\ G!HeldIn(samples') <=> 1 >= HoldSamples
    BY <1>2, AppendPressed, NoSamples, Zenon
  <2>2. fsm' = "pressing" /\ pressSamples' = 1
    BY <1>2 DEF G!Idle, G!StartPress
  <2> QED BY <1>1, <2>1, <2>2, NoSamples, Known DEF MachineInv, PressingInv
<1>3. CASE v = FALSE
  <2>1. /\ samples' \in Seq(BOOLEAN) /\ EndsUp(samples', 1)
        /\ G!Presses(samples') = 0
    BY <1>3, AppendReleased, NoSamples, Zenon
  <2>2. 1 # 0
    OBVIOUS
  <2>3. UpFor(samples') = 1 /\ DownFor(samples') = 0
    BY <2>1, <2>2, EndsReleased, Zenon
  <2>4. G!Over(samples') /\ G!ActionOf(samples') = "none"
    BY <2>1, <2>3, Known, Readings
  <2>5. fsm' = "idle" /\ pressSamples' = 0
    BY <1>1, <1>3 DEF G!Idle, IdleInv
  <2> QED BY <1>1, <2>4, <2>5 DEF MachineInv, IdleInv
<1> QED BY <1>2, <1>3

\* Pressing: the press goes on, becomes a hold, or ends as a click.
LEMMA PressingStep ==
  ASSUME GestureInv, NEW v, v = TRUE \/ v = FALSE, G!Pressing(v),
         samples' = Append(samples, v)
  PROVE  MachineInv'
<1>1. fsm = "pressing" /\ PressingInv
  BY DEF G!Pressing, GestureInv, MachineInv
<1>2. pressSamples # 0 /\ EndsDown(samples, pressSamples) /\ ~G!HeldIn(samples)
  BY <1>1 DEF PressingInv
<1>3. Len(samples) \in On(samples)
  BY <1>2, EndsPressed, Known, Zenon
<1>4. CASE v = FALSE
  <2>1. /\ EndsUp(samples', 1) /\ G!Presses(samples') = G!Presses(samples)
        /\ ~G!HeldIn(samples')
    BY <1>2, <1>3, <1>4, AppendReleased, Known, Zenon
  <2>2. /\ fsm' = "wait" /\ waitSamples' = 0 /\ clickCount' = clickCount + 1
        /\ act' = "none"
    BY <1>4 DEF G!Pressing
  <2>3. 0 + 1 = 1
    OBVIOUS
  <2>4. EndsUp(samples', waitSamples' + 1)
    BY <2>1, <2>2, <2>3, Zenon
  <2> QED BY <1>1, <2>1, <2>2, <2>4, Known DEF MachineInv, WaitInv, PressingInv
<1>5. CASE v = TRUE
  <2>1. /\ EndsDown(samples', pressSamples + 1)
        /\ G!Presses(samples') = G!Presses(samples)
        /\ G!HeldIn(samples') <=> pressSamples + 1 >= HoldSamples
    BY <1>2, <1>3, <1>5, AppendPressed, Known, Zenon
  <2>2. pressSamples' = pressSamples + 1
    BY <1>5 DEF G!Pressing
  <2>3. CASE pressSamples + 1 >= HoldSamples
    <3>1. fsm' = "held" /\ clickCount' = 0 /\ act' = "hold"
      BY <1>5, <2>2, <2>3 DEF G!Pressing
    <3>2. pressSamples + 1 = HoldSamples
      BY <1>1, <2>3, Known DEF PressingInv
    <3> QED BY <1>1, <2>1, <2>2, <3>1, <3>2, Known DEF MachineInv, HeldInv, PressingInv
  <2>4. CASE ~(pressSamples + 1 >= HoldSamples)
    <3>1. fsm' = "pressing" /\ clickCount' = clickCount /\ act' = "none"
      BY <1>1, <1>5, <2>2, <2>4 DEF G!Pressing
    <3> QED BY <1>1, <2>1, <2>2, <2>4, <3>1, Known DEF MachineInv, PressingInv
  <2> QED BY <2>3, <2>4
<1> QED BY <1>4, <1>5

\* Wait: the next press of the gesture, or the end of its window.
LEMMA WaitStep ==
  ASSUME GestureInv, NEW v, v = TRUE \/ v = FALSE, G!Wait(v), samples' = Append(samples, v)
  PROVE  MachineInv'
<1>1. fsm = "wait" /\ WaitInv
  BY DEF G!Wait, GestureInv, MachineInv
<1>2. /\ waitSamples + 1 # 0 /\ EndsUp(samples, waitSamples + 1)
      /\ ~G!HeldIn(samples)
  BY <1>1 DEF WaitInv
<1>3. Len(samples) \notin On(samples)
  BY <1>2, EndsReleased, Known, Zenon
<1>4. CASE v = TRUE
  <2>1. /\ EndsDown(samples', 1)
        /\ G!Presses(samples') = G!Presses(samples) + 1
        /\ G!HeldIn(samples') <=> 1 >= HoldSamples
    BY <1>2, <1>3, <1>4, AppendPressed, Known, Zenon
  <2>2. /\ fsm' = "pressing" /\ pressSamples' = 1 /\ clickCount' = clickCount
        /\ act' = "none"
    BY <1>4 DEF G!Wait, G!StartPress
  <2> QED BY <1>1, <2>1, <2>2, Known DEF MachineInv, PressingInv, WaitInv
<1>5. CASE v = FALSE
  <2>1. /\ samples' \in Seq(BOOLEAN)
        /\ EndsUp(samples', (waitSamples + 1) + 1)
        /\ G!Presses(samples') = G!Presses(samples)
        /\ ~G!HeldIn(samples')
    BY <1>2, <1>5, AppendReleased, Known, Zenon
  <2>2. waitSamples' = waitSamples + 1
    BY <1>5 DEF G!Wait
  <2>3. CASE waitSamples + 1 >= ClickWindow
    <3>1. /\ fsm' = "idle" /\ pressSamples' = 0 /\ clickCount' = 0
          /\ act' = G!Dispatch(clickCount)
      BY <1>5, <2>2, <2>3 DEF G!Wait
    <3>2. (waitSamples + 1) + 1 # 0 /\ (waitSamples + 1) + 1 = ClickWindow + 1
      BY <1>1, <2>3, Known DEF WaitInv
    <3>3. UpFor(samples') = ClickWindow + 1 /\ DownFor(samples') = 0
      BY <2>1, <3>2, EndsReleased, Zenon
    <3>4. G!Over(samples')
      BY <3>3, Known, Readings
    <3>5. G!ActionOf(samples') = G!Dispatch(clickCount)
      BY <1>1, <2>1, <3>3, Known, Readings DEF G!Dispatch, WaitInv
    <3> QED BY <3>1, <3>4, <3>5 DEF MachineInv, IdleInv
  <2>4. CASE ~(waitSamples + 1 >= ClickWindow)
    <3>1. fsm' = "wait" /\ clickCount' = clickCount /\ act' = "none"
      BY <1>1, <1>5, <2>2, <2>4 DEF G!Wait
    <3>2. waitSamples' \in 0..(ClickWindow - 1)
      BY <1>1, <2>2, <2>4, Known DEF WaitInv
    <3> QED BY <1>1, <2>1, <2>2, <3>1, <3>2 DEF MachineInv, WaitInv
  <2> QED BY <2>3, <2>4
<1> QED BY <1>4, <1>5

\* Held: nothing more comes of the gesture.
LEMMA HeldStep ==
  ASSUME GestureInv, NEW v, v = TRUE \/ v = FALSE, G!Held(v),
         samples' = IF v /\ DownFor(samples) > HoldSamples
                      THEN samples ELSE Append(samples, v)
  PROVE  MachineInv'
<1>1. fsm = "held" /\ HeldInv /\ act' = "none" /\ clickCount' = 0
  BY DEF G!Held, GestureInv, MachineInv, HeldInv
<1>2. PICK n \in {HoldSamples, HoldSamples + 1} : EndsDown(samples, n)
  BY <1>1 DEF HeldInv
<1>3. n # 0
  BY Known
<1>4. Len(samples) \in On(samples) /\ DownFor(samples) = n
  BY <1>2, <1>3, EndsPressed, Known, Zenon
<1>5. G!HeldIn(samples) /\ G!Presses(samples) > 0 /\ pressSamples = HoldSamples
  BY <1>1 DEF HeldInv
<1>6. CASE v = TRUE
  <2>1. fsm' = "held" /\ pressSamples' = HoldSamples
    BY <1>1, <1>6 DEF G!Held, HeldInv
  <2>2. CASE n = HoldSamples
    <3>1. ~(HoldSamples > HoldSamples)
      BY Known
    <3>2. samples' = Append(samples, v)
      BY <1>4, <2>2, <3>1, Zenon
    <3>3. /\ EndsDown(samples', HoldSamples + 1) /\ G!HeldIn(samples')
          /\ G!Presses(samples') > 0
      BY <1>2, <1>4, <1>5, <1>6, <2>2, <3>2, AppendPressed, Known, Zenon
    <3> QED BY <1>1, <2>1, <3>3, Known DEF MachineInv, HeldInv
  <2>3. CASE n = HoldSamples + 1
    <3>1. HoldSamples + 1 > HoldSamples
      BY Known
    <3>2. samples' = samples
      BY <1>4, <1>6, <2>3, <3>1, Zenon
    <3>3. /\ EndsDown(samples', HoldSamples + 1) /\ G!HeldIn(samples')
          /\ G!Presses(samples') > 0
      BY <1>2, <1>5, <2>3, <3>2, Zenon
    <3> QED BY <1>1, <2>1, <3>3, Known DEF MachineInv, HeldInv
  <2> QED BY <2>2, <2>3
<1>7. CASE v = FALSE
  <2>1. samples' = Append(samples, v)
    BY <1>7, Zenon
  <2>2. fsm' = "idle" /\ pressSamples' = 0
    BY <1>7 DEF G!Held
  <2>3. EndsUp(samples', 1) /\ samples' \in Seq(BOOLEAN) /\ G!HeldIn(samples')
    BY <1>4, <1>5, <1>7, <2>1, AppendReleased, Known, Zenon
  <2>4. 1 # 0
    OBVIOUS
  <2>5. UpFor(samples') = 1 /\ DownFor(samples') = 0
    BY <2>3, <2>4, EndsReleased, Zenon
  <2>6. G!Over(samples') /\ G!ActionOf(samples') = "none"
    BY <2>3, <2>5, Known, Readings
  <2> QED BY <1>1, <2>2, <2>6 DEF MachineInv, IdleInv
<1> QED BY <1>6, <1>7

-----------------------------------------------------------------------------
(* A call of button_check                                                  *)

\* What a sample adds to the gesture
Grows(v) ==
  samples' = IF G!Over(samples) THEN Append(<<>>, v)
             ELSE IF v /\ DownFor(samples) > HoldSamples THEN samples
             ELSE Append(samples, v)

\* The history of a gesture grows by what the finger does and by what is misread.
LEMMA Observed ==
  ASSUME NEW down, NEW missed, down = TRUE \/ down = FALSE,
         missed = TRUE \/ missed = FALSE, missed => down,
         G!Observe(down, missed)
  PROVE  /\ \/ down = TRUE /\ missed = FALSE /\ Grows(TRUE)
            \/ missed = TRUE /\ Grows(FALSE)
            \/ down = FALSE /\ missed = FALSE /\ Grows(FALSE)
         /\ finger' = down
         /\ touches' = (IF G!Over(samples) THEN 0 ELSE touches)
                        + (IF down /\ (G!Over(samples) \/ ~finger) THEN 1 ELSE 0)
         /\ misses' = (IF G!Over(samples) THEN 0 ELSE misses)
                       + (IF missed THEN 1 ELSE 0)
         /\ touches' <= MaxTouches /\ misses' <= MaxMisses
<1> DEFINE read == down /\ ~missed
           longer == Append(IF G!Over(samples) THEN <<>> ELSE samples, read)
<1>1. /\ finger' = down
      /\ touches' = (IF G!Over(samples) THEN 0 ELSE touches)
                      + (IF down /\ (G!Over(samples) \/ ~finger) THEN 1 ELSE 0)
      /\ misses' = (IF G!Over(samples) THEN 0 ELSE misses)
                    + (IF missed THEN 1 ELSE 0)
      /\ touches' <= MaxTouches /\ misses' <= MaxMisses
      /\ samples' = IF read /\ ~G!Over(samples) /\ DownFor(samples) > HoldSamples
                      THEN samples ELSE longer
  BY Zenon DEF G!Observe, DownFor
<1>2. read = TRUE \/ read = FALSE
  BY Zenon
<1>3. Grows(read)
  <2>1. CASE G!Over(samples)
    BY <1>1, <2>1, Zenon DEF Grows
  <2>2. CASE ~G!Over(samples)
    BY <1>1, <2>2, Zenon DEF Grows
  <2> QED BY <2>1, <2>2
<1>4. (read = TRUE => Grows(TRUE)) /\ (read = FALSE => Grows(FALSE))
  BY <1>3, Zenon
<1>5. \/ down = TRUE /\ missed = FALSE /\ Grows(TRUE)
      \/ missed = TRUE /\ Grows(FALSE)
      \/ down = FALSE /\ missed = FALSE /\ Grows(FALSE)
  BY <1>4, Zenon
<1> QED BY <1>1, <1>5, Zenon

\* What the samples of a gesture are when one more has been read
LEMMA GrownBy ==
  ASSUME GestureInv, NEW v, v = TRUE \/ v = FALSE, Grows(v)
  PROVE  /\ G!Over(samples) => samples' = Append(<<>>, v)
         /\ ~G!Over(samples) /\ v = FALSE => samples' = Append(samples, v)
         /\ ~G!Over(samples) /\ v = TRUE =>
              \/ samples' = Append(samples, v)
              \/ samples' = samples /\ DownFor(samples) > HoldSamples
         /\ samples' \in Seq(BOOLEAN)
<1>1. /\ G!Over(samples) => samples' = Append(<<>>, v)
      /\ ~G!Over(samples) /\ v = FALSE => samples' = Append(samples, v)
      /\ ~G!Over(samples) /\ v = TRUE =>
              \/ samples' = Append(samples, v)
              \/ samples' = samples /\ DownFor(samples) > HoldSamples
  BY Zenon DEF Grows
<1>2. \/ samples' = Append(<<>>, v) \/ samples' = Append(samples, v)
      \/ samples' = samples
  BY <1>1, Zenon
<1>3. samples' \in Seq(BOOLEAN)
  BY <1>2, Known, NoSamples, AppendPressed, AppendReleased, Zenon
<1> QED BY <1>1, <1>3, Zenon

\* A gesture that has more than a hold of pressed samples ends in one.
LEMMA LongDown ==
  ASSUME GestureInv, ~G!Over(samples), DownFor(samples) > HoldSamples
  PROVE  fsm = "held" /\ Len(samples) \in On(samples)
<1>1. fsm # "idle"
  BY DEF GestureInv, MachineInv, IdleInv
<1>2. fsm # "pressing"
  <2> SUFFICES ASSUME fsm = "pressing" PROVE FALSE
    OBVIOUS
  <2>1. PressingInv
    BY DEF GestureInv, MachineInv
  <2>2. pressSamples # 0 /\ EndsDown(samples, pressSamples)
    BY <2>1 DEF PressingInv
  <2>3. DownFor(samples) = pressSamples
    BY <2>2, EndsPressed, Known, Zenon
  <2> QED BY <2>1, <2>3, Known DEF PressingInv
<1>3. fsm # "wait"
  <2> SUFFICES ASSUME fsm = "wait" PROVE FALSE
    OBVIOUS
  <2>1. WaitInv
    BY DEF GestureInv, MachineInv
  <2>2. waitSamples + 1 # 0 /\ EndsUp(samples, waitSamples + 1)
    BY <2>1 DEF WaitInv
  <2>3. DownFor(samples) = 0
    BY <2>2, EndsReleased, Known, Zenon
  <2> QED BY <2>3, Known
<1>4. fsm = "held"
  BY <1>1, <1>2, <1>3, Known
<1>5. HeldInv
  BY <1>4 DEF GestureInv, MachineInv
<1>6. PICK n : n # 0 /\ EndsDown(samples, n)
  BY <1>5, Known DEF HeldInv
<1>7. Len(samples) \in On(samples)
  BY <1>6, EndsPressed, Known, Zenon
<1> QED BY <1>4, <1>7

\* The machine has the state that stands for its samples again.
LEMMA MachineKept ==
  ASSUME GestureInv, NEW v, v = TRUE \/ v = FALSE, Grows(v),
         G!Idle(v) \/ G!Pressing(v) \/ G!Held(v) \/ G!Wait(v)
  PROVE  MachineInv'
<1>1. CASE G!Idle(v)
  <2>1. G!Over(samples)
    BY <1>1 DEF G!Idle, GestureInv, MachineInv, IdleInv
  <2>2. samples' = Append(<<>>, v)
    BY <2>1, GrownBy, Zenon
  <2> QED BY <1>1, <2>2, IdleStep, Zenon
<1>2. CASE G!Pressing(v)
  <2>1. fsm = "pressing" /\ fsm # "held" /\ fsm # "idle"
    BY <1>2 DEF G!Pressing
  <2>2. samples' = Append(samples, v)
    BY <2>1, GestureGoesOn, GrownBy, LongDown, Zenon
  <2> QED BY <1>2, <2>2, PressingStep, Zenon
<1>3. CASE G!Held(v)
  <2>1. fsm = "held" /\ fsm # "idle"
    BY <1>3 DEF G!Held
  <2>2. ~G!Over(samples)
    BY <2>1, GestureGoesOn, Zenon
  <2>3. samples' = IF v /\ DownFor(samples) > HoldSamples
                     THEN samples ELSE Append(samples, v)
    BY <2>2, Zenon DEF Grows
  <2> QED BY <1>3, <2>3, HeldStep, Zenon
<1>4. CASE G!Wait(v)
  <2>1. fsm = "wait" /\ fsm # "held" /\ fsm # "idle"
    BY <1>4 DEF G!Wait
  <2>2. samples' = Append(samples, v)
    BY <2>1, GestureGoesOn, GrownBy, LongDown, Zenon
  <2> QED BY <1>4, <2>2, WaitStep, Zenon
<1> QED BY <1>1, <1>2, <1>3, <1>4

\* A press is split by nothing but a read that fails.
LEMMA SplitKept ==
  ASSUME GestureInv, NEW down, NEW missed, down = TRUE \/ down = FALSE,
         missed = TRUE \/ missed = FALSE, missed => down,
         G!Observe(down, missed)
  PROVE  SplitInv' /\ touches' \in 0..MaxTouches /\ misses' \in 0..MaxMisses
<1>1. touches \in Nat /\ misses \in Nat /\ MaxTouches \in Nat /\ MaxMisses \in Nat
  BY TimesAssumption DEF GestureInv, G!TypeOK
<1>2. /\ touches' = (IF G!Over(samples) THEN 0 ELSE touches)
                      + (IF down /\ (G!Over(samples) \/ ~finger) THEN 1 ELSE 0)
      /\ misses' = (IF G!Over(samples) THEN 0 ELSE misses)
                    + (IF missed THEN 1 ELSE 0)
      /\ touches' <= MaxTouches /\ misses' <= MaxMisses /\ finger' = down
  BY Observed, Zenon
<1>3. touches' \in 0..MaxTouches /\ misses' \in 0..MaxMisses
  BY <1>1, <1>2
<1>4. samples # <<>> =>
        /\ Len(samples) \in On(samples) =>
             finger /\ G!Presses(samples) <= touches + misses
        /\ Len(samples) \notin On(samples) =>
             /\ G!Presses(samples) <= touches + misses
             /\ finger => G!Presses(samples) + 1 <= touches + misses
  BY <1>1, Known DEF GestureInv, SplitInv
<1>5. CASE down = TRUE /\ missed = FALSE /\ Grows(TRUE)
  <2>1. finger' = TRUE
    BY <1>2, <1>5, Zenon
  <2>2. CASE G!Over(samples)
    <3>1. samples' = Append(<<>>, TRUE)
      BY <1>5, <2>2, GrownBy, Zenon
    <3>2. Len(samples') \in On(samples') /\ G!Presses(samples') = G!Presses(<<>>) + 1
      BY <3>1, NoSamples, AppendPressed, Zenon
    <3>3. touches' = 0 + 1 /\ misses' = 0 + 0
      BY <1>2, <1>5, <2>2, Zenon
    <3>4. G!Presses(samples') <= touches' + misses'
      BY <3>2, <3>3, NoSamples
    <3> QED BY <1>3, <2>1, <3>2, <3>4, Zenon DEF SplitInv
  <2>3. CASE ~G!Over(samples)
    <3>1. samples # <<>>
      BY <2>3, NoSamples, Readings, Zenon
    <3>2. /\ finger => touches' = touches + 0
          /\ ~finger => touches' = touches + 1
          /\ misses' = misses + 0
      BY <1>2, <1>5, <2>3, Zenon
    <3>3. CASE samples' = samples /\ DownFor(samples) > HoldSamples
      <4>1. Len(samples) \in On(samples) /\ G!Presses(samples) <= touches + misses
        BY <1>4, <2>3, <3>1, <3>3, LongDown, Zenon
      <4>2. G!Presses(samples) <= touches' + misses'
        BY <1>1, <3>2, <4>1, Known
      <4> QED BY <1>3, <2>1, <3>3, <4>1, <4>2, Zenon DEF SplitInv
    <3>4. CASE samples' = Append(samples, TRUE)
      <4>1. /\ Len(samples') \in On(samples')
            /\ Len(samples) \in On(samples) => G!Presses(samples') = G!Presses(samples)
            /\ Len(samples) \notin On(samples) =>
                 G!Presses(samples') = G!Presses(samples) + 1
        BY <3>4, Known, AppendPressed, Zenon
      <4>2. G!Presses(samples') <= touches' + misses'
        BY <1>1, <1>4, <3>1, <3>2, <4>1, Known
      <4> QED BY <1>3, <2>1, <4>1, <4>2, Zenon DEF SplitInv
    <3> QED BY <1>5, <2>3, <3>3, <3>4, GrownBy, Zenon
  <2> QED BY <2>2, <2>3
<1>6. ASSUME Grows(FALSE), missed = TRUE \/ down = FALSE PROVE SplitInv'
  <2>1. G!Presses(samples') + (IF finger' THEN 1 ELSE 0) <= touches' + misses'
    <3>1. CASE G!Over(samples)
      <4>1. samples' = Append(<<>>, FALSE)
        BY <1>6, <3>1, GrownBy, Zenon
      <4>2. G!Presses(samples') = 0
        BY <4>1, NoSamples, AppendReleased, Zenon
      <4>3. /\ finger' => touches' = 0 + 1
            /\ ~finger' => touches' = 0 + 0
            /\ misses' = 0 + 1 \/ misses' = 0 + 0
        BY <1>2, <3>1, Zenon
      <4> QED BY <4>2, <4>3
    <3>2. CASE ~G!Over(samples)
      <4>1. samples # <<>>
        BY <3>2, NoSamples, Readings, Zenon
      <4>2. samples' = Append(samples, FALSE)
        BY <1>6, <3>2, GrownBy, Zenon
      <4>3. G!Presses(samples') = G!Presses(samples)
        BY <4>2, Known, AppendReleased, Zenon
      <4>4. /\ finger' /\ ~finger => touches' = touches + 1
            /\ ~finger' \/ finger => touches' = touches + 0
            /\ finger' => misses' = misses + 1
            /\ misses' = misses + 0 \/ misses' = misses + 1
        BY <1>2, <1>6, <3>2, Zenon
      <4> QED BY <1>1, <1>4, <4>1, <4>3, <4>4, Known
    <3> QED BY <3>1, <3>2
  <2>2. Len(samples') \notin On(samples')
    <3>1. samples' = Append(<<>>, FALSE) \/ samples' = Append(samples, FALSE)
      BY <1>6, GrownBy, Zenon
    <3> QED BY <3>1, NoSamples, Known, AppendReleased, Zenon
  <2> QED BY <2>1, <2>2, Zenon DEF SplitInv
<1>7. \/ down = TRUE /\ missed = FALSE /\ Grows(TRUE)
      \/ missed = TRUE /\ Grows(FALSE)
      \/ down = FALSE /\ missed = FALSE /\ Grows(FALSE)
  BY Observed, Zenon
<1> QED BY <1>3, <1>5, <1>6, <1>7

\* A count below two bounded ones
LEMMA BoundedSum ==
  ASSUME NEW p \in Nat, NEW q \in Nat, NEW a \in 0..p, NEW b \in 0..q,
         NEW c \in Nat, NEW d, c = d \/ c + 1 = d, d <= a + b
  PROVE  c \in 0..(p + q)
OBVIOUS

HistoryTyped == samples \in Seq(BOOLEAN) /\ touches \in Nat /\ misses \in Nat
PressesMade ==
  G!Presses(samples) \in Nat /\ G!Presses(samples) <= touches + misses

\* The presses read are at most the touches and the missed reads.
LEMMA PressesAreMade == SplitInv /\ HistoryTyped => PressesMade
<1> SUFFICES ASSUME SplitInv, samples \in Seq(BOOLEAN), touches \in Nat, misses \in Nat
             PROVE  PressesMade
  BY DEF HistoryTyped
<1>1. G!Presses(samples) \in Nat
  <2>1. \E t : t = Append(samples, TRUE)
    OBVIOUS
  <2> QED BY <2>1, AppendPressed, Zenon
<1>2. CASE samples = <<>>
  BY <1>1, <1>2, NoSamples DEF PressesMade
<1>3. CASE samples # <<>>
  BY <1>1, <1>3 DEF SplitInv, PressesMade
<1> QED BY <1>1, <1>2, <1>3

\* The same after a step
LEMMA PressesAreMadeNext == SplitInv' /\ HistoryTyped' => PressesMade'
BY PressesAreMade, PTL

\* The counters stay in their ranges: a click counted is a press of the samples.
LEMMA TypesKept ==
  ASSUME GestureInv, MachineInv', SplitInv', samples' \in Seq(BOOLEAN),
         touches' \in 0..MaxTouches, misses' \in 0..MaxMisses, finger' \in BOOLEAN,
         NEW v, v = TRUE \/ v = FALSE,
         G!Idle(v) \/ G!Pressing(v) \/ G!Held(v) \/ G!Wait(v)
  PROVE  G!TypeOK'
<1>1. /\ pressSamples \in 0..HoldSamples /\ waitSamples \in 0..ClickWindow
      /\ clickCount \in Nat /\ MaxTouches \in Nat /\ MaxMisses \in Nat
      /\ HoldSamples \in Nat \ {0, 1} /\ ClickWindow \in Nat \ {0}
  BY TimesAssumption DEF GestureInv, G!TypeOK
<1>2. /\ fsm' \in {"idle", "pressing", "held", "wait"} /\ act' \in G!Actions
      /\ clickCount' \in Nat
      /\ fsm' = "pressing" \/ fsm' = "held" \/ pressSamples' \in {0, pressSamples}
      /\ waitSamples' \in 0..ClickWindow
  <2>1. CASE G!Idle(v)
    BY <1>1, <2>1, Known DEF G!Idle, G!StartPress, G!Actions
  <2>2. CASE G!Pressing(v)
    BY <1>1, <2>2, Known DEF G!Pressing, G!Actions
  <2>3. CASE G!Held(v)
    BY <1>1, <2>3, Known DEF G!Held, G!Actions
  <2>4. CASE G!Wait(v)
    <3>1. fsm = "wait" /\ waitSamples \in 0..(ClickWindow - 1)
      BY <2>4 DEF G!Wait, GestureInv, MachineInv, WaitInv
    <3> QED BY <1>1, <2>4, <3>1, Known DEF G!Wait, G!StartPress, G!Actions, G!Dispatch
  <2> QED BY <2>1, <2>2, <2>3, <2>4
<1>3. pressSamples' \in 0..HoldSamples
  BY <1>1, <1>2 DEF MachineInv, PressingInv, HeldInv
<1>4. G!Presses(samples') <= touches' + misses'
  <2>1. HistoryTyped'
    BY <1>1 DEF HistoryTyped
  <2> QED BY <2>1, PressesAreMadeNext DEF PressesMade
<1>5. clickCount' \in 0..(MaxTouches + MaxMisses)
  <2>1. CASE fsm' = "pressing"
    <3>1. clickCount' + 1 = G!Presses(samples')
      BY <2>1 DEF MachineInv, PressingInv
    <3> QED BY <1>1, <1>2, <1>4, <3>1, BoundedSum, Zenon
  <2>2. CASE fsm' = "wait"
    <3>1. clickCount' = G!Presses(samples')
      BY <2>2 DEF MachineInv, WaitInv
    <3> QED BY <1>1, <1>2, <1>4, <3>1, BoundedSum, Zenon
  <2>3. CASE fsm' = "idle"
    BY <1>1, <2>3 DEF MachineInv, IdleInv
  <2>4. CASE fsm' = "held"
    BY <1>1, <2>4 DEF MachineInv, HeldInv
  <2> QED BY <1>2, <2>1, <2>2, <2>3, <2>4
<1> QED BY <1>2, <1>3, <1>5 DEF G!TypeOK

\* A sample that reads as v, and the case of button_check that takes it
Takes(v) ==
  /\ v = TRUE \/ v = FALSE
  /\ Grows(v)
  /\ G!Idle(v) \/ G!Pressing(v) \/ G!Held(v) \/ G!Wait(v)

\* Whatever the finger and the read do, a sample is pressed or released.
LEMMA SampleTaken == G!Check => \E v : Takes(v)
<1> SUFFICES ASSUME G!Check PROVE \E v : Takes(v)
  OBVIOUS
<1>1. PICK down \in BOOLEAN, missed \in BOOLEAN :
        /\ missed => down
        /\ G!Observe(down, missed)
        /\ \/ G!Idle(down /\ ~missed) \/ G!Pressing(down /\ ~missed)
           \/ G!Held(down /\ ~missed) \/ G!Wait(down /\ ~missed)
  BY Zenon DEF G!Check
<1>2. (down = TRUE \/ down = FALSE) /\ (missed = TRUE \/ missed = FALSE)
  BY Zenon
<1>3. CASE down = TRUE /\ missed = FALSE /\ Grows(TRUE)
  <2>1. (down /\ ~missed) = TRUE
    BY <1>3, Zenon
  <2> QED BY <1>1, <1>3, <2>1, Zenon DEF Takes
<1>4. CASE (missed = TRUE \/ down = FALSE) /\ Grows(FALSE)
  <2>1. (down /\ ~missed) = FALSE
    BY <1>4, Zenon
  <2> QED BY <1>1, <1>4, <2>1, Zenon DEF Takes
<1> QED BY <1>1, <1>2, <1>3, <1>4, Observed, Zenon

\* A call of button_check (button_functions.cpp) keeps the invariant of the gestures.
LEMMA CheckKeeps == GestureInv /\ G!Check => GestureInv'
<1> SUFFICES ASSUME GestureInv, G!Check PROVE GestureInv'
  OBVIOUS
<1>1. PICK down \in BOOLEAN, missed \in BOOLEAN :
        /\ missed => down
        /\ G!Observe(down, missed)
        /\ \/ G!Idle(down /\ ~missed) \/ G!Pressing(down /\ ~missed)
           \/ G!Held(down /\ ~missed) \/ G!Wait(down /\ ~missed)
  BY Zenon DEF G!Check
<1>2. (down = TRUE \/ down = FALSE) /\ (missed = TRUE \/ missed = FALSE)
  BY Zenon
<1>3. /\ SplitInv' /\ touches' \in 0..MaxTouches /\ misses' \in 0..MaxMisses
      /\ finger' = down
  BY <1>1, <1>2, SplitKept, Observed, Zenon
<1>4. PICK v : Takes(v)
  BY SampleTaken, Zenon
<1>5. MachineInv' /\ samples' \in Seq(BOOLEAN)
  BY <1>4, MachineKept, GrownBy, Zenon DEF Takes
<1>6. finger' \in BOOLEAN
  BY <1>3, Zenon
<1>7. G!TypeOK'
  BY <1>3, <1>4, <1>5, <1>6, TypesKept, Zenon DEF Takes
<1> QED BY <1>3, <1>5, <1>7, Zenon DEF GestureInv

NoGesture ==
  /\ fsm = "idle" /\ pressSamples = 0 /\ waitSamples = 0 /\ clickCount = 0
  /\ act = "none" /\ samples = <<>> /\ finger = FALSE /\ touches = 0 /\ misses = 0

\* At the start there are no samples and no gesture.
LEMMA StartGesture == NoGesture => GestureInv
<1> SUFFICES ASSUME NoGesture PROVE GestureInv
  OBVIOUS
<1>0. /\ fsm = "idle" /\ pressSamples = 0 /\ waitSamples = 0 /\ clickCount = 0
      /\ act = "none" /\ samples = <<>> /\ touches = 0 /\ misses = 0
      /\ ~finger /\ finger \in BOOLEAN
  BY Zenon DEF NoGesture
<1>1. G!TypeOK
  <2>1. finger \in BOOLEAN /\ samples \in Seq(BOOLEAN)
    BY <1>0, NoSamples, Zenon
  <2>2. /\ fsm \in {"idle", "pressing", "held", "wait"} /\ act \in G!Actions
        /\ pressSamples \in 0..HoldSamples /\ waitSamples \in 0..ClickWindow
        /\ clickCount \in 0..(MaxTouches + MaxMisses)
        /\ touches \in 0..MaxTouches /\ misses \in 0..MaxMisses
    BY <1>0, TimesAssumption DEF G!Actions
  <2> QED BY <2>1, <2>2, Zenon DEF G!TypeOK
<1>2. G!Over(samples)
  BY <1>0, NoSamples, Readings, Zenon
<1>3. G!ActionOf(samples) = "none"
  <2>1. EndsDown(<<>>, 0)
    BY NoSamples DEF RunOf, EndsDown
  <2>2. DownFor(samples) = 0
    BY <1>0, <2>1, NoSamples, RunIsTrailing, Zenon DEF EndsDown, DownFor
  <2>3. G!Presses(samples) = 0
    BY <1>0, NoSamples, Zenon
  <2> QED BY <2>2, <2>3, Readings, TimesAssumption
<1>4. SplitInv
  BY <1>0, Zenon DEF SplitInv
<1>5. MachineInv
  BY <1>0, <1>2, <1>3 DEF MachineInv, IdleInv
<1> QED BY <1>1, <1>4, <1>5, Zenon DEF GestureInv

-----------------------------------------------------------------------------
(* Types of the settings and of the flash                                  *)

\* Every default is in the range of its field, and every range is one of bytes.
LEMMA SettingsAreBytes ==
  ASSUME NEW f \in M!Names
  PROVE  M!Default[f] \in M!Legal[f] /\ M!Legal[f] \subseteq 0..255
<1> DEFINE other == f \notin {"config_version", "haptics_gain", "speaker_volume",
        "headset_volume", "speaker_gain", "inactive_time", "polling_rate_mode",
        "controller_mode", "audio_buffer_length", "trigger_reduce"}
<1> USE DEF M!Legal, M!Default, M!Volumes, M!ConfigVersion
<1>1. CASE other
  BY <1>1
<1>2. CASE f \in {"config_version", "haptics_gain"}
  BY <1>2
<1>3. CASE f \in {"speaker_volume", "headset_volume"}
  BY <1>3
<1>4. CASE f \in {"speaker_gain", "inactive_time", "polling_rate_mode"}
  BY <1>4
<1>5. CASE f \in {"controller_mode", "audio_buffer_length", "trigger_reduce"}
  BY <1>5
<1> QED BY <1>1, <1>2, <1>3, <1>4, <1>5

\* config_valid makes legal settings of any body (config.cpp).
LEMMA ValidIsLegal ==
  ASSUME NEW b
  PROVE  /\ M!Valid(b) \in M!AnyBody
         /\ \A f \in M!Names : M!Valid(b)[f] \in M!Legal[f]
<1> DEFINE c == IF b["config_version"] = M!ConfigVersion THEN b ELSE M!Ones
<1>1. M!Valid(b) = [f \in M!Names |-> IF c[f] \in M!Legal[f] THEN c[f] ELSE M!Default[f]]
  BY Zenon DEF M!Valid
<1> HIDE DEF c
<1>2. \A f \in M!Names : M!Valid(b)[f] \in M!Legal[f]
  BY <1>1, SettingsAreBytes
<1>3. \A f \in M!Names : M!Valid(b)[f] \in 0..255
  BY <1>2, SettingsAreBytes
<1> QED BY <1>1, <1>2, <1>3 DEF M!AnyBody

Pages == [mode : M!Modes \cup {M!NoMode}, body : M!AnyBody]

\* What is written to the sector, and what a failed write leaves, is a page.
LEMMA PagesAreTyped ==
  ASSUME M!TypeOK
  PROVE  {M!Page, M!ErasedPage} \cup M!Damaged \subseteq Pages
<1>1. M!Ones \in M!AnyBody
  BY DEF M!Ones, M!AnyBody
<1>2. M!Page \in Pages
  BY DEF M!TypeOK, M!Page, Pages
<1>3. M!ErasedPage \in Pages
  BY <1>1 DEF M!ErasedPage, Pages
<1>4. [M!Page EXCEPT !.body = M!Ones] \in Pages
  BY <1>1, <1>2 DEF Pages
<1> QED BY <1>2, <1>3, <1>4 DEF M!Damaged

\* config_load makes a mode and legal settings of any page.
LEMMA LoadIsTyped ==
  ASSUME NEW page \in Pages, M!LoadFrom(page), spoilt' = FALSE
  PROVE  M!TypeOK'
<1>1. /\ body' \in M!AnyBody
      /\ \A f \in M!Names : body'[f] \in M!Legal[f]
  BY ValidIsLegal DEF M!LoadFrom
<1>2. pending' \in BOOLEAN /\ spoilt' \in BOOLEAN
  BY Zenon DEF M!LoadFrom
<1>3. /\ active' \in M!Modes /\ ramMode' \in M!Modes /\ wait' \in 0..Retry
      /\ flash' \in Pages /\ saving' \in {"no", "toggle", "retry", "host"}
  BY TimesAssumption DEF M!LoadFrom, M!LoadedMode, M!Modes, M!DualSense, M!SwitchProMode
<1> QED BY <1>1, <1>2, <1>3, Zenon DEF M!TypeOK, Pages

\* So does it of the page the bridge first starts from.
LEMMA ModesStartTyped == ASSUME M!Init PROVE M!TypeOK
<1>1. /\ body \in M!AnyBody
      /\ \A f \in M!Names : body[f] \in M!Legal[f]
  BY ValidIsLegal DEF M!Init
<1>2. pending \in BOOLEAN /\ spoilt \in BOOLEAN
  BY Zenon DEF M!Init
<1>3. flash \in [mode : M!Modes \cup {M!NoMode}, body : M!AnyBody]
  BY BodiesAssumption DEF M!Init, M!ErasedPage, M!Ones, M!AnyBody, M!Modes
<1>4. /\ active \in M!Modes /\ ramMode \in M!Modes /\ wait \in 0..Retry
      /\ saving \in {"no", "toggle", "retry", "host"}
  BY TimesAssumption DEF M!Init, M!LoadedMode, M!Modes, M!DualSense, M!SwitchProMode
<1> QED BY <1>1, <1>2, <1>3, <1>4, Zenon DEF M!TypeOK

\* A change of mode, with a flash that takes the write or refuses it
LEMMA ToggleTyped == ASSUME M!TypeOK, M!Toggle PROVE M!TypeOK'
<1>1. active' \in M!Modes
  BY DEF M!Toggle, M!Modes, M!DualSense, M!SwitchProMode
<1>2. M!ErasedPage \in [mode : M!Modes \cup {M!NoMode}, body : M!AnyBody]
  BY PagesAreTyped DEF Pages
<1>3. pending' \in BOOLEAN
  BY Zenon DEF M!Toggle, M!SaveFailed, M!TypeOK
<1>4. /\ ramMode' = active' /\ UNCHANGED <<body, spoilt>>
      /\ wait' = wait \/ wait' = Retry
      /\ flash' = flash \/ flash' = M!ErasedPage
      /\ saving' = saving \/ saving' = "toggle"
  BY DEF M!Toggle, M!SaveFailed, M!BeginSave
<1> QED BY <1>1, <1>2, <1>3, <1>4, TimesAssumption DEF M!TypeOK

\* A power cut leaves one of the pages above.
LEMMA RebootTyped == ASSUME M!TypeOK, M!Reboot PROVE M!TypeOK'
<1>1. PICK page \in {flash} \cup {M!Page} \cup M!Damaged :
        M!LoadFrom(page) /\ spoilt' = FALSE
  BY Zenon DEF M!Reboot
<1>2. flash \in Pages
  BY DEF M!TypeOK, Pages
<1>3. page \in Pages
  BY <1>1, <1>2, PagesAreTyped
<1> QED BY <1>1, <1>3, LoadIsTyped, Zenon

\* The steps of usb_mode_task, of the host and of the flash
LEMMA FirmwareTyped == ASSUME M!TypeOK, Firmware PROVE M!TypeOK'
<1>1. /\ M!ErasedPage \in [mode : M!Modes \cup {M!NoMode}, body : M!AnyBody]
      /\ M!Page \in [mode : M!Modes \cup {M!NoMode}, body : M!AnyBody]
      /\ M!Damaged \subseteq [mode : M!Modes \cup {M!NoMode}, body : M!AnyBody]
      /\ Retry \in Nat
  BY PagesAreTyped, TimesAssumption DEF Pages
<1>2. CASE M!Task
  <2>1. pending' \in BOOLEAN
    BY <1>2, Zenon DEF M!Task, M!SaveFailed, M!TypeOK
  <2>2. /\ UNCHANGED <<active, ramMode, body, spoilt>>
        /\ wait' = wait \/ wait' = Retry
        /\ flash' = flash \/ flash' = M!ErasedPage
        /\ saving' = saving \/ saving' = "retry"
    BY <1>2 DEF M!Task, M!SaveFailed, M!BeginSave
  <2> QED BY <1>1, <2>1, <2>2 DEF M!TypeOK
<1>3. CASE M!Tick
  BY <1>1, <1>3 DEF M!Tick, M!TypeOK
<1>4. CASE M!HostSetsConfig
  <2>1. body' \in M!AnyBody /\ \A f \in M!Names : body'[f] \in M!Legal[f]
    BY <1>4, ValidIsLegal DEF M!HostSetsConfig, M!SetConfig
  <2> QED BY <1>4, <2>1 DEF M!HostSetsConfig, M!TypeOK
<1>5. CASE M!HostSetsVolume
  BY <1>5 DEF M!HostSetsVolume, M!TypeOK, M!AnyBody, M!TooLoud
<1>6. CASE M!HostSaves
  BY <1>1, <1>6 DEF M!HostSaves, M!TypeOK, M!BeginSave, M!ramVars
<1>7. CASE M!Programmed
  <2>1. pending' \in BOOLEAN /\ spoilt' \in BOOLEAN
    BY <1>7, Zenon DEF M!Programmed
  <2>2. /\ saving' = "no" /\ flash' = M!Page
        /\ UNCHANGED <<active, ramMode, body, wait>>
    BY <1>7 DEF M!Programmed
  <2> QED BY <1>1, <2>1, <2>2 DEF M!TypeOK
<1>8. CASE M!Misprogrammed
  <2>1. pending' \in BOOLEAN /\ spoilt' \in BOOLEAN
    BY <1>8, Zenon DEF M!Misprogrammed, M!SaveFailed, M!TypeOK
  <2>2. /\ saving' = "no" /\ flash' \in M!Damaged
        /\ wait' = wait \/ wait' = Retry
        /\ UNCHANGED <<active, ramMode, body>>
    BY <1>8 DEF M!Misprogrammed, M!SaveFailed
  <2> QED BY <1>1, <2>1, <2>2 DEF M!TypeOK
<1> QED BY <1>2, <1>3, <1>4, <1>5, <1>6, <1>7, <1>8 DEF Firmware

-----------------------------------------------------------------------------
(* Gestures, mode and flash together                                       *)

PanelInv == GestureInv /\ M!TypeOK

\* The same after a step
LEMMA StartGestureNext == NoGesture' => GestureInv'
BY StartGesture, PTL

\* The bridge starts typed and without a gesture.
LEMMA PanelStarts == Init => PanelInv
<1> SUFFICES ASSUME Init PROVE PanelInv
  OBVIOUS
<1>1. NoGesture
  BY Zenon DEF Init, G!Init, NoGesture
<1> QED BY <1>1, StartGesture, ModesStartTyped, Zenon DEF Init, PanelInv

\* What the host, the flash and the clock do leaves the button alone.
LEMMA FirmwareKeepsGesture ==
  ASSUME GestureInv, UNCHANGED buttonVars PROVE GestureInv'
<1>1. /\ UNCHANGED <<fsm, pressSamples, waitSamples, clickCount, act>>
      /\ UNCHANGED <<samples, finger, touches, misses>>
  BY Zenon DEF buttonVars
<1>2. G!TypeOK'
  BY <1>1, Zenon DEF GestureInv, G!TypeOK
<1>3. MachineInv'
  BY <1>1, Zenon DEF GestureInv, MachineInv, IdleInv, PressingInv, WaitInv, HeldInv
<1>4. SplitInv'
  BY <1>1, Zenon DEF GestureInv, SplitInv
<1> QED BY <1>2, <1>3, <1>4, Zenon DEF GestureInv

\* Samples, changes of mode, restarts and everything else keep the invariant.
LEMMA PanelSteps == PanelInv /\ [Next]_vars => PanelInv'
<1> SUFFICES ASSUME PanelInv, [Next]_vars PROVE PanelInv'
  OBVIOUS
<1>0. GestureInv /\ M!TypeOK
  BY Zenon DEF PanelInv
<1>1. ASSUME UNCHANGED modeVars PROVE M!TypeOK'
  BY <1>0, <1>1, Zenon DEF modeVars, M!TypeOK
<1>2. CASE Press
  <2>1. GestureInv'
    BY <1>0, <1>2, CheckKeeps, Zenon DEF Press
  <2>2. M!TypeOK'
    BY <1>0, <1>1, <1>2, ToggleTyped, Zenon DEF Press
  <2> QED BY <2>1, <2>2, Zenon DEF PanelInv
<1>3. CASE Restart
  <2>1. NoGesture'
    BY <1>3, Zenon DEF Restart, NoGesture
  <2>2. M!TypeOK'
    BY <1>0, <1>3, RebootTyped, Zenon DEF Restart
  <2> QED BY <2>1, <2>2, StartGestureNext, Zenon DEF PanelInv
<1>4. CASE Firmware
  BY <1>0, <1>4, FirmwareKeepsGesture, FirmwareTyped, Zenon DEF PanelInv, Firmware
<1>5. CASE UNCHANGED vars
  BY <1>0, <1>1, <1>5, FirmwareKeepsGesture, Zenon DEF PanelInv, vars
<1> QED BY <1>2, <1>3, <1>4, <1>5, Zenon DEF Next, TripleClick, PowerCut

\* It holds in every state the bridge can reach.
LEMMA PanelInvariance == Spec => []PanelInv
BY PanelStarts, PanelSteps, PTL DEF Spec

\* The gesture, its counters, the settings in RAM and the page in flash keep
\* their types: whatever the host sends and whatever a page holds, the settings
\* in RAM are legal (config_valid), the volumes aside.
THEOREM TypeCorrect == Spec => []TypeOK
<1>1. PanelInv => TypeOK
  BY Zenon DEF PanelInv, GestureInv, TypeOK
<1> QED BY <1>1, PanelInvariance, PTL

\* In each state of button_fsm the last sample has set off what the samples of
\* the gesture stand for.
LEMMA ReadIsDone == GestureInv => act = G!ActionOf(samples)
<1> SUFFICES ASSUME GestureInv PROVE act = G!ActionOf(samples)
  OBVIOUS
<1>1. CASE fsm = "idle"
  BY <1>1 DEF GestureInv, MachineInv, IdleInv
<1>2. CASE fsm = "pressing"
  <2>1. PressingInv
    BY <1>2 DEF GestureInv, MachineInv
  <2>2. pressSamples # 0 /\ EndsDown(samples, pressSamples)
    BY <2>1 DEF PressingInv
  <2>3. DownFor(samples) = pressSamples /\ UpFor(samples) = 0
    BY <2>2, EndsPressed, Known, Zenon
  <2> QED BY <2>1, <2>3, Known, Readings DEF PressingInv
<1>3. CASE fsm = "wait"
  <2>1. WaitInv
    BY <1>3 DEF GestureInv, MachineInv
  <2>2. waitSamples + 1 # 0 /\ EndsUp(samples, waitSamples + 1)
    BY <2>1 DEF WaitInv
  <2>3. UpFor(samples) = waitSamples + 1 /\ DownFor(samples) = 0
    BY <2>2, EndsReleased, Known, Zenon
  <2> QED BY <2>1, <2>3, Known, Readings DEF WaitInv
<1>4. CASE fsm = "held"
  <2>1. HeldInv
    BY <1>4 DEF GestureInv, MachineInv
  <2>2. PICK n : /\ n # 0 /\ EndsDown(samples, n)
                 /\ act = (IF n = HoldSamples THEN "hold" ELSE "none")
    BY <2>1, Known DEF HeldInv
  <2>3. DownFor(samples) = n
    BY <2>2, EndsPressed, Known, Zenon
  <2> QED BY <2>1, <2>2, <2>3, Known, Readings DEF HeldInv
<1> QED BY <1>1, <1>2, <1>3, <1>4, Known

\* A sample sets off exactly the action its gesture stands for, whatever the
\* order of presses, pauses and failed reads (button_check): no click is lost or
\* counted twice and no hold ends in a click.
THEOREM ActionsAreRead == Spec => []ActionIsWhatWasRead
<1>1. PanelInv => ActionIsWhatWasRead
  BY ReadIsDone, Zenon DEF PanelInv, ActionIsWhatWasRead, G!ActionIsWhatWasRead
<1> QED BY <1>1, PanelInvariance, PTL

\* The clicks counted are at most the touches of the finger plus the failed
\* reads (button_read_bootsel): one undisturbed press never changes the mode.
THEOREM PressesAreNotSplit == Spec => []SplitsNeedMissedReads
<1>1. PanelInv => SplitsNeedMissedReads
  <2> SUFFICES ASSUME GestureInv PROVE G!SplitsNeedMissedReads
    BY Zenon DEF PanelInv, SplitsNeedMissedReads
  <2>1. G!Presses(samples) \in Nat /\ G!Presses(samples) <= touches + misses
    <3>1. HistoryTyped /\ SplitInv
      BY DEF GestureInv, G!TypeOK, HistoryTyped
    <3> QED BY <3>1, PressesAreMade DEF PressesMade
  <2>2. touches \in Nat /\ misses \in Nat
    BY DEF GestureInv, G!TypeOK
  <2>3. clickCount <= G!Presses(samples)
    <3>1. CASE fsm = "idle"
      BY <2>1, <3>1 DEF GestureInv, MachineInv, IdleInv
    <3>2. CASE fsm = "held"
      BY <2>1, <3>2 DEF GestureInv, MachineInv, HeldInv
    <3>3. CASE fsm = "pressing"
      BY <2>1, <3>3, Known DEF GestureInv, MachineInv, PressingInv
    <3>4. CASE fsm = "wait"
      BY <2>1, <3>4, Known DEF GestureInv, MachineInv, WaitInv
    <3> QED BY <3>1, <3>2, <3>3, <3>4, Known
  <2>4. act = "toggle" => G!Presses(samples) = 2
    BY ReadIsDone, Readings
  <2>5. act = "boot" => G!Presses(samples) > 2
    BY <2>1, ReadIsDone, Readings
  <2> QED BY <2>1, <2>2, <2>3, <2>4, <2>5, Known DEF G!SplitsNeedMissedReads
<1> QED BY <1>1, PanelInvariance, PTL

\* The double click closes its window with a sample of its own.
LEMMA ToggleIsNew ==
  ASSUME GestureInv, G!Check, act' = "toggle"
  PROVE  samples' # samples
<1>1. PICK v : Takes(v)
  BY SampleTaken, Zenon
<1>2. G!Wait(v)
  BY <1>1 DEF Takes, G!Idle, G!Pressing, G!Held
<1>3. fsm = "wait" /\ fsm # "held" /\ fsm # "idle"
  BY <1>2 DEF G!Wait
<1>4. samples' = Append(samples, v) /\ v \in BOOLEAN
  BY <1>1, <1>3, GestureGoesOn, GrownBy, LongDown, Zenon DEF Takes
<1>5. Len(samples') = Len(samples) + 1 /\ Len(samples) \in Nat
  BY <1>4, Known, AppendProperties, LenProperties, Zenon
<1> QED BY <1>5

\* The mode changes at every double click and, restarts aside, at nothing else
\* (button_dispatch, usb_mode_toggle_and_reconnect).
THEOREM ModeChangesOnlyByDoubleClick == Spec => ModeChangesByDoubleClick
<1> DEFINE A == samples' # <<>> =>
       (active' # active <=> samples' # samples /\ G!ActionOf(samples') = "toggle")
<1>0. GestureInv' => ActionIsWhatWasRead'
  <2>1. GestureInv => ActionIsWhatWasRead
    BY ReadIsDone, Zenon DEF ActionIsWhatWasRead, G!ActionIsWhatWasRead
  <2> QED BY <2>1, PTL
<1>1. PanelInv /\ [Next]_vars => [A]_vars
  <2> SUFFICES ASSUME PanelInv, Next PROVE A
    OBVIOUS
  <2>1. CASE Press
    <3>1. act' = G!ActionOf(samples')
      BY <2>1, <1>0, CheckKeeps, Zenon DEF Press, PanelInv,
           ActionIsWhatWasRead, G!ActionIsWhatWasRead
    <3>2. CASE act' = "toggle"
      <4>1. active' # active
        BY <2>1, <3>2 DEF Press, M!Toggle, M!SwitchProMode, M!DualSense
      <4>2. samples' # samples
        BY <2>1, <3>2, ToggleIsNew, Zenon DEF Press, PanelInv
      <4> QED BY <3>1, <3>2, <4>1, <4>2, Zenon
    <3>3. CASE act' # "toggle"
      <4>1. active' = active
        BY <2>1, <3>3, Zenon DEF Press, modeVars
      <4> QED BY <3>1, <3>3, <4>1, Zenon
    <3> QED BY <3>2, <3>3
  <2>2. CASE Restart
    BY <2>2, Zenon DEF Restart
  <2>3. CASE Firmware
    <3>1. samples' = samples
      BY <2>3, Zenon DEF Firmware, buttonVars
    <3>2. active' = active
      BY <2>3 DEF Firmware, M!Task, M!Tick, M!HostSetsConfig, M!HostSetsVolume,
                  M!HostSaves, M!ramVars, M!Programmed, M!Misprogrammed
    <3> QED BY <3>1, <3>2, Zenon
  <2> QED BY <2>1, <2>2, <2>3, Zenon DEF Next, TripleClick, PowerCut
<1> QED BY <1>1, PanelInvariance, PTL DEF ModeChangesByDoubleClick, Spec

-----------------------------------------------------------------------------
(* The mode and its page                                                   *)

\* What the modes and the page have to be for the invariant to be kept
ModesAgree == active \in M!Modes /\ ramMode = active

IInv == ModesAgree /\ ModeSurvivesPowerCut

-----------------------------------------------------------------------------
(* Lemmas about pages                                                      *)

\* What config_load makes of any page is a mode (config.cpp:142-146).
LEMMA LoadedIsMode ==
  ASSUME NEW page PROVE M!LoadedMode(page) \in M!Modes
BY DEF M!LoadedMode, M!Modes, M!DualSense, M!SwitchProMode

\* A page written by config_save is loaded as the mode it was written from.
LEMMA PageKeepsMode ==
  ASSUME ModesAgree PROVE M!LoadedMode(M!Page) = active
BY DEF ModesAgree, M!LoadedMode, M!Page

-----------------------------------------------------------------------------
(* The stored mode                                                         *)

\* The mode is loaded from the page the bridge starts from.
LEMMA InitEstablishes == Init => IInv
<1>1. ASSUME Init PROVE IInv
  <2>1. ramMode = M!LoadedMode(flash) /\ active = ramMode
    BY <1>1 DEF Init, M!Init
  <2>2. active \in M!Modes
    BY <2>1, LoadedIsMode
  <2> QED BY <2>1, <2>2 DEF IInv, ModesAgree, ModeSurvivesPowerCut, M!ModeSurvivesPowerCut
<1> QED BY <1>1

\* A start from any page, whatever was being written
LEMMA RestartPreserves == ASSUME Restart PROVE IInv'
<1>1. PICK page : M!LoadFrom(page)
  BY DEF Restart, M!Reboot
<1>2. ramMode' = M!LoadedMode(page) /\ active' = ramMode' /\ flash' = page
  BY <1>1 DEF M!LoadFrom
<1>3. active' \in M!Modes
  BY <1>2, LoadedIsMode
<1>4. M!LoadedMode(flash') = active'
  BY <1>2
<1> QED BY <1>2, <1>3, <1>4 DEF IInv, ModesAgree, ModeSurvivesPowerCut,
                                M!ModeSurvivesPowerCut, M!LoadedMode, M!Modes,
                                M!DualSense, M!SwitchProMode

\* A change of mode: the save is owed, or the sector is being written
LEMMA TogglePreserves == ASSUME M!Toggle PROVE IInv'
<1>1. active' \in M!Modes /\ ramMode' = active'
  BY DEF M!Toggle, M!Modes, M!DualSense, M!SwitchProMode
<1>2. pending' \/ saving' = "toggle"
  BY DEF M!Toggle, M!SaveFailed, M!BeginSave
<1> QED BY <1>1, <1>2 DEF IInv, ModesAgree, ModeSurvivesPowerCut,
                          M!ModeSurvivesPowerCut, M!Modes, M!DualSense,
                          M!SwitchProMode

\* Only a finished save makes the two agree again, and it writes the active mode.
LEMMA StepPreserves == IInv /\ [Next]_vars => IInv'
<1> SUFFICES ASSUME IInv, [Next]_vars PROVE IInv'
  OBVIOUS
<1> USE DEF IInv, ModesAgree, ModeSurvivesPowerCut, M!ModeSurvivesPowerCut,
            M!LoadedMode, M!Modes, M!DualSense, M!SwitchProMode
<1>1. CASE Press
  <2>1. CASE act' = "toggle"
    BY <1>1, <2>1, TogglePreserves DEF Press
  <2>2. CASE act' # "toggle"
    BY <1>1, <2>2 DEF Press, modeVars
  <2> QED BY <2>1, <2>2
<1>2. CASE TripleClick
  BY <1>2, RestartPreserves DEF TripleClick
<1>3. CASE PowerCut
  BY <1>3, RestartPreserves DEF PowerCut
<1>4. CASE Firmware
  <2>1. CASE M!Task
    BY <2>1 DEF M!Task, M!SaveFailed, M!BeginSave
  <2>2. CASE M!Tick
    BY <2>2 DEF M!Tick
  <2>3. CASE M!HostSetsConfig
    BY <2>3 DEF M!HostSetsConfig
  <2>4. CASE M!HostSetsVolume
    BY <2>4 DEF M!HostSetsVolume
  <2>5. CASE M!HostSaves
    BY <2>5 DEF M!HostSaves, M!BeginSave, M!ramVars
  <2>6. CASE M!Programmed
    BY <2>6, PageKeepsMode DEF M!Programmed
  <2>7. CASE M!Misprogrammed
    BY <2>7 DEF M!Misprogrammed, M!SaveFailed
  <2> QED BY <1>4, <2>1, <2>2, <2>3, <2>4, <2>5, <2>6, <2>7 DEF Firmware
<1>5. CASE UNCHANGED vars
  BY <1>5 DEF vars, modeVars
<1> QED BY <1>1, <1>2, <1>3, <1>4, <1>5 DEF Next

\* IInv holds in every state the bridge can reach.
THEOREM Invariance == Spec => []IInv
BY InitEstablishes, StepPreserves, PTL DEF Spec

\* Unless a save is owed, or the host's own save has failed, the page in flash
\* stands for the active mode (usb_mode.cpp:51-73, config.cpp:135-190), however
\* writes fail and power cuts fall.
THEOREM ModeIsStored == Spec => []ModeSurvivesPowerCut
<1>1. IInv => ModeSurvivesPowerCut
  BY DEF IInv
<1> QED BY <1>1, Invariance, PTL
-----------------------------------------------------------------------------
(* What ends an owed save                                                  *)

\* The safety half of SavesEnd: a save that is owed is forgotten only when the
\* page in flash has come to stand for the active mode.
OwedUntilStored == [][pending /\ ~pending' => M!LoadedMode(flash') = active']_vars

\* A restart loads the mode from the page it starts from.
LEMMA RestartAgrees ==
  ASSUME Restart PROVE M!LoadedMode(flash') = active'
<1>1. PICK page : M!LoadFrom(page)
  BY DEF Restart, M!Reboot
<1> QED BY <1>1 DEF M!LoadFrom

\* usb_mode_task and the toggle drop save_pending only after config_save has
\* returned TRUE, and what it wrote is the active mode: the toggle's later changes
\* are owed anew, the host's own saves leave the debt, and a failed retry keeps it.
THEOREM OwedSavesAreKept == Spec => OwedUntilStored
<1> DEFINE A == pending /\ ~pending' => M!LoadedMode(flash') = active'
<1>1. IInv /\ Next => A
  <2> SUFFICES ASSUME IInv, Next PROVE A
    OBVIOUS
  <2>1. CASE Press
    <3>1. CASE act' = "toggle"
      BY <2>1, <3>1 DEF Press, M!Toggle, M!SaveFailed
    <3>2. CASE act' # "toggle"
      BY <2>1, <3>2, Zenon DEF Press, modeVars
    <3> QED BY <3>1, <3>2
  <2>2. CASE Restart
    BY <2>2, RestartAgrees
  <2>3. CASE Firmware
    <3>1. CASE M!Task
      BY <3>1 DEF M!Task, M!SaveFailed
    <3>2. CASE M!Programmed
      <4>1. flash' = M!Page /\ active' = active
        BY <3>2 DEF M!Programmed
      <4> QED BY <4>1, PageKeepsMode DEF IInv
    <3>3. CASE M!Misprogrammed
      BY <3>3 DEF M!Misprogrammed, M!SaveFailed
    <3>4. CASE M!Tick \/ M!HostSetsConfig \/ M!HostSetsVolume \/ M!HostSaves
      <4>1. pending' = pending
        BY <3>4 DEF M!Tick, M!HostSetsConfig, M!HostSetsVolume, M!HostSaves, M!ramVars
      <4> QED BY <4>1
    <3> QED BY <2>3, <3>1, <3>2, <3>3, <3>4 DEF Firmware
  <2> QED BY <2>1, <2>2, <2>3 DEF Next, TripleClick, PowerCut
<1>2. IInv /\ [Next]_vars => [A]_vars
  BY <1>1
<1> QED BY <1>2, Invariance, PTL DEF OwedUntilStored, Spec
=============================================================================
