----------------------------- MODULE DataProofs -----------------------------
(***************************************************************************)
(* The arithmetic of Switch mode is sound for every input, where the run   *)
(* of MCComponents tries the 256 bytes: for every pair of 12-bit stick     *)
(* coordinates, every 16-bit sensor value, every address, every pair of    *)
(* amplitudes, every phase of the sine and every target of a ramp.         *)
(*                                                                         *)
(* Three of the computations are loops in the code and recursive functions *)
(* in SwitchData.  What they compute is shown by induction, which rests on *)
(* the least element of a set of numbers: the library has the well-founded *)
(* order of finite sets, and the initial segments 1..n are ordered by it.  *)
(*                                                                         *)
(* SMT finds an interval in a conclusion hard to use.  So the lemmas bound *)
(* a value by inequalities, or name the interval and keep it hidden.       *)
(***************************************************************************)
EXTENDS MCComponents, FiniteSetTheorems, TLAPS

-----------------------------------------------------------------------------
(* Induction and recursive functions                                       *)

\* A set of natural numbers has a least element: of the segments that end in one of
\* its members, one is minimal.
LEMMA LeastElement ==
  ASSUME NEW S \in SUBSET Nat, S # {}
  PROVE  \E m \in S : \A k \in S : m <= k
<1> PICK n \in S : TRUE
  OBVIOUS
<1> DEFINE Upto(k) == 1..k
           T == {Upto(k) : k \in S}
<1>1. \A k \in Nat : IsFiniteSet(Upto(k))
  BY FS_Interval
<1>2. T \subseteq FiniteSubsetsOf(Nat) /\ T # {}
  BY <1>1 DEF FiniteSubsetsOf
<1>3. IsWellFoundedOn(StrictSubsetOrdering(Nat), FiniteSubsetsOf(Nat))
  BY FS_StrictSubsetOrderingWellFounded
<1>4. PICK x \in T : \A y \in T : ~(<<y, x>> \in StrictSubsetOrdering(Nat))
  <2> HIDE DEF T
  <2> QED BY <1>2, <1>3, WFMin
<1>5. PICK m \in S : x = Upto(m)
  OBVIOUS
<1>6. ASSUME NEW k \in S, ~(m <= k) PROVE FALSE
  <2>1. Upto(k) \subseteq Upto(m) /\ m \in Upto(m) /\ m \notin Upto(k)
    BY <1>6
  <2>2. <<Upto(k), Upto(m)>> \in StrictSubsetOrdering(Nat)
    BY <2>1 DEF StrictSubsetOrdering
  <2> QED BY <1>4, <1>5, <2>2
<1> QED BY <1>6

\* What holds of 0, and of a successor when it holds of the number, holds of all.
LEMMA Induction ==
  ASSUME NEW S, 0 \in S, \A n \in Nat : n \in S => n + 1 \in S
  PROVE  Nat \subseteq S
<1> DEFINE B == {n \in Nat : n \notin S}
<1> SUFFICES ASSUME B # {} PROVE FALSE
  OBVIOUS
<1>1. PICK m \in B : \A k \in B : m <= k
  <2> HIDE DEF B
  <2>1. B \in SUBSET Nat
    BY DEF B
  <2> QED BY <2>1, LeastElement
<1>2. m \in Nat /\ m # 0 /\ m - 1 \in Nat
  BY <1>1
<1>3. m - 1 \in S
  BY <1>1, <1>2
<1>4. (m - 1) + 1 = m
  BY <1>2
<1> QED BY <1>1, <1>2, <1>3, <1>4

\* g has value v0 at m, and from there to n each value is a step from the last.
Follows(g, m, n, v0, step) ==
  \A i \in m..n : g[i] = IF i = m THEN v0 ELSE step[i][g[i - 1]]

\* g and h agree where both are followed.
Agree(g, h, m, n, k) == \A i : i \in m..n /\ i \in m..k => g[i] = h[i]

\* Steps that stay in V can be followed: what a loop computes exists.
LEMMA RecursionExists ==
  ASSUME NEW m \in Nat, NEW n \in Nat, NEW V, NEW v0 \in V,
         NEW step, \A i \in Nat : \A v \in V : step[i][v] \in V
  PROVE  \E g : g \in [m..n -> V] /\ Follows(g, m, n, v0, step)
<1> DEFINE S == {d \in Nat : \E g : /\ g \in [m..(m + d) -> V]
                                   /\ Follows(g, m, m + d, v0, step)}
<1>1. 0 \in S
  <2> DEFINE g == [i \in m..(m + 0) |-> v0]
  <2>1. g \in [m..(m + 0) -> V] /\ Follows(g, m, m + 0, v0, step)
    <3>1. \A i \in m..(m + 0) : i = m
      OBVIOUS
    <3> QED BY <3>1 DEF Follows
  <2> QED BY <2>1
<1>2. ASSUME NEW d \in Nat, d \in S PROVE d + 1 \in S
  <2>1. PICK h : h \in [m..(m + d) -> V] /\ Follows(h, m, m + d, v0, step)
    BY <1>2
  <2> DEFINE k == m + (d + 1)
             g == [i \in m..k |-> IF i = k THEN step[i][h[m + d]] ELSE h[i]]
  <2>2. /\ k \in Nat /\ k - 1 = m + d /\ k # m /\ m + d \in m..(m + d)
        /\ \A i \in m..k : i = k \/ i \in m..(m + d)
        /\ \A i \in m..k : i = m \/ i - 1 \in m..(m + d)
        /\ \A i \in m..(m + d) : i # k /\ i \in m..k
    OBVIOUS
  <2>3. \A i \in m..(m + d) : h[i] \in V
    BY <2>1
  <2>4. step[k][h[m + d]] \in V
    BY <2>2, <2>3
  <2>5. g \in [m..k -> V]
    BY <2>2, <2>3, <2>4
  <2>6. \A i \in m..k : g[i] = IF i = m THEN v0 ELSE step[i][g[i - 1]]
    <3> SUFFICES ASSUME NEW i \in m..k
                 PROVE  g[i] = IF i = m THEN v0 ELSE step[i][g[i - 1]]
      OBVIOUS
    <3>1. CASE i = k
      <4>1. g[i - 1] = h[m + d]
        BY <2>2, <3>1
      <4> QED BY <2>2, <3>1, <4>1
    <3>2. CASE i # k
      <4>1. i \in m..(m + d) /\ g[i] = h[i]
        BY <2>2, <3>2
      <4>2. i # m => i - 1 \in m..(m + d) /\ g[i - 1] = h[i - 1]
        BY <2>2, <4>1
      <4>3. h[i] = IF i = m THEN v0 ELSE step[i][h[i - 1]]
        BY <2>1, <4>1 DEF Follows
      <4> QED BY <4>1, <4>2, <4>3
    <3> QED BY <3>1, <3>2
  <2>7. Follows(g, m, k, v0, step)
    BY <2>6 DEF Follows
  <2>8. \E x : x \in [m..(m + (d + 1)) -> V] /\ Follows(x, m, m + (d + 1), v0, step)
    <3> HIDE DEF g
    <3> QED BY <2>5, <2>7
  <2>9. d + 1 \in Nat
    OBVIOUS
  <2> HIDE DEF g, k
  <2> QED BY <2>8, <2>9
<1>3. Nat \subseteq S
  <2> HIDE DEF S
  <2> QED BY <1>1, <1>2, Induction
<1>4. CASE n < m
  <2> DEFINE g == [i \in m..n |-> v0]
  <2>1. g \in [m..n -> V] /\ Follows(g, m, n, v0, step)
    BY <1>4 DEF Follows
  <2> HIDE DEF g
  <2> QED BY <2>1
<1>5. CASE m <= n
  <2>1. n - m \in Nat /\ m + (n - m) = n
    BY <1>5
  <2>2. n - m \in S
    BY <1>3, <2>1
  <2>3. \E g : g \in [m..(m + (n - m)) -> V] /\ Follows(g, m, m + (n - m), v0, step)
    BY <2>2
  <2> QED BY <2>1, <2>3
<1> QED BY <1>4, <1>5

\* and there is one way only, so that loops of different lengths agree.
LEMMA RecursionUnique ==
  ASSUME NEW m \in Nat, NEW n \in Nat, NEW k \in Nat, NEW v0, NEW step, NEW g, NEW h,
         Follows(g, m, n, v0, step), Follows(h, m, k, v0, step)
  PROVE  Agree(g, h, m, n, k)
<1> DEFINE S == {d \in Nat : m + d <= n /\ m + d <= k => g[m + d] = h[m + d]}
<1>1. 0 \in S
  <2> SUFFICES ASSUME m <= n, m <= k PROVE g[m] = h[m]
    OBVIOUS
  <2>1. m \in m..n /\ m \in m..k
    OBVIOUS
  <2> QED BY <2>1 DEF Follows
<1>2. ASSUME NEW d \in Nat, d \in S PROVE d + 1 \in S
  <2> SUFFICES ASSUME m + (d + 1) <= n, m + (d + 1) <= k
               PROVE  g[m + (d + 1)] = h[m + (d + 1)]
    OBVIOUS
  <2>1. /\ g[m + d] = h[m + d] /\ m + (d + 1) \in m..n /\ m + (d + 1) \in m..k
        /\ m + (d + 1) # m /\ (m + (d + 1)) - 1 = m + d
    BY <1>2
  <2> QED BY <2>1 DEF Follows
<1>3. Nat \subseteq S
  <2> HIDE DEF S
  <2> QED BY <1>1, <1>2, Induction
<1> SUFFICES ASSUME NEW i, i \in m..n, i \in m..k PROVE g[i] = h[i]
  BY DEF Agree
<1>4. i - m \in Nat /\ m + (i - m) = i /\ i <= n /\ i <= k
  OBVIOUS
<1>5. i - m \in S
  BY <1>3, <1>4
<1>6. m + (i - m) <= n /\ m + (i - m) <= k => g[m + (i - m)] = h[m + (i - m)]
  BY <1>5
<1> QED BY <1>4, <1>6

-----------------------------------------------------------------------------
(* Sticks, buttons and sensors                                             *)

\* A byte becomes a coordinate between the ends of the reach,
LEMMA StickRange ==
  ASSUME NEW b \in Nat, b <= 255
  PROVE  /\ Data!StickX(b) \in Nat /\ 348 <= Data!StickX(b) /\ Data!StickX(b) <= 3748
         /\ Data!StickY(b) \in Nat /\ 348 <= Data!StickY(b) /\ Data!StickY(b) <= 3748
BY DEF Data!StickX, Data!StickY, Data!AxisTo12, Data!ExpandAxis, Data!Clamp,
       Data!STICK_MIN, Data!STICK_MAX

\* which are the two constants of the code,
LEMMA StickReaches ==
  ASSUME NEW b \in Nat, b <= 255
  PROVE  /\ Data!StickX(b) \in Data!STICK_MIN..Data!STICK_MAX
         /\ Data!StickY(b) \in Data!STICK_MIN..Data!STICK_MAX
<1>1. PICK least \in Nat, most \in Nat :
        /\ least = 348 /\ most = 3748
        /\ least = Data!STICK_MIN /\ most = Data!STICK_MAX
  BY DEF Data!STICK_MIN, Data!STICK_MAX
<1>2. PICK x \in Nat, y \in Nat : x = Data!StickX(b) /\ y = Data!StickY(b)
  BY StickRange
<1>3. least <= x /\ x <= most /\ least <= y /\ y <= most
  BY <1>1, <1>2, StickRange
<1>4. x \in least..most /\ y \in least..most
  BY <1>3
<1>5. least = Data!STICK_MIN /\ most = Data!STICK_MAX
  BY <1>1
<1> QED BY <1>2, <1>4, <1>5, Zenon

\* in the order of the bytes, and with up and down exchanged.
LEMMA StickOrder ==
  ASSUME NEW b \in Nat, b <= 255, b > 0
  PROVE  Data!StickX(b) >= Data!StickX(b - 1) /\ Data!StickY(b) <= Data!StickY(b - 1)
BY DEF Data!StickX, Data!StickY, Data!AxisTo12, Data!ExpandAxis, Data!Clamp,
       Data!STICK_MIN, Data!STICK_MAX

\* The host unpacks the coordinates that pack_stick packed, for every pair of 12-bit
\* numbers: no bit of one shows up in the other.
THEOREM StickUnpacks ==
  ASSUME NEW x \in Nat, NEW y \in Nat, x <= 4095, y <= 4095
  PROVE  Data!UnpackStick(Data!PackStick(x, y)) = <<x, y>>
<1> DEFINE p == Data!PackStick(x, y)
<1>1. /\ p[1] = x % 256 /\ p[2] = ((x \div 256) % 16) + 16 * (y % 16)
      /\ p[3] = (y \div 16) % 256
  BY DEF Data!PackStick
<1>2. p[1] + 256 * (p[2] % 16) = x
  BY <1>1
<1>3. p[2] \div 16 + 16 * p[3] = y
  BY <1>1
<1> QED BY <1>2, <1>3 DEF Data!UnpackStick

\* What the run checks of the sticks
LEMMA SticksAreSound == byte \in 0..255 => Data!SticksSound
<1> SUFFICES ASSUME byte \in 0..255 PROVE Data!SticksSound
  OBVIOUS
<1>1. Data!STICK_MIN = 348 /\ Data!STICK_MAX = 3748
  BY DEF Data!STICK_MIN, Data!STICK_MAX
<1>2. Data!StickReach[1] = 1700 /\ Data!StickCentre[1] = 2048
  BY DEF Data!StickReach, Data!StickCentre, Data!UnpackStick
<1>3. /\ Data!StickX(byte) \in Nat /\ Data!StickX(byte) <= 3748
      /\ Data!StickY(byte) \in Nat /\ Data!StickY(byte) <= 3748
  BY StickRange
<1>4. Data!UnpackStick(Data!PackStick(Data!StickX(byte), Data!StickY(byte)))
       = <<Data!StickX(byte), Data!StickY(byte)>>
  BY <1>3, StickUnpacks
<1>5. byte > 0 => /\ Data!StickX(byte) >= Data!StickX(byte - 1)
                  /\ Data!StickY(byte) <= Data!StickY(byte - 1)
  BY StickOrder
<1>6. /\ Data!StickX(byte) \in Data!STICK_MIN..Data!STICK_MAX
      /\ Data!StickY(byte) \in Data!STICK_MIN..Data!STICK_MAX
  BY StickReaches
<1>7. <<Data!STICK_MIN, Data!STICK_MAX>>
        = <<Data!StickCentre[1] - Data!StickReach[1],
            Data!StickCentre[1] + Data!StickReach[1]>>
  BY <1>1, <1>2
<1> QED BY <1>4, <1>5, <1>6, <1>7, Zenon DEF Data!SticksSound

\* The buttons of the three bytes
Faces == {"square", "cross", "circle", "triangle"}
Shoulders == {"L1", "R1", "L2", "R2", "create", "options", "L3", "R3"}
Systems == {"home", "pad", "mute"}

\* Whatever three bytes a report holds, fill_input presses no two opposite directions
\* and passes on every button that parse_dualsense_report read but mute.
THEOREM ButtonsKept ==
  ASSUME NEW faceByte \in 0..255, NEW shoulders, NEW system
  PROVE  LET c == Data!Parse(faceByte, shoulders, system)
         IN  /\ ~({"up", "down"} \subseteq Data!SwitchDpad(c))
             /\ ~({"left", "right"} \subseteq Data!SwitchDpad(c))
             /\ \A b \in c.buttons \ {"mute"} :
                  Data!SwitchName[b] \in Data!SwitchButtons(c, 0, 0)
<1> DEFINE c == Data!Parse(faceByte, shoulders, system)
<1>1. /\ ~({"up", "down"} \subseteq Data!SwitchDpad(c))
      /\ ~({"left", "right"} \subseteq Data!SwitchDpad(c))
  <2>1. c.dpad \in 0..8
    BY DEF Data!Parse, Data!DpadNeutral
  <2> HIDE DEF c
  <2> QED BY <2>1 DEF Data!SwitchDpad
<1>2. \A b \in c.buttons \ {"mute"} : Data!SwitchName[b] \in Data!SwitchButtons(c, 0, 0)
  <2>1. c.buttons \subseteq Faces \cup Shoulders \cup Systems
    <3>1. c.buttons = Data!Named(Data!FaceButtons, faceByte)
                        \cup Data!Named(Data!ShoulderButtons, shoulders)
                        \cup Data!Named(Data!SystemButtons, system)
      BY DEF Data!Parse
    <3>2. \A i \in 4..7 : Data!FaceButtons[i] \in Faces
      BY DEF Data!FaceButtons, Faces
    <3>3. \A i \in 0..7 : Data!ShoulderButtons[i] \in Shoulders
      BY DEF Data!ShoulderButtons, Shoulders
    <3>4. \A i \in 0..2 : Data!SystemButtons[i] \in Systems
      BY DEF Data!SystemButtons, Systems
    <3>5. /\ DOMAIN Data!FaceButtons = 4..7 /\ DOMAIN Data!ShoulderButtons = 0..7
          /\ DOMAIN Data!SystemButtons = 0..2
      BY DEF Data!FaceButtons, Data!ShoulderButtons, Data!SystemButtons
    <3>6. ASSUME NEW table, NEW b
          PROVE  Data!Named(table, b) \subseteq {table[i] : i \in DOMAIN table}
      BY DEF Data!Named
    <3> HIDE DEF c
    <3>7. Data!Named(Data!FaceButtons, faceByte) \subseteq Faces
      BY <3>2, <3>5, <3>6
    <3>8. Data!Named(Data!ShoulderButtons, shoulders) \subseteq Shoulders
      BY <3>3, <3>5, <3>6
    <3>9. Data!Named(Data!SystemButtons, system) \subseteq Systems
      BY <3>4, <3>5, <3>6
    <3> QED BY <3>1, <3>7, <3>8, <3>9
  <2>2. (Faces \cup Shoulders \cup Systems) \ {"mute"} \subseteq DOMAIN Data!SwitchName
    BY DEF Data!SwitchName, Faces, Shoulders, Systems
  <2> HIDE DEF c
  <2> QED BY <2>1, <2>2 DEF Data!SwitchButtons
<1> QED BY <1>1, <1>2

\* What the run checks of the buttons
LEMMA ButtonsAreSound == byte \in 0..255 => Data!ButtonsSound
<1> SUFFICES ASSUME byte \in 0..255 PROVE Data!ButtonsSound
  OBVIOUS
<1> DEFINE c == Data!Parse(byte, byte, byte)
<1>1. /\ ~({"up", "down"} \subseteq Data!SwitchDpad(c))
      /\ ~({"left", "right"} \subseteq Data!SwitchDpad(c))
      /\ \A b \in c.buttons \ {"mute"} :
           Data!SwitchName[b] \in Data!SwitchButtons(c, 0, 0)
  BY ButtonsKept
<1>2. Data!BatteryLevel(Data!Power(byte).battery) \in {0, 2, 4, 6, 8}
  <2>1. \A n \in 0..15 : Data!BatteryLevel(n) \in {0, 2, 4, 6, 8}
    BY DEF Data!BatteryLevel
  <2>2. Data!Power(byte).battery \in 0..15
    BY DEF Data!Power
  <2> QED BY <2>1, <2>2
<1> HIDE DEF c
<1> QED BY <1>1, <1>2 DEF Data!ButtonsSound, c

\* Scaling an acceleration keeps its sign and never enlarges it, for every value of
\* 16 bits and the negative of the least one, so nothing is cut off.
LEMMA ScaledAccel ==
  ASSUME NEW s \in Int, -32768 <= s, s <= 32768
  PROVE  /\ Data!ScaleAccel(s) \in Int /\ Data!Abs(Data!ScaleAccel(s)) <= Data!Abs(s)
         /\ s > 1 => Data!ScaleAccel(s) > 0
         /\ s < -1 => Data!ScaleAccel(s) < 0
<1>1. CASE s >= 0
  <2>1. Data!Quot(s * 4096 + 4096, 8192) = (s * 4096 + 4096) \div 8192
    BY <1>1 DEF Data!Quot
  <2>2. Data!ScaleAccel(s) = Data!Clamp((s * 4096 + 4096) \div 8192, -32768, 32767)
    BY <1>1, <2>1 DEF Data!ScaleAccel, Data!ScaleSigned
  <2> QED BY <1>1, <2>2 DEF Data!Clamp, Data!Abs
<1>2. CASE s < 0
  <2>1. Data!Quot(s * 4096 - 4096, 8192) = -((-(s * 4096 - 4096)) \div 8192)
    BY <1>2 DEF Data!Quot
  <2>2. Data!ScaleAccel(s) = Data!Clamp(-((-(s * 4096 - 4096)) \div 8192), -32768, 32767)
    BY <1>2, <2>1 DEF Data!ScaleAccel, Data!ScaleSigned
  <2> QED BY <1>2, <2>2 DEF Data!Clamp, Data!Abs
<1> QED BY <1>1, <1>2

\* So does the scaling of a turn.
LEMMA ScaledGyro ==
  ASSUME NEW s \in Int, -32768 <= s, s <= 32768
  PROVE  /\ Data!ScaleGyro(s) \in Int /\ Data!Abs(Data!ScaleGyro(s)) <= Data!Abs(s)
         /\ s > 1 => Data!ScaleGyro(s) > 0
         /\ s < -1 => Data!ScaleGyro(s) < 0
<1>1. CASE s >= 0
  <2>1. Data!Quot(s * 14284 + 8000, 16000) = (s * 14284 + 8000) \div 16000
    BY <1>1 DEF Data!Quot
  <2>2. Data!ScaleGyro(s) = Data!Clamp((s * 14284 + 8000) \div 16000, -32768, 32767)
    BY <1>1, <2>1 DEF Data!ScaleGyro, Data!ScaleSigned
  <2> QED BY <1>1, <2>2 DEF Data!Clamp, Data!Abs
<1>2. CASE s < 0
  <2>1. Data!Quot(s * 14284 - 8000, 16000) = -((-(s * 14284 - 8000)) \div 16000)
    BY <1>2 DEF Data!Quot
  <2>2. Data!ScaleGyro(s) = Data!Clamp(-((-(s * 14284 - 8000)) \div 16000), -32768, 32767)
    BY <1>2, <2>1 DEF Data!ScaleGyro, Data!ScaleSigned
  <2> QED BY <1>2, <2>2 DEF Data!Clamp, Data!Abs
<1> QED BY <1>1, <1>2

\* What the run checks of the sensors
LEMMA SensorsAreSound == byte \in 0..255 => Data!SensorsSound
<1> SUFFICES ASSUME byte \in 0..255 PROVE Data!SensorsSound
  OBVIOUS
<1> DEFINE s == Data!ReadS16(byte, byte)
           sample == Data!ImuSample(<<s, s, s>>, <<s, s, s>>)
<1>1. s \in Int /\ -32768 <= s /\ s <= 32767
  BY DEF Data!ReadS16
<1>2. sample.gyro[2] = Data!ScaleGyro(-s) /\ sample.accel[3] = Data!ScaleAccel(s)
  <2> HIDE DEF s
  <2> QED BY DEF Data!ImuSample
<1>5. Data!SensorsSound <=>
       /\ Data!Abs(Data!ScaleGyro(s)) <= Data!Abs(s)
       /\ Data!Abs(Data!ScaleAccel(s)) <= Data!Abs(s)
       /\ s > 1 => sample.gyro[2] < 0 /\ sample.accel[3] > 0
  BY Zenon DEF Data!SensorsSound
<1> HIDE DEF s, sample
<1>3. s > 1 => -s \in Int /\ -32768 <= -s /\ -s <= 32768 /\ -s < -1
  BY <1>1
<1>4. s > 1 => Data!ScaleGyro(-s) < 0
  BY <1>3, ScaledGyro
<1>6. s > 1 => Data!ScaleAccel(s) > 0
  BY <1>1, ScaledAccel
<1>7. /\ Data!Abs(Data!ScaleGyro(s)) <= Data!Abs(s)
      /\ Data!Abs(Data!ScaleAccel(s)) <= Data!Abs(s)
  BY <1>1, ScaledGyro, ScaledAccel
<1> QED BY <1>2, <1>4, <1>5, <1>6, <1>7

-----------------------------------------------------------------------------
(* Reads of the SPI memory                                                 *)

\* A copy that fits the reply, and lies in one bank
InsideBank(copy, address) ==
  /\ copy.size \in Nat /\ copy.len \in Nat /\ copy.len <= copy.size /\ copy.size <= 44
  /\ copy.len > 0 =>
       \E b \in Data!Banks : copy.from = address - b.base
                             /\ copy.from + copy.len <= b.size

\* read_spi stays in its bank and in the reply, for every address and length.
THEOREM SpiStaysInside ==
  ASSUME NEW address \in Nat, NEW wanted \in Nat
  PROVE  InsideBank(Data!SpiCopy(address, wanted), address)
<1> DEFINE size == IF wanted < 44 THEN wanted ELSE 44
      inRange == {b \in Data!Banks : address >= b.base /\ address < b.top}
      hit == {b \in inRange : address - b.base < b.size}
      copy == Data!SpiCopy(address, wanted)
<1>1. CASE hit = {}
  <2>1. copy = [from |-> 0, len |-> 0, size |-> size]
    BY <1>1 DEF Data!SpiCopy
  <2> QED BY <2>1 DEF InsideBank
<1>2. CASE hit # {}
  <2>1. PICK b \in hit : b = CHOOSE x \in hit : TRUE
    BY <1>2
  <2>2. copy = [from |-> address - b.base, size |-> size,
              len |-> IF size < b.size - (address - b.base) THEN size
                      ELSE b.size - (address - b.base)]
    BY <1>2, <2>1, Zenon DEF Data!SpiCopy
  <2>3. /\ b \in Data!Banks /\ b.base \in Nat /\ b.size \in Nat
        /\ address >= b.base /\ address - b.base < b.size
    BY DEF Data!Banks
  <2>4. size \in Nat /\ size <= 44
    OBVIOUS
  <2> HIDE DEF size, copy, hit, inRange
  <2> QED BY <2>2, <2>3, <2>4 DEF copy, InsideBank
<1> QED BY <1>1, <1>2

\* What the run checks of it
LEMMA SpiIsSound == byte \in 0..255 => Data!SpiSound
<1> SUFFICES ASSUME byte \in 0..255, NEW base \in {\h5f80, \h6000, \h6080, \h8000},
                    NEW a \in {0, 44, 255}
             PROVE  LET copy == Data!SpiCopy(base + byte, a)
                    IN  copy.len <= copy.size /\ 20 + copy.size <= 64
                        /\ (copy.len > 0 => copy.from + copy.len <= 170)
  BY DEF Data!SpiSound
<1> DEFINE copy == Data!SpiCopy(base + byte, a)
<1>1. PICK address \in Nat : address = base + byte
  OBVIOUS
<1>2. PICK wanted \in Nat : wanted = a
  OBVIOUS
<1>3. InsideBank(copy, address)
  BY <1>1, <1>2, SpiStaysInside
<1>4. \A b \in Data!Banks : b.size \in Nat /\ b.size <= 170 /\ b.base \in Nat
  BY DEF Data!Banks
<1> HIDE DEF copy
<1>5. copy.len <= copy.size /\ 20 + copy.size <= 64
  BY <1>3 DEF InsideBank
<1>6. ASSUME copy.len > 0 PROVE copy.from + copy.len <= 170
  <2>1. PICK b \in Data!Banks :
          copy.from = address - b.base /\ copy.from + copy.len <= b.size
    BY <1>3, <1>6 DEF InsideBank
  <2>2. copy.len \in Nat /\ copy.from \in Int /\ b.size \in Nat /\ b.size <= 170
    BY <1>3, <1>4, <2>1 DEF InsideBank
  <2> QED BY <2>1, <2>2
<1> QED BY <1>5, <1>6 DEF copy

-----------------------------------------------------------------------------
(* Rumble amplitudes                                                       *)

\* One code of a logarithmic range, as a function
GrowStep(q) == [i \in Nat |-> [v \in Nat |-> Data!Louder(v, q)]]

\* g holds what the loop computes for the codes from start to code.
Growth(g, a, start, code, q) ==
  /\ g \in [start..code -> Nat] /\ Follows(g, start, code, a, GrowStep(q))
  /\ Data!Grow(a, start, code, q) = g[code]

\* The recursive function of Grow is followed, since what it is defined by is.
LEMMA GrowFollows ==
  ASSUME NEW a \in Nat, NEW start \in Nat, NEW code \in Nat, NEW q \in Nat
  PROVE  \E g : Growth(g, a, start, code, q)
<1>1. PICK step : step = GrowStep(q)
  OBVIOUS
<1>2. \A i \in Nat : \A v \in Nat : step[i][v] \in Nat /\ step[i][v] = Data!Louder(v, q)
  BY <1>1 DEF Data!Louder, GrowStep
<1>4. PICK g : g \in [start..code -> Nat] /\ Follows(g, start, code, a, step)
  BY <1>2, RecursionExists
<1> DEFINE Eq(h) == h = [i \in start..code |-> IF i = start THEN a
                                               ELSE Data!Louder(h[i - 1], q)]
<1>5. ASSUME NEW h, h \in [start..code -> Nat], Follows(h, start, code, a, step),
             NEW i \in start..code
      PROVE  h[i] = IF i = start THEN a ELSE Data!Louder(h[i - 1], q)
  <2>1. i # start => i - 1 \in start..code /\ i \in Nat
    OBVIOUS
  <2>2. i # start => h[i - 1] \in Nat
    BY <1>5, <2>1
  <2>3. h[i] = IF i = start THEN a ELSE step[i][h[i - 1]]
    BY <1>5 DEF Follows
  <2> QED BY <1>2, <2>1, <2>2, <2>3
<1>6. Eq(g)
  BY <1>4, <1>5
<1>7. PICK h : Eq(h) /\ Data!Grow(a, start, code, q) = h[code]
  <2>1. Data!Grow(a, start, code, q) = (CHOOSE h : Eq(h))[code]
    BY DEF Data!Grow
  <2> HIDE DEF Eq
  <2> QED BY <1>6, <2>1
<1> HIDE DEF GrowStep
<1>8. ASSUME NEW i \in start..code
      PROVE  h[i] = IF i = start THEN a ELSE Data!Louder(h[i - 1], q)
  BY <1>7
<1>9. \A i \in start..code : h[i] \in Nat
  <2> DEFINE S == {d \in Nat : start + d <= code => h[start + d] \in Nat}
  <2>1. 0 \in S
    <3> SUFFICES ASSUME start <= code PROVE h[start] \in Nat
      OBVIOUS
    <3> start \in start..code
      OBVIOUS
    <3> QED BY <1>8
  <2>2. ASSUME NEW d \in Nat, d \in S PROVE d + 1 \in S
    <3> SUFFICES ASSUME start + (d + 1) <= code PROVE h[start + (d + 1)] \in Nat
      OBVIOUS
    <3>1. /\ h[start + d] \in Nat /\ start + (d + 1) \in start..code
          /\ start + (d + 1) # start /\ (start + (d + 1)) - 1 = start + d
      BY <2>2
    <3>2. h[start + (d + 1)] = Data!Louder(h[start + d], q)
      BY <1>8, <3>1
    <3> QED BY <3>1, <3>2 DEF Data!Louder
  <2>3. Nat \subseteq S
    <3> HIDE DEF S
    <3> QED BY <2>1, <2>2, Induction
  <2> SUFFICES ASSUME NEW i \in start..code PROVE h[i] \in Nat
    OBVIOUS
  <2>4. i - start \in Nat /\ start + (i - start) = i /\ i <= code
    OBVIOUS
  <2>5. i - start \in S
    BY <2>3, <2>4
  <2>6. start + (i - start) <= code => h[start + (i - start)] \in Nat
    BY <2>5
  <2> QED BY <2>4, <2>6
<1>10. h \in [start..code -> Nat]
  <2>1. h = [i \in start..code |-> IF i = start THEN a ELSE Data!Louder(h[i - 1], q)]
    BY <1>7
  <2>2. DOMAIN h = start..code /\ h = [i \in start..code |-> h[i]]
    BY <2>1, Zenon
  <2> QED BY <1>9, <2>2
<1>11. ASSUME NEW i \in start..code
       PROVE  h[i] = IF i = start THEN a ELSE step[i][h[i - 1]]
  <2>1. i # start => i - 1 \in start..code /\ i \in Nat
    OBVIOUS
  <2>2. i # start => h[i - 1] \in Nat
    BY <1>9, <2>1
  <2> QED BY <1>2, <1>8, <2>1, <2>2
<1>12. Follows(h, start, code, a, step)
  BY <1>11 DEF Follows
<1> QED BY <1>1, <1>7, <1>10, <1>12 DEF Growth

\* One more code is one more step of the loop.
LEMMA GrowSteps ==
  ASSUME NEW a \in Nat, NEW start \in Nat, NEW code \in Nat, NEW q \in Nat, start <= code
  PROVE  /\ Data!Grow(a, start, code, q) \in Nat
         /\ Data!Grow(a, start, start, q) = a
         /\ Data!Grow(a, start, code + 1, q)
              = Data!Louder(Data!Grow(a, start, code, q), q)
<1>1. PICK n \in Nat : n = code + 1
  OBVIOUS
<1>2. PICK g : Growth(g, a, start, code, q)
  BY GrowFollows
<1>3. PICK h : Growth(h, a, start, n, q)
  BY GrowFollows
<1>4. PICK b : Growth(b, a, start, start, q)
  BY GrowFollows
<1>5. /\ code \in start..code /\ code \in start..n /\ n \in start..n
      /\ n # start /\ n - 1 = code /\ start \in start..start
  BY <1>1
<1>f. /\ Follows(g, start, code, a, GrowStep(q)) /\ Follows(h, start, n, a, GrowStep(q))
      /\ Follows(b, start, start, a, GrowStep(q)) /\ g \in [start..code -> Nat]
      /\ Data!Grow(a, start, code, q) = g[code] /\ Data!Grow(a, start, n, q) = h[n]
      /\ Data!Grow(a, start, start, q) = b[start]
  BY <1>2, <1>3, <1>4 DEF Growth
<1>6. g[code] = h[code]
  <2>1. Agree(g, h, start, code, n)
    BY <1>f, RecursionUnique
  <2> QED BY <1>5, <2>1 DEF Agree
<1>6a. g[code] \in Nat
  BY <1>f, <1>5
<1>7. h[n] = GrowStep(q)[n][h[code]]
  BY <1>f, <1>5 DEF Follows
<1>8. GrowStep(q)[n][h[code]] = Data!Louder(h[code], q)
  BY <1>6, <1>6a DEF GrowStep
<1>9. b[start] = a
  BY <1>f, <1>5 DEF Follows
<1> QED BY <1>1, <1>f, <1>6, <1>6a, <1>7, <1>8, <1>9

\* g lists the results of Grow, and they never fall.
Grows(g, a, start, q) ==
  /\ g[start] = a
  /\ \A i : i \in Nat /\ i >= start =>
       /\ Data!Grow(a, start, i, q) = g[i] /\ g[i] \in Nat
       /\ g[i + 1] = Data!Louder(g[i], q) /\ g[i + 1] >= g[i]

\* A factor of at least one never makes an amplitude weaker.
LEMMA GrowRange ==
  ASSUME NEW a \in Nat, NEW start \in Nat, NEW q \in Nat, q >= 65536
  PROVE  \E g : Grows(g, a, start, q)
<1> DEFINE g == [i \in Nat |-> Data!Grow(a, start, i, q)]
<1>1. ASSUME NEW i \in Nat, i >= start
      PROVE  /\ Data!Grow(a, start, i, q) = g[i] /\ g[i] \in Nat
             /\ g[i + 1] = Data!Louder(g[i], q)
  <2>1. i + 1 \in Nat
    OBVIOUS
  <2> QED BY <1>1, <2>1, GrowSteps
<1>2. g[start] = a
  BY GrowSteps
<1>3. ASSUME NEW v \in Nat PROVE Data!Louder(v, q) >= v
  <2>1. v * 65536 <= v * q
    OBVIOUS
  <2>2. v * q \in Nat
    OBVIOUS
  <2> QED BY <2>1, <2>2 DEF Data!Louder
<1> HIDE DEF g
<1>4. Grows(g, a, start, q)
  BY <1>1, <1>2, <1>3 DEF Grows
<1> QED BY <1>4

\* The first range ends below the 117 thousandths the second starts with,
LEMMA QuietCodes ==
  \E g : Grows(g, 12, 2, 77936) /\ g[15] = 114
<1>1. PICK a \in Nat, s \in Nat, q \in Nat : a = 12 /\ s = 2 /\ q = 77936
  OBVIOUS
<1>2. PICK g : Grows(g, a, s, q)
  BY <1>1, GrowRange
<1>3. /\ g[2] = 12
      /\ \A i : i \in Nat /\ i >= 2 => g[i + 1] = (g[i] * 77936 + 32768) \div 65536
  BY <1>1, <1>2 DEF Grows, Data!Louder
<1>4. g[3] = 14 /\ g[4] = 17 /\ g[5] = 20 /\ g[6] = 24 /\ g[7] = 29
  BY <1>3
<1>5. g[8] = 34 /\ g[9] = 40 /\ g[10] = 48 /\ g[11] = 57 /\ g[12] = 68
  BY <1>3, <1>4
<1>6. g[13] = 81 /\ g[14] = 96 /\ g[15] = 114
  BY <1>3, <1>5
<1> QED BY <1>1, <1>2, <1>6

\* which ends below the 230 of the third.
LEMMA MiddleCodes ==
  \E g : Grows(g, 117, 16, 68438) /\ g[31] = 223
<1>1. PICK a \in Nat, s \in Nat, q \in Nat : a = 117 /\ s = 16 /\ q = 68438
  OBVIOUS
<1>2. PICK g : Grows(g, a, s, q)
  BY <1>1, GrowRange
<1>3. /\ g[16] = 117
      /\ \A i : i \in Nat /\ i >= 16 => g[i + 1] = (g[i] * 68438 + 32768) \div 65536
  BY <1>1, <1>2 DEF Grows, Data!Louder
<1>4. g[17] = 122 /\ g[18] = 127 /\ g[19] = 133 /\ g[20] = 139 /\ g[21] = 145
  BY <1>3
<1>5. g[22] = 151 /\ g[23] = 158 /\ g[24] = 165 /\ g[25] = 172 /\ g[26] = 180
  BY <1>3, <1>4
<1>6. g[27] = 188 /\ g[28] = 196 /\ g[29] = 205 /\ g[30] = 214 /\ g[31] = 223
  BY <1>3, <1>5
<1> QED BY <1>1, <1>2, <1>6

\* The third goes on until the code is at its limit.
LEMMA LoudCodes ==
  \E g : Grows(g, 230, 32, 66971)
<1>1. PICK a \in Nat, s \in Nat, q \in Nat : a = 230 /\ s = 32 /\ q = 66971
  OBVIOUS
<1>2. PICK g : Grows(g, a, s, q)
  BY <1>1, GrowRange
<1> QED BY <1>1, <1>2

\* So a stronger code is never weaker, within and across the three ranges.
LEMMA MilliRises ==
  /\ \A i : i \in 1..100 => Data!Milli(i) \in Nat /\ Data!Milli(i) >= 8
  /\ \A i : i \in 2..100 => Data!Milli(i) >= Data!Milli(i - 1)
<1>1. PICK g : Grows(g, 12, 2, 77936) /\ g[15] = 114
  BY QuietCodes
<1>2. PICK h : Grows(h, 117, 16, 68438) /\ h[31] = 223
  BY MiddleCodes
<1>3. PICK k : Grows(k, 230, 32, 66971)
  BY LoudCodes
<1> DEFINE M == [i \in 1..100 |-> Data!Milli(i)]
<1>4. /\ g[2] = 12
      /\ \A i : i \in Nat /\ i >= 2 =>
           /\ Data!Grow(12, 2, i, 77936) = g[i] /\ g[i] \in Nat /\ g[i + 1] >= g[i]
  BY <1>1 DEF Grows
<1>5. /\ h[16] = 117
      /\ \A i : i \in Nat /\ i >= 16 =>
           /\ Data!Grow(117, 16, i, 68438) = h[i] /\ h[i] \in Nat /\ h[i + 1] >= h[i]
  BY <1>2 DEF Grows
<1>6. /\ k[32] = 230
      /\ \A i : i \in Nat /\ i >= 32 =>
           /\ Data!Grow(230, 32, i, 66971) = k[i] /\ k[i] \in Nat /\ k[i + 1] >= k[i]
  BY <1>3 DEF Grows
<1>7. /\ M[1] = 8
      /\ \A i : i \in 2..15 => M[i] = g[i] /\ g[i] \in Nat
      /\ \A i : i \in 16..31 => M[i] = h[i] /\ h[i] \in Nat
      /\ \A i : i \in 32..100 => M[i] = k[i] /\ k[i] \in Nat
  <2>1. M[1] = 8
    BY DEF Data!Milli
  <2>2. ASSUME NEW i \in 2..15 PROVE M[i] = g[i] /\ g[i] \in Nat
    <3>1. Data!Milli(i) = Data!Grow(12, 2, i, 77936)
      BY DEF Data!Milli
    <3>2. Data!Grow(12, 2, i, 77936) = g[i] /\ g[i] \in Nat
      BY <1>4
    <3> QED BY <3>1, <3>2
  <2>3. ASSUME NEW i \in 16..31 PROVE M[i] = h[i] /\ h[i] \in Nat
    <3>1. Data!Milli(i) = Data!Grow(117, 16, i, 68438)
      BY DEF Data!Milli
    <3>2. Data!Grow(117, 16, i, 68438) = h[i] /\ h[i] \in Nat
      BY <1>5
    <3> QED BY <3>1, <3>2
  <2>4. ASSUME NEW i \in 32..100 PROVE M[i] = k[i] /\ k[i] \in Nat
    <3>1. Data!Milli(i) = Data!Grow(230, 32, i, 66971)
      BY DEF Data!Milli
    <3>2. Data!Grow(230, 32, i, 66971) = k[i] /\ k[i] \in Nat
      BY <1>6
    <3> QED BY <3>1, <3>2
  <2> HIDE DEF M
  <2> QED BY <2>1, <2>2, <2>3, <2>4
<1>8. \A i : i \in 1..100 => Data!Milli(i) = M[i]
  OBVIOUS
<1> HIDE DEF M
<1>9. /\ \A i : i \in 2..14 => g[i + 1] >= g[i]
      /\ \A i : i \in 16..30 => h[i + 1] >= h[i]
      /\ \A i : i \in 32..99 => k[i + 1] >= k[i]
  BY <1>4, <1>5, <1>6
<1>10. ASSUME NEW i \in Nat, i >= 1, i <= 99 PROVE M[i + 1] >= M[i] /\ M[i] \in Nat
  <2>1. CASE i = 1
    BY <1>4, <1>7, <2>1
  <2>2. CASE i \in 2..14
    <3>1. i \in 2..15 /\ i + 1 \in 2..15
      BY <2>2
    <3>2. M[i] = g[i] /\ g[i] \in Nat /\ M[i + 1] = g[i + 1]
      BY <1>7, <3>1, Zenon
    <3>3. g[i + 1] >= g[i]
      BY <1>9, <2>2
    <3> QED BY <3>2, <3>3
  <2>3. CASE i = 15
    BY <1>1, <1>5, <1>7, <2>3
  <2>4. CASE i \in 16..30
    <3>1. i \in 16..31 /\ i + 1 \in 16..31
      BY <2>4
    <3>2. M[i] = h[i] /\ h[i] \in Nat /\ M[i + 1] = h[i + 1]
      BY <1>7, <3>1, Zenon
    <3>3. h[i + 1] >= h[i]
      BY <1>9, <2>4
    <3> QED BY <3>2, <3>3
  <2>5. CASE i = 31
    BY <1>2, <1>6, <1>7, <2>5
  <2>6. CASE i \in 32..99
    <3>1. i \in 32..100 /\ i + 1 \in 32..100
      BY <2>6
    <3>2. M[i] = k[i] /\ k[i] \in Nat /\ M[i + 1] = k[i + 1]
      BY <1>7, <3>1, Zenon
    <3>3. k[i + 1] >= k[i]
      BY <1>9, <2>6
    <3> QED BY <3>2, <3>3
  <2> QED BY <1>10, <2>1, <2>2, <2>3, <2>4, <2>5, <2>6
<1>11. Nat \subseteq {i \in Nat : i + 1 <= 100 => M[i + 1] \in Nat /\ M[i + 1] >= 8}
  <2> DEFINE S == {i \in Nat : i + 1 <= 100 => M[i + 1] \in Nat /\ M[i + 1] >= 8}
  <2>1. 0 \in S
    BY <1>7
  <2>2. ASSUME NEW i \in Nat, i \in S PROVE i + 1 \in S
    <3> SUFFICES ASSUME i + 2 <= 100 PROVE M[i + 2] \in Nat /\ M[i + 2] >= 8
      OBVIOUS
    <3>1. M[i + 1] \in Nat /\ M[i + 1] >= 8 /\ i + 1 \in Nat /\ (i + 1) + 1 = i + 2
      BY <2>2
    <3>2. M[i + 2] >= M[i + 1]
      BY <3>1, <1>10
    <3>3. M[i + 2] \in Nat
      <4>1. i + 2 \in 2..15 \/ i + 2 \in 16..31 \/ i + 2 \in 32..100
        OBVIOUS
      <4> QED BY <1>7, <4>1
    <3> QED BY <3>1, <3>2, <3>3
  <2> HIDE DEF S
  <2>3. Nat \subseteq S
    BY <2>1, <2>2, Induction
  <2> QED BY <2>3 DEF S
<1>12. ASSUME NEW i \in 1..100 PROVE Data!Milli(i) \in Nat /\ Data!Milli(i) >= 8
  <2>1. i - 1 \in Nat /\ (i - 1) + 1 = i
    OBVIOUS
  <2>2. M[i] \in Nat /\ M[i] >= 8
    BY <1>11, <2>1
  <2> QED BY <1>8, <2>2
<1>13. ASSUME NEW i \in 2..100 PROVE Data!Milli(i) >= Data!Milli(i - 1)
  <2>1. /\ i - 1 \in Nat /\ (i - 1) + 1 = i /\ i - 1 >= 1 /\ i - 1 <= 99
        /\ i \in 1..100 /\ i - 1 \in 1..100
    OBVIOUS
  <2>2. M[i] >= M[i - 1]
    BY <1>10, <2>1
  <2> QED BY <1>8, <2>1, <2>2
<1> QED BY <1>12, <1>13

\* The end of amplitude_code_to_u8: cut off, and rounded to a byte
U8(m) == ((IF m < 1003 THEN m ELSE 1003) * 255 + 501) \div 1003

\* amplitude_code_to_u8 fits a byte, silences code 0 and no other, and never makes a
\* stronger code weaker, whatever the code.
THEOREM AmplitudeRises ==
  /\ Data!AmplitudeToU8(0) = 0
  /\ \A i : i \in Nat /\ i >= 1 =>
       /\ Data!AmplitudeToU8(i) \in Nat
       /\ Data!AmplitudeToU8(i) >= 1 /\ Data!AmplitudeToU8(i) <= 255
       /\ Data!AmplitudeToU8(i) >= Data!AmplitudeToU8(i - 1)
<1>0. Data!AmplitudeToU8(0) = 0
  BY DEF Data!AmplitudeToU8
<1>1. ASSUME NEW m \in Nat, NEW n \in Nat, 8 <= m, m <= n
      PROVE  U8(m) \in Nat /\ U8(m) >= 1 /\ U8(n) <= 255 /\ U8(m) <= U8(n)
  BY <1>1 DEF U8
<1> DEFINE cap(i) == IF i < 100 THEN i ELSE 100
<1>2. ASSUME NEW i \in Nat, i >= 1
      PROVE  Data!AmplitudeToU8(i) = U8(Data!Milli(cap(i)))
  BY <1>2 DEF Data!AmplitudeToU8, U8
<1>3. ASSUME NEW i \in Nat, i >= 1
      PROVE /\ Data!AmplitudeToU8(i) \in Nat
            /\ Data!AmplitudeToU8(i) >= 1 /\ Data!AmplitudeToU8(i) <= 255
            /\ Data!AmplitudeToU8(i) >= Data!AmplitudeToU8(i - 1)
  <2>1. cap(i) \in 1..100
    BY <1>3
  <2>2. PICK n \in Nat : n = Data!Milli(cap(i)) /\ n >= 8
    BY <2>1, MilliRises
  <2>3. Data!AmplitudeToU8(i) = U8(n)
    BY <1>2, <1>3, <2>2
  <2>4. U8(n) \in Nat /\ U8(n) >= 1 /\ U8(n) <= 255
    BY <1>1, <2>2
  <2>5. CASE i = 1
    BY <1>0, <2>3, <2>4, <2>5
  <2>6. CASE i > 1
    <3>1. cap(i - 1) \in 1..100 /\ i - 1 \in Nat /\ i - 1 >= 1
      BY <2>6
    <3>2. PICK m \in Nat : m = Data!Milli(cap(i - 1)) /\ m >= 8
      BY <3>1, MilliRises
    <3>3. Data!AmplitudeToU8(i - 1) = U8(m)
      BY <1>2, <3>1, <3>2
    <3>4. m <= n
      <4>1. CASE i <= 100
        <5>1. cap(i) = i /\ cap(i - 1) = i - 1 /\ i \in 2..100
          BY <2>6, <4>1
        <5> QED BY <2>2, <3>2, <5>1, MilliRises
      <4>2. CASE i > 100
        <5>1. cap(i) = cap(i - 1)
          BY <4>2
        <5> QED BY <2>2, <3>2, <5>1
      <4> QED BY <4>1, <4>2
    <3>5. U8(m) <= U8(n)
      BY <1>1, <3>2, <3>4
    <3> QED BY <2>3, <2>4, <3>3, <3>5
  <2> QED BY <1>3, <2>5, <2>6
<1> QED BY <1>0, <1>3

-----------------------------------------------------------------------------
(* Rumble frequencies                                                      *)

\* The table of frequencies is what its recursive definition says.
LEMMA FrequencyEquation ==
  \A i : i \in 0..255 =>
    /\ Data!FrequencyMilliHz[i] \in Nat
    /\ Data!FrequencyMilliHz[i] =
         IF i <= 64 THEN 40000 ELSE Data!Higher(Data!FrequencyMilliHz[i - 1])
<1> DEFINE Eq(h) == h = [code \in 0..255 |-> IF code <= 64 THEN 40000
                                             ELSE Data!Higher(h[code - 1])]
<1>1. PICK m \in Nat, n \in Nat, c \in Nat : m = 0 /\ n = 255 /\ c = 40000
  OBVIOUS
<1>2. PICK step : step = [i \in Nat |-> [v \in Nat |-> IF i <= 64 THEN c
                                                       ELSE Data!Higher(v)]]
  OBVIOUS
<1>3. \A i \in Nat : \A v \in Nat : step[i][v] \in Nat
  BY <1>2 DEF Data!Higher
<1>3a. \A i \in Nat : \A v \in Nat : i <= 64 => step[i][v] = c
  BY <1>2
<1>3b. \A i \in Nat : \A v \in Nat : ~(i <= 64) => step[i][v] = Data!Higher(v)
  BY <1>2
<1>4. PICK g : g \in [m..n -> Nat] /\ Follows(g, m, n, c, step)
  BY <1>3, RecursionExists
<1>5. ASSUME NEW i \in 0..255
      PROVE  g[i] = IF i <= 64 THEN 40000 ELSE Data!Higher(g[i - 1])
  <2>1. i \in m..n /\ (i # m => i - 1 \in m..n)
    BY <1>1
  <2>2. i # m => g[i - 1] \in Nat /\ i \in Nat
    BY <1>4, <2>1
  <2>3. g[i] = IF i = m THEN c ELSE step[i][g[i - 1]]
    BY <1>4, <2>1 DEF Follows
  <2>4. CASE i = m
    BY <2>3, <2>4, <1>1
  <2>5. CASE i # m /\ i <= 64
    BY <2>2, <2>3, <2>5, <1>1, <1>3a
  <2>6. CASE i # m /\ ~(i <= 64)
    BY <2>2, <2>3, <2>6, <1>1, <1>3b
  <2> QED BY <2>4, <2>5, <2>6
<1>6. Eq(g)
  BY <1>1, <1>4, <1>5
<1>7. Eq(Data!FrequencyMilliHz)
  <2>2. Data!FrequencyMilliHz = CHOOSE h : Eq(h)
    BY DEF Data!FrequencyMilliHz
  <2> HIDE DEF Eq
  <2> QED BY <1>6, <2>2
<1>8. \A i \in 0..255 :
        Data!FrequencyMilliHz[i] =
          IF i <= 64 THEN 40000 ELSE Data!Higher(Data!FrequencyMilliHz[i - 1])
  <2> DEFINE F == Data!FrequencyMilliHz
  <2> HIDE DEF F
  <2>1. F = [code \in 0..255 |-> IF code <= 64 THEN 40000 ELSE Data!Higher(F[code - 1])]
    BY <1>7, SMTT(40) DEF F
  <2>2. ASSUME NEW i \in 0..255
        PROVE  F[i] = IF i <= 64 THEN 40000 ELSE Data!Higher(F[i - 1])
    BY <2>1
  <2> QED BY <2>2, SMTT(40) DEF F
<1>9. \A i \in 0..255 : Data!FrequencyMilliHz[i] \in Nat
  <2> DEFINE S == {i \in Nat : i <= 255 => Data!FrequencyMilliHz[i] \in Nat}
  <2>1. 0 \in S
    BY <1>8
  <2>2. ASSUME NEW i \in Nat, i \in S PROVE i + 1 \in S
    <3> SUFFICES ASSUME i + 1 <= 255 PROVE Data!FrequencyMilliHz[i + 1] \in Nat
      OBVIOUS
    <3>1. i + 1 \in 0..255 /\ (i + 1) - 1 = i /\ Data!FrequencyMilliHz[i] \in Nat
      BY <2>2
    <3> QED BY <1>8, <3>1 DEF Data!Higher
  <2>3. Nat \subseteq S
    <3> HIDE DEF S
    <3> QED BY <2>1, <2>2, Induction
  <2> QED BY <2>3
<1> QED BY <1>8, <1>9, SMTT(40)

\* From 40 Hz on, each code is one step above the last.
LEMMA FrequencyStep ==
  \A c : c \in Nat /\ 64 <= c /\ c <= 255 =>
     /\ Data!FrequencyMilliHz[c] \in Nat /\ Data!FrequencyMilliHz[c] >= 40000
     /\ c + 1 <= 255 =>
          Data!FrequencyMilliHz[c + 1] = Data!Higher(Data!FrequencyMilliHz[c])
<1> DEFINE F == [c \in 0..255 |-> Data!FrequencyMilliHz[c]]
<1>1. \A c : c \in 64..255 => F[c] \in Nat /\ (c # 64 => F[c] = Data!Higher(F[c - 1]))
  BY FrequencyEquation
<1>2. F[64] = 40000
  BY FrequencyEquation
<1>3. \A c : c \in 64..255 => Data!FrequencyMilliHz[c] = F[c]
  OBVIOUS
<1> HIDE DEF F
<1>4. ASSUME NEW v \in Nat, v >= 40000
      PROVE  Data!Higher(v) >= 40000
  BY <1>4 DEF Data!Higher
<1>5. \A c : c \in 64..255 => F[c] >= 40000
  <2> DEFINE S == {i \in Nat : 64 + i <= 255 => F[64 + i] >= 40000}
  <2>1. 0 \in S
    BY <1>2
  <2>2. ASSUME NEW i \in Nat, i \in S PROVE i + 1 \in S
    <3> SUFFICES ASSUME 64 + (i + 1) <= 255 PROVE F[64 + (i + 1)] >= 40000
      OBVIOUS
    <3>1. F[64 + i] >= 40000 /\ 64 + i \in 64..255 /\ 64 + (i + 1) \in 64..255
          /\ 64 + (i + 1) # 64 /\ (64 + (i + 1)) - 1 = 64 + i
      BY <2>2
    <3>2. F[64 + i] \in Nat /\ F[64 + (i + 1)] = Data!Higher(F[64 + i])
      BY <1>1, <3>1
    <3> QED BY <1>4, <3>1, <3>2
  <2>3. Nat \subseteq S
    <3> HIDE DEF S
    <3> QED BY <2>1, <2>2, Induction
  <2> SUFFICES ASSUME NEW c \in 64..255 PROVE F[c] >= 40000
    OBVIOUS
  <2>4. c - 64 \in Nat /\ 64 + (c - 64) = c
    OBVIOUS
  <2>5. c - 64 \in S
    BY <2>3, <2>4
  <2> QED BY <2>4, <2>5
<1> SUFFICES ASSUME NEW c \in Nat, 64 <= c, c <= 255
             PROVE  /\ Data!FrequencyMilliHz[c] \in Nat
                    /\ Data!FrequencyMilliHz[c] >= 40000
                    /\ c + 1 <= 255 =>
                         Data!FrequencyMilliHz[c + 1]
                           = Data!Higher(Data!FrequencyMilliHz[c])
  OBVIOUS
<1>6. c \in 64..255 /\ Data!FrequencyMilliHz[c] = F[c]
  BY <1>3
<1>7. F[c] \in Nat /\ F[c] >= 40000
  BY <1>1, <1>5, <1>6
<1>8. ASSUME c + 1 <= 255
      PROVE  Data!FrequencyMilliHz[c + 1] = Data!Higher(Data!FrequencyMilliHz[c])
  <2>1. c + 1 \in 64..255 /\ c + 1 # 64 /\ (c + 1) - 1 = c
    BY <1>8
  <2>2. Data!FrequencyMilliHz[c + 1] = F[c + 1] /\ F[c + 1] = Data!Higher(F[(c + 1) - 1])
    BY <1>1, <1>3, <2>1
  <2> QED BY <1>6, <2>1, <2>2
<1> QED BY <1>6, <1>7, <1>8

\* A step never goes down,
LEMMA HigherRises ==
  ASSUME NEW v \in Nat
  PROVE  Data!Higher(v) \in Nat /\ Data!Higher(v) >= v
BY DEF Data!Higher

\* nor do several,
LEMMA FrequencyRises ==
  \A d : d \in Nat => \A c : c \in Nat /\ 64 <= c /\ c + d <= 255 =>
     Data!FrequencyMilliHz[c] <= Data!FrequencyMilliHz[c + d]
<1> DEFINE S == {d \in Nat : \A c : c \in Nat /\ 64 <= c /\ c + d <= 255 =>
                   Data!FrequencyMilliHz[c] <= Data!FrequencyMilliHz[c + d]}
<1>1. 0 \in S
  <2> SUFFICES ASSUME NEW c \in Nat, 64 <= c, c + 0 <= 255
               PROVE  Data!FrequencyMilliHz[c] <= Data!FrequencyMilliHz[c + 0]
    OBVIOUS
  <2>1. Data!FrequencyMilliHz[c] \in Nat /\ c + 0 = c
    BY FrequencyStep
  <2> QED BY <2>1
<1>2. ASSUME NEW d \in Nat, d \in S PROVE d + 1 \in S
  <2> SUFFICES ASSUME NEW c \in Nat, 64 <= c, c + (d + 1) <= 255
               PROVE  Data!FrequencyMilliHz[c] <= Data!FrequencyMilliHz[c + (d + 1)]
    OBVIOUS
  <2>1. /\ c + d \in Nat /\ 64 <= c + d /\ c + d <= 255 /\ (c + d) + 1 = c + (d + 1)
        /\ c <= 255
    OBVIOUS
  <2>2. Data!FrequencyMilliHz[c] <= Data!FrequencyMilliHz[c + d]
    BY <1>2, <2>1
  <2>3. /\ Data!FrequencyMilliHz[c] \in Nat /\ Data!FrequencyMilliHz[c + d] \in Nat
        /\ Data!FrequencyMilliHz[(c + d) + 1] = Data!Higher(Data!FrequencyMilliHz[c + d])
    BY <2>1, FrequencyStep
  <2>4. /\ Data!Higher(Data!FrequencyMilliHz[c + d]) \in Nat
        /\ Data!Higher(Data!FrequencyMilliHz[c + d]) >= Data!FrequencyMilliHz[c + d]
    BY <2>3, HigherRises
  <2> QED BY <2>1, <2>2, <2>3, <2>4
<1>3. Nat \subseteq S
  <2> HIDE DEF S
  <2> QED BY <1>1, <1>2, Induction
<1> QED BY <1>3

\* so the frequencies are in the order of their codes.
LEMMA FrequencyOrder ==
  ASSUME NEW c \in Nat, NEW e \in Nat, 64 <= c, c <= e, e <= 255
  PROVE  Data!FrequencyMilliHz[c] <= Data!FrequencyMilliHz[e]
<1>1. PICK d \in Nat : d = e - c /\ c + d = e
  OBVIOUS
<1> QED BY <1>1, FrequencyRises, ZenonT(40)

\* In k codes a frequency grows by p hundred-thousandths at most.
Within(k, p) ==
  \A c : c \in Nat /\ 64 <= c /\ c + k <= 255 =>
    100000 * Data!FrequencyMilliHz[c + k] <= p * Data!FrequencyMilliHz[c]

\* n codes are twice k, and r is the square of p rounded up.
Squared(k, p, n, r) == n = k + k /\ p * p <= 100000 * r

\* Products are in the order of their factors.
LEMMA TimesMonotone ==
  ASSUME NEW p \in Nat, NEW a \in Nat, NEW b \in Nat, a <= b
  PROVE  p * a <= p * b
OBVIOUS

\* In twice as many codes it grows by the square.
LEMMA WithinSquared ==
  ASSUME NEW k \in Nat, NEW p \in Nat, NEW n \in Nat, NEW r \in Nat, Within(k, p),
         Squared(k, p, n, r)
  PROVE  Within(n, r)
<1>s. n = k + k
  BY DEF Squared
<1>q. p * p <= 100000 * r
  BY DEF Squared
<1> SUFFICES ASSUME NEW c \in Nat, 64 <= c, c + n <= 255
             PROVE  100000 * Data!FrequencyMilliHz[c + n] <= r * Data!FrequencyMilliHz[c]
  BY DEF Within
<1>1. /\ c + k \in Nat /\ 64 <= c + k /\ (c + k) + k = c + n /\ c + k <= 255
      /\ c + n \in Nat /\ 64 <= c + n
  BY <1>s
<1>2. PICK x \in Nat, y \in Nat, z \in Nat :
        /\ x = Data!FrequencyMilliHz[c] /\ y = Data!FrequencyMilliHz[c + k]
        /\ z = Data!FrequencyMilliHz[c + n]
  <2>1. /\ Data!FrequencyMilliHz[c] \in Nat /\ Data!FrequencyMilliHz[c + k] \in Nat
        /\ Data!FrequencyMilliHz[c + n] \in Nat
    BY <1>1, FrequencyStep
  <2> QED BY <2>1
<1>3. 100000 * y <= p * x /\ 100000 * z <= p * y
  <2>1. 100000 * Data!FrequencyMilliHz[c + k] <= p * Data!FrequencyMilliHz[c]
    BY <1>1 DEF Within
  <2>2. 100000 * Data!FrequencyMilliHz[(c + k) + k] <= p * Data!FrequencyMilliHz[c + k]
    BY <1>1 DEF Within
  <2> QED BY <1>1, <1>2, <2>1, <2>2
<1>4. p * (100000 * y) <= p * (p * x)
  BY <1>3, TimesMonotone
<1>5. x * (p * p) <= x * (100000 * r)
  BY <1>q, TimesMonotone
<1>6. 100000 * (100000 * z) <= 100000 * (p * y)
  BY <1>3
<1>7. p * (100000 * y) = 100000 * (p * y) /\ p * (p * x) = x * (p * p)
      /\ x * (100000 * r) = 100000 * (r * x)
  OBVIOUS
<1>8. p * y \in Nat /\ r * x \in Nat /\ x * (p * p) \in Nat
  OBVIOUS
<1>9. 100000 * z <= r * x
  BY <1>4, <1>5, <1>6, <1>7, <1>8
<1> QED BY <1>2, <1>9

\* An octave of 32 codes is little more than a doubling, although every step rounds.
LEMMA Octave == Within(32, 200186)
<1>1. Within(1, 102192)
  <2> SUFFICES ASSUME NEW c \in Nat, 64 <= c, c + 1 <= 255
               PROVE  100000 * Data!FrequencyMilliHz[c + 1]
                        <= 102192 * Data!FrequencyMilliHz[c]
    BY DEF Within
  <2>1. PICK x \in Nat : x = Data!FrequencyMilliHz[c] /\ x >= 40000
    BY FrequencyStep
  <2>2. Data!FrequencyMilliHz[c + 1] = Data!Higher(x)
    BY <2>1, FrequencyStep
  <2> QED BY <2>1, <2>2 DEF Data!Higher
<1>2. PICK one \in Nat, two \in Nat, four \in Nat, eight \in Nat, sixteen \in Nat,
           all \in Nat :
        one = 1 /\ two = 2 /\ four = 4 /\ eight = 8 /\ sixteen = 16 /\ all = 32
  OBVIOUS
<1>3. PICK p \in Nat, q \in Nat, r \in Nat, s \in Nat, t \in Nat, u \in Nat :
        /\ p = 102192 /\ q = 104433 /\ r = 109063
        /\ s = 118948 /\ t = 141487 /\ u = 200186
  OBVIOUS
<1>4. /\ Squared(one, p, two, q) /\ Squared(two, q, four, r)
      /\ Squared(four, r, eight, s) /\ Squared(eight, s, sixteen, t)
      /\ Squared(sixteen, t, all, u)
  BY <1>2, <1>3 DEF Squared
<1>5. Within(one, p)
  BY <1>1, <1>2, <1>3
<1>6. Within(two, q) /\ Within(four, r)
  BY <1>4, <1>5, WithinSquared
<1>7. Within(eight, s) /\ Within(sixteen, t)
  BY <1>4, <1>6, WithinSquared, SMTT(40)
<1>8. Within(all, u)
  BY <1>4, <1>7, WithinSquared, SMTT(40)
<1> QED BY <1>2, <1>3, <1>8

\* What the haptics stream carries, with 3000 samples a second
Audible == 40..1499

\* frequency_code_to_hz stays below 1.5 kHz for all codes a command can hold: they
\* span five octaves above 40 Hz.
THEOREM FrequencyRange ==
  ASSUME NEW c \in Nat, 64 <= c, c <= 223
  PROVE  Data!FrequencyHz(c) \in Audible
<1>1. /\ Data!FrequencyMilliHz[64] = 40000
      /\ Data!FrequencyMilliHz[96] \in Nat /\ Data!FrequencyMilliHz[128] \in Nat
      /\ Data!FrequencyMilliHz[160] \in Nat /\ Data!FrequencyMilliHz[192] \in Nat
      /\ Data!FrequencyMilliHz[224] \in Nat /\ Data!FrequencyMilliHz[c] \in Nat
      /\ Data!FrequencyMilliHz[c] >= 40000
  BY FrequencyEquation, FrequencyStep
<1>2. /\ 100000 * Data!FrequencyMilliHz[96] <= 200186 * Data!FrequencyMilliHz[64]
      /\ 100000 * Data!FrequencyMilliHz[128] <= 200186 * Data!FrequencyMilliHz[96]
      /\ 100000 * Data!FrequencyMilliHz[160] <= 200186 * Data!FrequencyMilliHz[128]
      /\ 100000 * Data!FrequencyMilliHz[192] <= 200186 * Data!FrequencyMilliHz[160]
      /\ 100000 * Data!FrequencyMilliHz[224] <= 200186 * Data!FrequencyMilliHz[192]
  <2>1. \A i : i \in Nat /\ 64 <= i /\ i + 32 <= 255 =>
          100000 * Data!FrequencyMilliHz[i + 32] <= 200186 * Data!FrequencyMilliHz[i]
    BY Octave DEF Within
  <2> QED BY <2>1
<1>3. Data!FrequencyMilliHz[224] <= 1400000
  BY <1>1, <1>2
<1>4. Data!FrequencyMilliHz[c] <= Data!FrequencyMilliHz[224]
  <2>1. PICK e \in Nat : e = 224
    OBVIOUS
  <2> QED BY <2>1, FrequencyOrder
<1>5. PICK f \in Nat : f = Data!FrequencyMilliHz[c] /\ 40000 <= f /\ f <= 1400000
  BY <1>1, <1>3, <1>4
<1> QED BY <1>5, SMTT(40) DEF Data!FrequencyHz, Audible

\* The codes of a command are such codes, whatever its bytes.
LEMMA DecodedFrequencies ==
  ASSUME NEW d, d[1] \in Nat, d[2] \in Nat, d[3] \in Nat,
         d[1] <= 255, d[2] <= 255, d[3] <= 255
  PROVE  /\ Data!DecodeActuator(d).lowHz \in Audible
         /\ Data!DecodeActuator(d).highHz \in Audible
<1>0. PICK x \in Nat, y \in Nat, z \in Nat :
        x = d[1] /\ y = d[2] /\ z = d[3] /\ x <= 255 /\ y <= 255 /\ z <= 255
  OBVIOUS
<1> DEFINE l == 64 + (z % 128)
           h == 96 + (x + 256 * (y % 2)) \div 4
<1>a. l \in Nat /\ 64 <= l /\ l <= 223
  OBVIOUS
<1>b. h \in Nat /\ 64 <= h /\ h <= 223
  BY <1>0
<1>1. PICK lo \in Nat, hi \in Nat :
        /\ lo = l /\ 64 <= lo /\ lo <= 223
        /\ hi = h /\ 64 <= hi /\ hi <= 223
  <2> HIDE DEF l, h
  <2> QED BY <1>a, <1>b
<1>2. /\ Data!LowFrequency(d) = Data!FrequencyHz(lo)
      /\ Data!HighFrequency(d) = Data!FrequencyHz(hi)
  BY <1>0, <1>1 DEF Data!LowFrequency, Data!HighFrequency
<1>3. /\ Data!DecodeActuator(d).lowHz = Data!FrequencyHz(lo)
      /\ Data!DecodeActuator(d).highHz = Data!FrequencyHz(hi)
  BY <1>2 DEF Data!DecodeActuator
<1>4. Data!FrequencyHz(lo) \in Audible
  BY <1>1, FrequencyRange
<1>5. Data!FrequencyHz(hi) \in Audible
  BY <1>1, FrequencyRange
<1> QED BY <1>3, <1>4, <1>5, Zenon

\* What the run checks of rumble commands
LEMMA RumbleIsSound == byte \in 0..255 => Data!RumbleSound
<1> SUFFICES ASSUME byte \in 0..255 PROVE Data!RumbleSound
  OBVIOUS
<1>1. PICK code \in Nat : code = byte % 128
  OBVIOUS
<1>2. code > 0 => Data!AmplitudeToU8(code) >= Data!AmplitudeToU8(code - 1)
  BY AmplitudeRises
<1>3. Data!AmplitudeToU8(code) \in 0..255 /\ (Data!AmplitudeToU8(code) = 0 <=> code = 0)
  <2>1. PICK u \in Nat : u = Data!AmplitudeToU8(code) /\ u <= 255 /\ (u = 0 <=> code = 0)
    <3>1. CASE code = 0
      BY <3>1, AmplitudeRises
    <3>2. CASE code # 0
      BY <3>2, AmplitudeRises
    <3> QED BY <3>1, <3>2
  <2> QED BY <2>1
<1> DEFINE one == <<byte, byte, byte, byte>>
           two == <<byte, 255, byte, byte>>
<1>4. /\ one[1] \in Nat /\ one[2] \in Nat /\ one[3] \in Nat
      /\ one[1] <= 255 /\ one[2] <= 255 /\ one[3] <= 255
      /\ two[1] \in Nat /\ two[2] \in Nat /\ two[3] \in Nat
      /\ two[1] <= 255 /\ two[2] <= 255 /\ two[3] <= 255
  OBVIOUS
<1>5. \A a \in {Data!DecodeActuator(one), Data!DecodeActuator(two)} :
        a.lowHz \in Audible /\ a.highHz \in Audible
  <2> HIDE DEF one, two
  <2>1. /\ Data!DecodeActuator(one).lowHz \in Audible
        /\ Data!DecodeActuator(one).highHz \in Audible
    BY <1>4, DecodedFrequencies, Zenon
  <2>2. /\ Data!DecodeActuator(two).lowHz \in Audible
        /\ Data!DecodeActuator(two).highHz \in Audible
    BY <1>4, DecodedFrequencies, Zenon
  <2> QED BY <2>1, <2>2, Zenon
<1>6. Data!RumbleSound <=>
   /\ byte % 128 > 0 =>
        Data!AmplitudeToU8(byte % 128) >= Data!AmplitudeToU8((byte % 128) - 1)
   /\ Data!AmplitudeToU8(byte % 128) \in 0..255
   /\ Data!AmplitudeToU8(byte % 128) = 0 <=> byte % 128 = 0
   /\ \A a \in {Data!DecodeActuator(one), Data!DecodeActuator(two)} :
        a.lowHz \in Audible /\ a.highHz \in Audible
  BY Zenon DEF Data!RumbleSound, Audible
<1> HIDE DEF one, two
<1>7. byte % 128 > 0 =>
        Data!AmplitudeToU8(byte % 128) >= Data!AmplitudeToU8((byte % 128) - 1)
  BY <1>1, <1>2
<1>8. /\ Data!AmplitudeToU8(byte % 128) \in 0..255
      /\ Data!AmplitudeToU8(byte % 128) = 0 <=> byte % 128 = 0
  BY <1>1, <1>3, Zenon
<1> QED BY <1>5, <1>6, <1>7, <1>8, Zenon

-----------------------------------------------------------------------------
(* The ramp of the synthesiser                                             *)

\* A sample of the ramp brings the amplitude nearer to its target and never beyond,
\* and the last one to it.
LEMMA ApproachesTarget ==
  ASSUME NEW a \in Int, NEW to \in Int, NEW r \in Nat, r > 0
  PROVE  /\ Data!Approach(a, to, r) \in Int
         /\ a <= to => a <= Data!Approach(a, to, r) /\ Data!Approach(a, to, r) <= to
         /\ to <= a => to <= Data!Approach(a, to, r) /\ Data!Approach(a, to, r) <= a
         /\ r = 1 => Data!Approach(a, to, r) = to
<1>1. ASSUME NEW x \in Nat
      PROVE  x \div r \in Nat /\ x \div r <= x /\ (r = 1 => x \div r = x)
  OBVIOUS
<1>2. CASE a <= to
  <2>1. to - a \in Nat
    BY <1>2
  <2>2. Data!Approach(a, to, r) = a + ((to - a) \div r)
    BY <2>1 DEF Data!Approach, Data!Quot
  <2> QED BY <1>1, <1>2, <2>1, <2>2
<1>3. CASE to < a
  <2>1. a - to \in Nat
    BY <1>3
  <2>2. Data!Approach(a, to, r) = a - ((a - to) \div r)
    BY <1>3 DEF Data!Approach, Data!Quot
  <2> QED BY <1>1, <1>3, <2>1, <2>2
<1> QED BY <1>2, <1>3

\* h lists the amplitudes of a ramp of n samples.
Ramps(h, from, to, n) ==
  /\ Data!Ramp(from, to, n) = h[n] /\ h[0] = from
  /\ \A i : i \in Nat /\ i < n => h[i + 1] = Data!Approach(h[i], to, 16 - i)

\* There is such a list.
LEMMA RampIs ==
  ASSUME NEW from \in Int, NEW to \in Int, NEW n \in Nat, n <= 16
  PROVE  \E h : Ramps(h, from, to, n)
<1>0. PICK zero \in Nat : zero = 0
  OBVIOUS
<1>1. PICK step : step = [i \in Nat |-> [v \in Int |->
                            IF i \in 1..16
                            THEN Data!Approach(v, to, 16 - (i - 1)) ELSE v]]
  OBVIOUS
<1>2. \A i \in Nat : \A v \in Int : step[i][v] \in Int
  <2> SUFFICES ASSUME NEW i \in Nat, NEW v \in Int PROVE step[i][v] \in Int
    OBVIOUS
  <2>1. CASE i \in 1..16
    <3>1. 16 - (i - 1) \in Nat /\ 16 - (i - 1) > 0
      BY <2>1
    <3>2. Data!Approach(v, to, 16 - (i - 1)) \in Int
      BY <3>1, ApproachesTarget
    <3> QED BY <1>1, <2>1, <3>2
  <2>2. CASE i \notin 1..16
    BY <1>1, <2>2
  <2> QED BY <2>1, <2>2
<1>3. \A i \in 1..n : \A v \in Int : step[i][v] = Data!Approach(v, to, 16 - (i - 1))
  BY <1>1
<1>4. PICK g : g \in [zero..n -> Int] /\ Follows(g, zero, n, from, step)
  BY <1>2, RecursionExists
<1> DEFINE Eq(h) == h = [i \in 0..n |-> IF i = 0 THEN from
                                        ELSE Data!Approach(h[i - 1], to, 16 - (i - 1))]
<1>5. ASSUME NEW i \in 0..n
      PROVE  g[i] = IF i = 0 THEN from ELSE Data!Approach(g[i - 1], to, 16 - (i - 1))
  <2>1. i \in zero..n /\ (i # 0 => i - 1 \in zero..n /\ i \in 1..n)
    BY <1>0
  <2>2. i # 0 => g[i - 1] \in Int
    BY <1>4, <2>1
  <2>3. g[i] = IF i = zero THEN from ELSE step[i][g[i - 1]]
    BY <1>4, <2>1 DEF Follows
  <2> QED BY <1>0, <1>3, <2>1, <2>2, <2>3
<1>6. Eq(g)
  BY <1>0, <1>4, <1>5
<1>7. PICK h : Eq(h) /\ Data!Ramp(from, to, n) = h[n]
  <2>1. Data!Ramp(from, to, n) = (CHOOSE h : Eq(h))[n]
    BY DEF Data!Ramp, Data!AMPLITUDE_RAMP_SAMPLES
  <2> HIDE DEF Eq
  <2> QED BY <1>6, <2>1
<1>8. h[0] = from
  BY <1>7
<1>9. ASSUME NEW i \in Nat, i < n PROVE h[i + 1] = Data!Approach(h[i], to, 16 - i)
  <2>1. i + 1 \in 0..n /\ i + 1 # 0 /\ (i + 1) - 1 = i
    BY <1>9
  <2>2. h[i + 1] = Data!Approach(h[(i + 1) - 1], to, 16 - ((i + 1) - 1))
    BY <1>7, <2>1
  <2> QED BY <2>1, <2>2
<1> HIDE DEF Eq
<1>10. Ramps(h, from, to, n)
  BY <1>7, <1>8, <1>9 DEF Ramps
<1> QED BY <1>10

\* v is between both ends, in whichever order they are.
Between(from, v, to) ==
  /\ v \in Int
  /\ from <= to => from <= v /\ v <= to
  /\ to <= from => to <= v /\ v <= from

\* render_oscillator keeps the amplitude between its start and its target for any two
\* amplitudes, and after sixteen samples it is at the target: divisions that round
\* towards zero lose nothing in the end.
THEOREM RampArrives ==
  ASSUME NEW from \in Int, NEW to \in Int, NEW n \in Nat, n <= 16
  PROVE  /\ Between(from, Data!Ramp(from, to, n), to)
         /\ n = 16 => Data!Ramp(from, to, n) = to
<1>1. PICK h : Ramps(h, from, to, n)
  BY RampIs
<1>2. ASSUME NEW i \in Nat, i < n, Between(from, h[i], to)
      PROVE  Between(from, h[i + 1], to) /\ (i = 15 => h[i + 1] = to)
  <2>1. PICK a \in Int, r \in Nat : a = h[i] /\ r = 16 - i /\ r > 0
    BY <1>2 DEF Between
  <2>2. h[i + 1] = Data!Approach(a, to, r)
    BY <1>1, <1>2, <2>1 DEF Ramps
  <2>3. Between(from, a, to)
    BY <1>2, <2>1
  <2>4. i = 15 => r = 1
    BY <2>1
  <2>5. PICK b \in Int :
          /\ b = Data!Approach(a, to, r)
          /\ a <= to => a <= b /\ b <= to
          /\ to <= a => to <= b /\ b <= a
          /\ r = 1 => b = to
    <3>1. /\ Data!Approach(a, to, r) \in Int
          /\ a <= to => a <= Data!Approach(a, to, r) /\ Data!Approach(a, to, r) <= to
          /\ to <= a => to <= Data!Approach(a, to, r) /\ Data!Approach(a, to, r) <= a
          /\ r = 1 => Data!Approach(a, to, r) = to
      BY <2>1, ApproachesTarget
    <3> QED BY <3>1
  <2>6. Between(from, b, to) /\ (i = 15 => b = to)
    BY <2>3, <2>4, <2>5 DEF Between
  <2> QED BY <2>2, <2>5, <2>6
<1> DEFINE S == {i \in Nat : i <= n => Between(from, h[i], to)}
<1>3. 0 \in S
  BY <1>1 DEF Ramps, Between
<1>4. ASSUME NEW i \in Nat, i \in S PROVE i + 1 \in S
  BY <1>2, <1>4
<1>5. Nat \subseteq S
  <2> HIDE DEF S
  <2> QED BY <1>3, <1>4, Induction
<1>6. Between(from, h[n], to)
  BY <1>5
<1>7. ASSUME n = 16 PROVE h[n] = to
  <2>1. PICK i \in Nat : i = 15 /\ i < n /\ i + 1 = n
    BY <1>7
  <2>2. Between(from, h[i], to)
    BY <1>5, <2>1
  <2> QED BY <1>2, <2>1, <2>2
<1> QED BY <1>1, <1>6, <1>7 DEF Ramps

\* What the run checks of the ramp
LEMMA RampIsSound == byte \in 0..255 => Data!RampSound
<1> SUFFICES ASSUME byte \in 0..255, NEW from \in {0, 256, 255 * 256}
             PROVE  /\ Data!Ramp(from, 256 * byte, 16) = 256 * byte
                    /\ \A n \in 0..16 :
                         /\ Data!Ramp(from, 256 * byte, n)
                              <= IF from < 256 * byte THEN 256 * byte ELSE from
                         /\ Data!Ramp(from, 256 * byte, n)
                              >= IF from < 256 * byte THEN from ELSE 256 * byte
  BY DEF Data!RampSound, Data!AMPLITUDE_RAMP_SAMPLES
<1>1. PICK f \in Int, to \in Int : f = from /\ to = 256 * byte
  OBVIOUS
<1>2. Data!Ramp(f, to, 16) = to
  <2>1. PICK n \in Nat : n = 16
    OBVIOUS
  <2> QED BY <2>1, RampArrives
<1>3. ASSUME NEW n \in 0..16
      PROVE /\ Data!Ramp(f, to, n) <= IF f < to THEN to ELSE f
            /\ Data!Ramp(f, to, n) >= IF f < to THEN f ELSE to
  <2>1. Between(f, Data!Ramp(f, to, n), to)
    BY RampArrives
  <2> QED BY <2>1 DEF Between
<1> QED BY <1>1, <1>2, <1>3

-----------------------------------------------------------------------------
(* The sine and the mix                                                    *)

\* A sample in Q15 times an amplitude
LEMMA TimesBound ==
  ASSUME NEW x \in Int, NEW a \in Nat, -32767 <= x, x <= 32767
  PROVE  /\ x * a \in Int /\ -(32767 * a) <= x * a /\ x * a <= 32767 * a
OBVIOUS

\* The sum of sine_q15 in the upper half wave is positive at every phase: the
\* correction lowers the parabola by less than its value, and never raises it.
LEMMA SineRises ==
  ASSUME NEW p \in Nat, p >= 1, p <= 32767
  PROVE  /\ Data!SineSum(p) \in Int
         /\ Data!SineSum(p) > 0 /\ Data!SineSum(p) <= 32768
<1> DEFINE y == (4 * p * (32768 - p)) \div 32768
           c == (7373 * ((y * y) \div 32768 - y)) \div 32768
<1>1. p < 32768 /\ Data!Abs(p) = p
  BY DEF Data!Abs
<1>2. y \in Nat /\ y >= 3 /\ y <= 32768
  <2>1. p * (32768 - p) >= 32767 /\ p * (32768 - p) \in Nat
    OBVIOUS
  <2>2. p * (32768 - p) <= 16384 * 16384
    <3>1. PICK d \in Int : d = p - 16384
      OBVIOUS
    <3>2. p * (32768 - p) = 16384 * 16384 - d * d /\ d * d >= 0
      BY <3>1
    <3> QED BY <3>2, <2>1
  <2> QED BY <2>1, <2>2
<1>3. Data!Abs(y) = y
  BY <1>2 DEF Data!Abs
<1>4. Data!SineSum(p) = y + c
  <2>1. Data!Parabola(p) = y
    BY <1>1 DEF Data!Parabola
  <2>2. Data!Corrected(y) = y + c
    BY <1>3 DEF Data!Corrected
  <2> QED BY <1>1, <2>1, <2>2 DEF Data!SineSum, Data!Turn
<1> HIDE DEF y
<1>5. y + c \in Int /\ y + c > 0 /\ y + c <= 32768
  <2>1. PICK z \in Nat : z = (y * y) \div 32768
    BY <1>2
  <2>2. c = (7373 * (z - y)) \div 32768
    BY <2>1
  <2>3. z <= y
    <3>1. PICK n \in Nat : n = y * y
      BY <1>2
    <3>2. n <= 32768 * y
      BY <1>2, <3>1
    <3> QED BY <1>2, <2>1, <3>1, <3>2
  <2> HIDE DEF c
  <2>4. c \in Int /\ y + c > 0
    BY <1>2, <2>1, <2>2
  <2>5. c <= 0
    <3>1. PICK k \in Nat : k = y - z
      BY <1>2, <2>1, <2>3
    <3>2. c = (7373 * (-k)) \div 32768
      BY <1>2, <2>1, <2>2, <3>1
    <3> QED BY <3>1, <3>2
  <2> QED BY <1>2, <2>4, <2>5
<1> HIDE DEF c
<1> QED BY <1>4, <1>5

\* The lower one is negative.
LEMMA SineFalls ==
  ASSUME NEW p \in Nat, p >= 32769, p <= 65535
  PROVE  /\ Data!SineSum(p) \in Int
         /\ Data!SineSum(p) < 0 /\ Data!SineSum(p) >= -32768
<1> DEFINE x == p - 65536
           y == (4 * x * (32768 + x)) \div 32768
           c == (7373 * ((y * (-y)) \div 32768 - y)) \div 32768
<1>1. p >= 32768 /\ Data!Abs(x) = -x
  BY DEF Data!Abs
<1>2. y \in Int /\ y <= -3 /\ y >= -32768
  <2>1. (-x) * (32768 + x) >= 32767 /\ (-x) * (32768 + x) \in Nat
    OBVIOUS
  <2>2. 4 * x * (32768 + x) = -(4 * ((-x) * (32768 + x)))
    OBVIOUS
  <2>3. (-x) * (32768 + x) <= 16384 * 16384
    <3>1. PICK d \in Int : d = x + 16384
      OBVIOUS
    <3>2. (-x) * (32768 + x) = 16384 * 16384 - d * d /\ d * d >= 0
      BY <3>1
    <3> QED BY <3>2, <2>1
  <2> QED BY <2>1, <2>2, <2>3
<1>3. Data!Abs(y) = -y
  BY <1>2 DEF Data!Abs
<1>4. Data!SineSum(p) = y + c
  <2>1. Data!Parabola(x) = y
    <3>1. 32768 - Data!Abs(x) = 32768 + x
      BY <1>1
    <3> QED BY <3>1 DEF Data!Parabola
  <2>2. Data!Corrected(y) = y + c
    BY <1>3 DEF Data!Corrected
  <2>3. Data!Turn(p) = x
    BY <1>1 DEF Data!Turn
  <2> HIDE DEF x, y, c
  <2> QED BY <2>1, <2>2, <2>3 DEF Data!SineSum
<1> HIDE DEF x, y
<1>5. y + c \in Int /\ y + c < 0 /\ y + c >= -32768
  <2>1. PICK m \in Nat : m = -y /\ m >= 3 /\ m <= 32768
    BY <1>2
  <2>2. PICK n \in Nat : n = m * m
    BY <2>1
  <2>3. n <= 32768 * m
    BY <2>1, <2>2
  <2>4. y * (-y) = -n
    BY <1>2, <2>1, <2>2
  <2>5. PICK z \in Int : z = (y * (-y)) \div 32768 /\ z <= 0 /\ z >= -m
    BY <2>1, <2>2, <2>3, <2>4
  <2>6. c = (7373 * (z + m)) \div 32768
    BY <1>2, <2>1, <2>5
  <2> HIDE DEF c
  <2>7. c \in Int /\ c >= 0
    <3>1. PICK k \in Nat : k = z + m
      BY <2>1, <2>5
    <3>2. c = (7373 * k) \div 32768
      BY <2>6, <3>1
    <3> QED BY <3>1, <3>2
  <2>8. y + c < 0
    BY <1>2, <2>1, <2>5, <2>6
  <2> QED BY <1>2, <2>7, <2>8
<1> HIDE DEF c
<1> QED BY <1>4, <1>5

\* At the two zeros of the sine the sum is 0.
LEMMA SineZeros == Data!SineSum(0) = 0 /\ Data!SineSum(32768) = 0
BY DEF Data!SineSum, Data!Turn, Data!Parabola, Data!Corrected, Data!Abs

\* Within Q15 at every phase, and nothing but the sum before the clamp decides.
LEMMA SineBounded ==
  ASSUME NEW p \in Nat, p <= 65535
  PROVE  /\ Data!SineQ15(p) \in Int
         /\ -32767 <= Data!SineQ15(p) /\ Data!SineQ15(p) <= 32767
         /\ Data!SineSum(p) \in Int
         /\ -32768 <= Data!SineSum(p) /\ Data!SineSum(p) <= 32768
         /\ Data!SineQ15(p) > 0 <=> Data!SineSum(p) > 0
         /\ Data!SineQ15(p) < 0 <=> Data!SineSum(p) < 0
<1>1. /\ Data!SineSum(p) \in Int
      /\ -32768 <= Data!SineSum(p) /\ Data!SineSum(p) <= 32768
  <2>1. CASE p = 0 \/ p = 32768
    BY <2>1, SineZeros
  <2>2. CASE p >= 1 /\ p <= 32767
    BY <2>2, SineRises
  <2>3. CASE p >= 32769
    BY <2>3, SineFalls
  <2> QED BY <2>1, <2>2, <2>3
<1> QED BY <1>1 DEF Data!SineQ15, Data!Clamp

\* sine_q15 is a wave although its sum is rounded twice: above zero in the whole of
\* the first half turn and below it in the whole of the second, the same from both
\* ends of the first half, and with peaks that the clamp cuts by one at most.
THEOREM SineIsAWave ==
  ASSUME NEW p \in Nat, p <= 65535
  PROVE  /\ Data!SineQ15(p) > 0 <=> p > 0 /\ p < 32768
         /\ Data!SineQ15(p) < 0 <=> p > 32768
         /\ p <= 32768 => Data!SineQ15(32768 - p) = Data!SineQ15(p)
         /\ -32768 <= Data!SineSum(p) /\ Data!SineSum(p) <= 32768
<1>1. /\ Data!SineSum(p) > 0 <=> p > 0 /\ p < 32768
      /\ Data!SineSum(p) < 0 <=> p > 32768
  <2>1. CASE p = 0 \/ p = 32768
    BY <2>1, SineZeros
  <2>2. CASE p >= 1 /\ p <= 32767
    BY <2>2, SineRises
  <2>3. CASE p >= 32769
    BY <2>3, SineFalls
  <2> QED BY <2>1, <2>2, <2>3
<1>2. ASSUME p <= 32768 PROVE Data!SineSum(32768 - p) = Data!SineSum(p)
  <2>1. CASE p = 0 \/ p = 32768
    BY <2>1, SineZeros
  <2>2. CASE p >= 1 /\ p <= 32767
    <3>1. Data!Abs(p) = p /\ Data!Abs(32768 - p) = 32768 - p
      BY <2>2 DEF Data!Abs
    <3>2. 4 * (32768 - p) * p = 4 * p * (32768 - p)
      OBVIOUS
    <3>3. 32768 - (32768 - p) = p /\ ~(32768 - p >= 32768) /\ ~(p >= 32768)
      BY <2>2
    <3>4. Data!Parabola(32768 - p) = Data!Parabola(p)
      BY <3>1, <3>2, <3>3 DEF Data!Parabola
    <3> QED BY <3>3, <3>4 DEF Data!SineSum, Data!Turn
  <2> QED BY <1>2, <2>1, <2>2
<1> QED BY <1>1, <1>2, SineBounded DEF Data!SineQ15

\* A sum of bands is a little more than one band at most, by the rounding of the sum
\* of the amplitudes.
NearlyQ15(v) == v \in Int /\ -32830 <= v /\ v <= 32830

\* A sample of the haptics stream
Signed8 == -127..127

\* Two bands at any amplitudes are normalised to one.
LEMMA NormalizedFits ==
  ASSUME NEW l \in Int, NEW h \in Int, NEW a \in Nat, NEW b \in Nat,
         -32767 <= l, l <= 32767, -32767 <= h, h <= 32767
  PROVE  NearlyQ15(Data!Normalized(l, a, h, b))
<1> DEFINE mixed == (l * a) \div 256 + (h * b) \div 256
           total == (a + b + 128) \div 256
           n == IF total > 255 THEN total ELSE 255
<1>1. Data!Normalized(l, a, h, b) = Data!Quot(mixed, n)
  BY DEF Data!Normalized
<1>2. mixed \in Int /\ n \in Nat /\ n >= 255 /\ mixed < 32831 * n /\ -mixed < 32831 * n
  <2>1. PICK u \in Int : u = l * a /\ -(32767 * a) <= u /\ u <= 32767 * a
    BY TimesBound
  <2>2. PICK v \in Int : v = h * b /\ -(32767 * b) <= v /\ v <= 32767 * b
    BY TimesBound
  <2>3. PICK m \in Int : m = mixed /\ m = u \div 256 + v \div 256
    BY <2>1, <2>2
  <2>4. n \in Nat /\ n >= 255 /\ a + b <= 256 * n + 127
    OBVIOUS
  <2> HIDE DEF mixed, total, n
  <2>5. 256 * m <= 32767 * (a + b) /\ 256 * m >= -(32767 * (a + b)) - 512
    BY <2>1, <2>2, <2>3
  <2> QED BY <2>3, <2>4, <2>5
<1> HIDE DEF mixed, n
<1>3. ASSUME NEW m \in Nat, m < 32831 * n PROVE m \div n \in Nat /\ m \div n <= 32830
  BY <1>2, <1>3
<1>4. CASE mixed < 0
  <2>1. Data!Quot(mixed, n) = -((-mixed) \div n)
    BY <1>4 DEF Data!Quot
  <2>2. -mixed \in Nat
    BY <1>2, <1>4
  <2> QED BY <1>1, <1>2, <1>3, <2>1, <2>2 DEF NearlyQ15
<1>5. CASE mixed >= 0
  <2>1. Data!Quot(mixed, n) = mixed \div n
    BY <1>2, <1>5 DEF Data!Quot
  <2>2. mixed \in Nat
    BY <1>2, <1>5
  <2> QED BY <1>1, <1>2, <1>3, <2>1, <2>2 DEF NearlyQ15
<1> QED BY <1>2, <1>4, <1>5 DEF NearlyQ15

\* mix_actuator with a gain of one never clips two simultaneous bands, at whatever
\* amplitudes, also in the middle of a ramp: the comment at its head, made precise.
THEOREM BandsDoNotClip ==
  ASSUME NEW l \in Int, NEW h \in Int, NEW a \in Nat, NEW b \in Nat,
         -32767 <= l, l <= 32767, -32767 <= h, h <= 32767
  PROVE  Data!Abs(Data!ToS8(Data!Normalized(l, a, h, b))) <= 127
<1>0. NearlyQ15(Data!Normalized(l, a, h, b))
  BY NormalizedFits
<1>1. PICK q \in Int : q = Data!Normalized(l, a, h, b) /\ -32830 <= q /\ q <= 32830
  BY <1>0 DEF NearlyQ15
<1>2. Data!Abs(Data!ToS8(q)) <= 127
  BY <1>1 DEF Data!Abs, Data!ToS8, Data!Quot
<1> QED BY <1>1, <1>2

\* With any gain the sample is one of the stream.
LEMMA MixFits ==
  ASSUME NEW l \in Int, NEW h \in Int, NEW a \in Nat, NEW b \in Nat, NEW gain \in Nat,
         -32767 <= l, l <= 32767, -32767 <= h, h <= 32767
  PROVE  Data!Mix(l, a, h, b, gain) \in Signed8
<1>0. NearlyQ15(Data!Normalized(l, a, h, b))
  BY NormalizedFits
<1>1. PICK q \in Int : q = Data!Normalized(l, a, h, b)
  BY <1>0 DEF NearlyQ15
<1>2. PICK g \in Int : g = (q * gain) \div 256
  OBVIOUS
<1>3. PICK s \in Int : s = Data!ToS8(g)
  BY DEF Data!ToS8, Data!Quot
<1>4. Data!Mix(l, a, h, b, gain) = Data!Clamp(s, -127, 127)
  BY <1>1, <1>2, <1>3 DEF Data!Mix
<1>5. Data!Clamp(s, -127, 127) \in Signed8
  BY SMTT(40) DEF Data!Clamp, Signed8
<1> QED BY <1>4, <1>5

\* What the run checks of the synthesiser
LEMMA SynthesisIsSound == byte \in 0..255 => Data!SynthesisSound
<1> SUFFICES ASSUME byte \in 0..255 PROVE Data!SynthesisSound
  OBVIOUS
<1>1. PICK p \in Nat : p = 256 * byte /\ p <= 65535
  OBVIOUS
<1>2. byte \in 1..127 => Data!SineQ15(256 * byte) > 0
  BY <1>1, SineRises, SineBounded
<1>3. byte > 128 => Data!SineQ15(256 * byte) < 0
  BY <1>1, SineFalls, SineBounded
<1> DEFINE sine == Data!SineQ15(256 * byte)
<1>4. sine \in Int /\ -32767 <= sine /\ sine <= 32767
  BY <1>1, SineBounded
<1> HIDE DEF sine
<1>5. ASSUME NEW lo \in {-32767, sine, 32767}, NEW hi \in {-32767, sine, 32767},
             NEW gain \in {256, 512}
      PROVE  /\ Data!Abs(lo) * 256 * byte <= 2147483647
             /\ Data!Abs(Data!ToS8(Data!Normalized(lo, 256 * byte, hi, 255 * 256)))
                  <= 127
             /\ Data!Mix(lo, 256 * byte, hi, 255 * 256, gain) \in Signed8
  <2>1. PICK l \in Int, h \in Int : /\ l = lo /\ -32767 <= l /\ l <= 32767
                                    /\ h = hi /\ -32767 <= h /\ h <= 32767
    BY <1>4
  <2>2. PICK b \in Nat, g \in Nat : b = 255 * 256 /\ g = gain
    OBVIOUS
  <2>3. Data!Abs(l) * 256 * byte <= 2147483647
    <3>1. PICK m \in Nat : m = Data!Abs(l) /\ m <= 32767
      BY <2>1 DEF Data!Abs
    <3>2. PICK k \in Nat : k = byte /\ k <= 255
      OBVIOUS
    <3>3. m * 256 * k <= 32767 * 256 * 255
      BY <3>1, <3>2
    <3> QED BY <3>1, <3>2, <3>3
  <2>4. Data!Abs(Data!ToS8(Data!Normalized(l, p, h, b))) <= 127
    BY <2>1, BandsDoNotClip
  <2>5. Data!Mix(l, p, h, b, g) \in Signed8
    BY <2>1, MixFits
  <2> QED BY <1>1, <2>1, <2>2, <2>3, <2>4, <2>5
<1>6. \A lo, hi \in {-32767, Data!SineQ15(256 * byte), 32767}, gain \in {256, 512} :
        /\ Data!Abs(lo) * 256 * byte <= 2147483647
        /\ Data!Abs(Data!ToS8(Data!Normalized(lo, 256 * byte, hi, 255 * 256))) <= 127
        /\ Data!Mix(lo, 256 * byte, hi, 255 * 256, gain) \in -127..127
  BY <1>5, SMTT(40) DEF sine, Signed8
<1> QED BY <1>2, <1>3, <1>6, SMTT(40) DEF Data!SynthesisSound

-----------------------------------------------------------------------------
\* All that the run checks of one byte
THEOREM ConversionsAreSound == byte \in 0..255 => Data!ConversionsSound
BY SticksAreSound, ButtonsAreSound, SensorsAreSound, SpiIsSound, RumbleIsSound,
   RampIsSound, SynthesisIsSound, Zenon DEF Data!ConversionsSound
=============================================================================
