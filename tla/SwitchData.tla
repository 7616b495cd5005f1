----------------------------- MODULE SwitchData -----------------------------
(***************************************************************************)
(* The arithmetic of Switch mode: a DualSense input report becomes a       *)
(* Switch Pro one (dualsense_parser.cpp, switch_pro_protocol.cpp), and an  *)
(* HD rumble command becomes amplitudes, frequencies and PCM samples       *)
(* (switch_rumble.cpp, switch_haptics_synth.cpp).                          *)
(*                                                                         *)
(* The module has one variable, a byte that runs through all its values;   *)
(* the property is about everything the code computes from that byte.      *)
(***************************************************************************)
EXTENDS Integers, Sequences

VARIABLE byte

Bit(b, i) == (b \div 2^i) % 2 = 1
Clamp(v, lo, hi) == IF v < lo THEN lo ELSE IF v > hi THEN hi ELSE v
Abs(v) == IF v < 0 THEN -v ELSE v
\* Division of the language: towards zero
Quot(a, b) == IF a < 0 THEN -((-a) \div b) ELSE a \div b

-----------------------------------------------------------------------------
(* dualsense_parser.cpp                                                    *)

FaceButtons == [i \in 4..7 |-> <<"square", "cross", "circle", "triangle">>[i - 3]]
ShoulderButtons == [i \in 0..7 |->
  <<"L1", "R1", "L2", "R2", "create", "options", "L3", "R3">>[i + 1]]
SystemButtons == [i \in 0..2 |-> <<"home", "pad", "mute">>[i + 1]]

Named(table, b) == {table[i] : i \in {j \in DOMAIN table : Bit(b, j)}}

ExpandAxis(b) == b * 257
ReadS16(lo, hi) == IF hi >= 128 THEN lo + 256 * hi - 65536 ELSE lo + 256 * hi

DpadNeutral == 8
Parse(face, shoulders, system) ==
  [buttons |-> Named(FaceButtons, face) \cup Named(ShoulderButtons, shoulders)
               \cup Named(SystemButtons, system),
   dpad |-> IF (face % 16) <= DpadNeutral THEN face % 16 ELSE DpadNeutral]

Power(b) == [battery |-> b % 16, charging |-> b \div 16 \in {1, 2}]

-----------------------------------------------------------------------------
(* switch_pro_protocol.cpp: fill_input and fill_imu_sample                 *)

STICK_MIN == \h15c
STICK_MAX == \hea4

AxisTo12(v) == Clamp(v \div 16, STICK_MIN, STICK_MAX)

StickX(b) == AxisTo12(ExpandAxis(b))
\* (the faulty variant, used by no specification, forgets to flip the axis)
StickY_NotFlipped(b) == AxisTo12(ExpandAxis(b))
StickY(b) == (4096 - AxisTo12(ExpandAxis(b))) % 4096

PackStick(x, y) ==
  <<x % 256, ((x \div 256) % 16) + 16 * (y % 16), (y \div 16) % 256>>
\* How the host reads the three bytes
UnpackStick(p) == <<p[1] + 256 * (p[2] % 16), p[2] \div 16 + 16 * p[3]>>

BatteryLevel(level) ==
  CASE level <= 1 -> 0 [] level \in 2..3 -> 2 [] level \in 4..5 -> 4
    [] level \in 6..8 -> 6 [] OTHER -> 8

\* A trigger counts as pressed as soon as it moves
SwitchName == [square |-> "Y", triangle |-> "X", cross |-> "B", circle |-> "A",
  R1 |-> "R", R2 |-> "ZR", create |-> "minus", options |-> "plus", R3 |-> "RS",
  L3 |-> "LS", home |-> "home", pad |-> "capture", L1 |-> "L", L2 |-> "ZL"]
SwitchButtons(c, l2, r2) ==
  {SwitchName[b] : b \in c.buttons \cap DOMAIN SwitchName}
    \cup (IF l2 # 0 THEN {"ZL"} ELSE {}) \cup (IF r2 # 0 THEN {"ZR"} ELSE {})
SwitchDpad(c) ==
  (IF c.dpad \in {7, 0, 1} THEN {"up"} ELSE {})
    \cup (IF c.dpad \in 1..3 THEN {"right"} ELSE {})
    \cup (IF c.dpad \in 3..5 THEN {"down"} ELSE {})
    \cup (IF c.dpad \in 5..7 THEN {"left"} ELSE {})

ScaleSigned(v, num, den) ==
  LET scaled == v * num
      half == IF scaled >= 0 THEN den \div 2 ELSE -(den \div 2)
  IN  Clamp(Quot(scaled + half, den), -32768, 32767)

ScaleAccel(v) == ScaleSigned(v, 4096, 8192)
ScaleGyro(v) == ScaleSigned(v, 14284, 16000)
\* Switch axes are (-Z, -X, Y) of the DualSense's
ImuSample(accel, gyro) ==
  [accel |-> <<ScaleAccel(-accel[3]), ScaleAccel(-accel[1]), ScaleAccel(accel[2])>>,
   gyro |-> <<ScaleGyro(-gyro[3]), ScaleGyro(-gyro[1]), ScaleGyro(gyro[2])>>]

-----------------------------------------------------------------------------
(* switch_pro_protocol.cpp: the SPI banks the host reads                   *)

\* Address and bytes present of the two banks; the rest reads as erased
Banks == {[base |-> \h6000, top |-> \h7000, size |-> 170],
          [base |-> \h8000, top |-> \h8100, size |-> 62]}
\* The published stick calibration: reach above and below, and centre
StickReach == UnpackStick(<<\ha4, \h46, \h6a>>)
StickCentre == UnpackStick(<<\h00, \h08, \h80>>)

\* read_spi: how many bytes are copied, and from where
SpiCopy(address, asked) ==
  LET size == IF asked < 44 THEN asked ELSE 44
      in == {b \in Banks : address >= b.base /\ address < b.top}
      hit == {b \in in : address - b.base < b.size}
  IN IF hit = {} THEN [from |-> 0, len |-> 0, size |-> size]
     ELSE LET b == CHOOSE x \in hit : TRUE
              offset == address - b.base
          IN [from |-> offset, size |-> size,
              len |-> IF size < b.size - offset THEN size ELSE b.size - offset]

-----------------------------------------------------------------------------
(* switch_rumble.cpp                                                       *)

HighAmplitudeCode(d) == d[2] \div 2
LowAmplitudeCode(d) ==
  IF d[4] < 64 THEN 0
  ELSE LET code == 2 * (d[4] - 64) + d[3] \div 128
       IN  IF code < 100 THEN code ELSE 100

Louder(milli, q16) == (milli * q16 + 32768) \div 65536
Grow(a, start, code, q16) ==
  LET f[i \in start..code] == IF i = start THEN a ELSE Louder(f[i - 1], q16)
  IN  f[code]

\* amplitude_code_to_u8: three logarithmic ranges, in thousandths
Milli(code) ==
  CASE code = 1 -> 8
    [] code \in 2..15 -> Grow(12, 2, code, 77936)
    [] code \in 16..31 -> Grow(117, 16, code, 68438)
    [] OTHER -> Grow(230, 32, code, 66971)

AmplitudeToU8(code) ==
  IF code = 0 THEN 0
  ELSE LET m == Milli(IF code < 100 THEN code ELSE 100)
           milli == IF m < 1003 THEN m ELSE 1003
       IN  (milli * 255 + 501) \div 1003

\* frequency_code_to_hz, in steps of 66971 = 65536 + 1435 sixty-five thousandths
Higher(milliHz) == milliHz + (milliHz * 1435 + 32768) \div 65536
FrequencyMilliHz[code \in 0..255] ==
  IF code <= 64 THEN 40000 ELSE Higher(FrequencyMilliHz[code - 1])
FrequencyHz(code) == (FrequencyMilliHz[code] + 500) \div 1000

HighFrequency(d) == FrequencyHz(96 + (d[1] + 256 * (d[2] % 2)) \div 4)
LowFrequency(d) == FrequencyHz(64 + (d[3] % 128))

DecodeActuator(d) ==
  [lowHz |-> LowFrequency(d), lowAmp |-> AmplitudeToU8(LowAmplitudeCode(d)),
   highHz |-> HighFrequency(d), highAmp |-> AmplitudeToU8(HighAmplitudeCode(d))]

-----------------------------------------------------------------------------
(* switch_haptics_synth.cpp                                                *)

AMPLITUDE_RAMP_SAMPLES == 16

\* render_oscillator: the amplitude after n samples of the ramp
Approach(a, to, remaining) == a + Quot(to - a, remaining)
Ramp(from, to, n) ==
  LET f[i \in 0..n] ==
        IF i = 0 THEN from
        ELSE Approach(f[i - 1], to, AMPLITUDE_RAMP_SAMPLES - (i - 1))
  IN  f[n]

\* sine_q15, of the upper half of the phase: a parabola, corrected
Parabola(x) == (4 * x * (32768 - Abs(x))) \div 32768
Corrected(y) == y + (7373 * ((y * Abs(y)) \div 32768 - y)) \div 32768
Turn(p) == IF p >= 32768 THEN p - 65536 ELSE p
SineSum(p) == Corrected(Parabola(Turn(p)))

SineQ15(p) == Clamp(SineSum(p), -32767, 32767)

\* mix_actuator, from the oscillators' samples in Q15; products are shifted back
\* from Q8 before they are added, and the sum is normalised
Normalized(low, lowAmp, high, highAmp) ==
  LET mixed == (low * lowAmp) \div 256 + (high * highAmp) \div 256
      total == (lowAmp + highAmp + 128) \div 256
  IN  Quot(mixed, IF total > 255 THEN total ELSE 255)
ToS8(q15) == Quot(q15 * 127, 32767)
Mix(low, lowAmp, high, highAmp, gain) ==
  Clamp(ToS8((Normalized(low, lowAmp, high, highAmp) * gain) \div 256), -127, 127)

-----------------------------------------------------------------------------
Init == byte = 0
NextByte == byte' = (byte + 1) % 256

\* What the code and its comments promise of one byte, wherever it occurs.
\* A stick keeps both ends and its direction and stays in the calibrated reach,
\* with up and down exchanged, and the host unpacks what was packed.
SticksSound ==
  /\ StickX(byte) \in STICK_MIN..STICK_MAX /\ StickY(byte) \in STICK_MIN..STICK_MAX
  /\ <<STICK_MIN, STICK_MAX>> = <<StickCentre[1] - StickReach[1],
                                  StickCentre[1] + StickReach[1]>>
  /\ byte > 0 => StickX(byte) >= StickX(byte - 1) /\ StickY(byte) <= StickY(byte - 1)
  /\ UnpackStick(PackStick(StickX(byte), StickY(byte))) = <<StickX(byte), StickY(byte)>>

\* Opposite directions are never pressed together, and no pressed button is lost
\* but mute.
ButtonsSound ==
  LET c == Parse(byte, byte, byte)
  IN  /\ ~({"up", "down"} \subseteq SwitchDpad(c))
      /\ ~({"left", "right"} \subseteq SwitchDpad(c))
      /\ \A b \in c.buttons \ {"mute"} : SwitchName[b] \in SwitchButtons(c, 0, 0)
      /\ BatteryLevel(Power(byte).battery) \in {0, 2, 4, 6, 8}

\* A sensor value keeps its sign and fits.
SensorsSound ==
  LET s == ReadS16(byte, byte)
      sample == ImuSample(<<s, s, s>>, <<s, s, s>>)
  IN  /\ Abs(ScaleGyro(s)) <= Abs(s) /\ Abs(ScaleAccel(s)) <= Abs(s)
      /\ s > 1 => sample.gyro[2] < 0 /\ sample.accel[3] > 0

\* An SPI read stays inside its bank and the reply.
SpiSound ==
  \A base \in {\h5f80, \h6000, \h6080, \h8000}, asked \in {0, 44, 255} :
    LET copy == SpiCopy(base + byte, asked)
    IN  copy.len <= copy.size /\ 20 + copy.size <= 64
        /\ (copy.len > 0 => copy.from + copy.len <= 170)

\* A stronger rumble code is never weaker, silence alone is silent, and every
\* frequency is below the 1.5 kHz of the haptics stream.
RumbleSound ==
  LET code == byte % 128
      acts == {DecodeActuator(<<byte, byte, byte, byte>>),
               DecodeActuator(<<byte, 255, byte, byte>>)}
  IN  /\ code > 0 => AmplitudeToU8(code) >= AmplitudeToU8(code - 1)
      /\ AmplitudeToU8(code) \in 0..255 /\ (AmplitudeToU8(code) = 0 <=> code = 0)
      /\ \A a \in acts : a.lowHz \in 40..1499 /\ a.highHz \in 40..1499

\* The ramp ends on its target without leaving the interval.
RampSound ==
  LET to == 256 * byte
  IN  \A from \in {0, 256, 255 * 256} :
        /\ Ramp(from, to, AMPLITUDE_RAMP_SAMPLES) = to
        /\ \A n \in 0..AMPLITUDE_RAMP_SAMPLES :
             /\ Ramp(from, to, n) <= IF from < to THEN to ELSE from
             /\ Ramp(from, to, n) >= IF from < to THEN from ELSE to

\* The sine has its sign, neither the products nor the mixed sample overflow, and
\* two bands at once clip at a gain above one only.
SynthesisSound ==
  /\ byte \in 1..127 => SineQ15(256 * byte) > 0
  /\ byte > 128 => SineQ15(256 * byte) < 0
  /\ \A low, high \in {-32767, SineQ15(256 * byte), 32767}, gain \in {256, 512} :
       /\ Abs(low) * 256 * byte <= 2147483647
       /\ Abs(ToS8(Normalized(low, 256 * byte, high, 255 * 256))) <= 127
       /\ Mix(low, 256 * byte, high, 255 * 256, gain) \in -127..127

ConversionsSound ==
  /\ SticksSound /\ ButtonsSound /\ SensorsSound /\ SpiSound
  /\ RumbleSound /\ RampSound /\ SynthesisSound
=============================================================================
