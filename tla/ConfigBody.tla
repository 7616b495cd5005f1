---------------------------- MODULE ConfigBody -----------------------------
(***************************************************************************)
(* The body of the configuration record (Config_body of config.h), with    *)
(* the range and the default that config_valid (config.cpp) gives each     *)
(* field.  A body assigns a byte to each field.                            *)
(***************************************************************************)
EXTENDS Naturals

ConfigVersion == 5

\* Config_body in the order of its bytes; haptics_gain, a float, in tenths
Fields == <<"config_version", "haptics_gain", "speaker_volume",
  "headset_volume", "speaker_gain", "inactive_time", "disable_pico_led",
  "polling_rate_mode", "audio_buffer_length", "controller_mode",
  "enable_usb_sn", "ps_shortcut_enabled", "disable_mic", "disable_speaker",
  "enable_wake", "trigger_reduce">>
Names == {Fields[i] : i \in DOMAIN Fields}

\* What the host sets past config_valid, a level above 127 too
Volumes == {"speaker_volume", "headset_volume"}
TooLoud == 200

\* Range and default of each field, as config_valid has them
Legal == [f \in Names |->
  CASE f = "config_version" -> {ConfigVersion}
    [] f = "haptics_gain" -> 10..20
    [] f \in Volumes -> 0..127
    [] f = "speaker_gain" -> 0..7
    [] f = "inactive_time" -> 0..60
    [] f \in {"polling_rate_mode", "controller_mode"} -> 0..2
    [] f = "audio_buffer_length" -> 16..128
    [] f = "trigger_reduce" -> 0..10
    [] OTHER -> 0..1]
Default == [f \in Names |->
  CASE f = "config_version" -> ConfigVersion
    [] f = "haptics_gain" -> 10
    [] f \in Volumes -> 100
    [] f \in {"speaker_gain", "controller_mode"} -> 2
    [] f = "inactive_time" -> 30
    [] f = "polling_rate_mode" -> 1
    [] f = "audio_buffer_length" -> 64
    [] OTHER -> 0]

AnyBody == [Names -> 0..255]
=============================================================================
