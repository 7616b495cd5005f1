------------------------------ MODULE MCPanel -------------------------------
(* Panel for TLC.  The host sends two bodies: the defaults with wake set and a
   polling rate out of range, and one of an older version. *)
EXTENDS Panel, ConfigBody

Wake(v) == [Default EXCEPT !["enable_wake"] = v]

MCHostBodies ==
  {[Wake(1) EXCEPT !["polling_rate_mode"] = 9],
   [Wake(1) EXCEPT !["config_version"] = 4]}
=============================================================================
