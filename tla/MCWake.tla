------------------------------- MODULE MCWake -------------------------------
(* Wake for TLC: the cfg scales the times down and keeps their order,
   Hold < Settle = UpSettle < Debounce < Timeout = Grace. *)
EXTENDS Wake
=============================================================================
