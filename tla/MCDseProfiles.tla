--------------------------- MODULE MCDseProfiles ---------------------------
(* DseProfiles for TLC: the cfg scales the times down and keeps their order,
   Pace <= SaveDelay < PollStart < UnlockWait < RefetchAt, with a whole
   prefetch shorter than the time from the last poll to the refetch. *)
EXTENDS DseProfiles
=============================================================================
