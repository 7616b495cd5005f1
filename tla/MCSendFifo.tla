----------------------------- MODULE MCSendFifo -----------------------------
(* SendFifo for TLC: the cfg gives the queue two places, so that it fills,
   and enough writes to fill it on several links. *)
EXTENDS SendFifo
=============================================================================
