------------------------------ MODULE MCBtLink ------------------------------
(* BtLink for TLC: every constant is given by the cfg; controllers are
   interchangeable for the safety runs. *)
EXTENDS BtLink, TLC

AddrSymmetry == Permutations(Addrs)
=============================================================================
