---------------------------- MODULE MCClockSweep ----------------------------
(* Every pool of NumBufs frames, from every position of the hand. *)
EXTENDS ClockSweep
=============================================================================
