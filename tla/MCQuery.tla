------------------------------ MODULE MCQuery -------------------------------
(* Ints of three bits, -4..3: 2 - (-4) is none, the other differences are. *)
EXTENDS Query

SomeKeys == {-4, -1, 2}
=============================================================================
