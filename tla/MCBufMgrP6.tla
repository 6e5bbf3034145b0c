----------------------------- MODULE MCBufMgrP6 -----------------------------
(* The buffer manager of P6 on small instances. *)
EXTENDS BufMgrP6, TLC

FileSymmetry == Permutations(Files)
=============================================================================
