------------------------------ MODULE MCBufMgr ------------------------------
(* The buffer manager on small instances. *)
EXTENDS BufMgr, TLC

\* Nothing in the code looks into client data or tells files apart.
DataSymmetry == Permutations(Data)
FileSymmetry == Permutations(Files)
=============================================================================
