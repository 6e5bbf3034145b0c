----------------------------- MODULE MCPageAlloc -----------------------------
(* One file with room for MaxPage pages. *)
EXTENDS PageAlloc
=============================================================================
