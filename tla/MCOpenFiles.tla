---------------------------- MODULE MCOpenFiles -----------------------------
(* A few files, and as many addresses for their objects. *)
EXTENDS OpenFiles
=============================================================================
