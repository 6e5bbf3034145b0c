------------------------------- MODULE MCPage -------------------------------
(* A page of a few bytes. *)
EXTENDS Page
=============================================================================
