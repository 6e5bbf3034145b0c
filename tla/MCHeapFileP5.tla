---------------------------- MODULE MCHeapFileP5 ----------------------------
(* Small heap files of stage P5. *)
EXTENDS HeapFileP5, TLC

CONSTANTS c1, c2

\* Two clients that scan, one of which inserts, and one reads by RID.
TwoScans == (c1 :> {"insert", "scan"} @@ c2 :> {"scan", "reader"})
=============================================================================
