----------------------------- MODULE MCHeapFile -----------------------------
(* Two clients, with records two of which share a page, and records that       *)
(* insertRecord accepts and no page can hold.                                  *)
EXTENDS HeapFile, TLC

CONSTANTS c1, c2

Short == [len |-> 1, hit |-> TRUE]
TooLong == [len |-> 4, hit |-> TRUE]

ShortAndTooLong == {Short, TooLong}

\* One scans; the other inserts, scans with marks and reads by RID.
EveryUse == (c1 :> {"scan"} @@ c2 :> {"insert", "scan", "reader"})
=============================================================================
