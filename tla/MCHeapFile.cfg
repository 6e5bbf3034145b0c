\* Two data pages of two records.  The specification ends where the behaviour of
\* the program is undefined.
CONSTANTS
  c1 = c1
  c2 = c2
  Clients = {c1, c2}
  Uses <- EveryUse
  Markers = {c2}
  Records <- ShortAndTooLong
  DataSize = 4
  SlotSize = 1
  MaxPage = 3
SPECIFICATION Spec
INVARIANTS
  ChainSound
  ScanFindsAll
  PinsKept
  ChangesSaved
  CountKept
CHECK_DEADLOCK FALSE
