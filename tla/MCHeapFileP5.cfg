\* Three data pages of one record: one client inserts and scans, the other scans
\* with marks and reads by RID.
CONSTANTS
  c1 = c1
  c2 = c2
  Clients = {c1, c2}
  Uses <- TwoScans
  Markers = {c2}
  Records = {"hit"}
  PageRecords = 1
  MaxPage = 4
  MaxOdd = 1
SPECIFICATION Spec
INVARIANTS
  ScanFindsAll
  PinsKept
  ChangesSaved
CHECK_DEADLOCK FALSE
