\* Six bytes and slots of one: up to six records, of up to five bytes.
CONSTANTS
  DataSize = 6
  SlotSize = 1
  Byte = {0, 1}
SPECIFICATION Spec
INVARIANTS
  RecordsKept
  SpaceAccounted
  EmptyIsWhole
PROPERTIES
  DeleteKeepsScan
