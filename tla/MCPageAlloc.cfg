CONSTANTS
  MaxPage = 5
  Data = {a}
SPECIFICATION AllocSpec
INVARIANTS
  Sound
  NoPageLost
PROPERTIES
  HandsOutUnused
