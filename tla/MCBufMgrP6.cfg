\* Three files of one page over two frames: every access may be an eviction, and
\* a page that allocatePage has failed to count can be read before it is given
\* to anybody.
CONSTANTS
  NumBufs = 2
  MaxPage = 1
  MaxPins = 1
  Files = {f1, f2, f3}
  Data = {a}
SPECIFICATION SpecP6
SYMMETRY FileSymmetry
INVARIANTS
  EntriesLead
  SoundUntilFaulty
PROPERTIES
  StoreUntilFaulty
