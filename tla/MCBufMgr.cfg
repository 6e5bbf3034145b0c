\* Three files of one page over two frames: every access may be an eviction,
\* pages are pinned up to twice, and all three may be wanted at a time.
CONSTANTS
  NumBufs = 2
  MaxPage = 1
  MaxPins = 2
  Files = {f1, f2, f3}
  Data = {a}
SPECIFICATION Spec
SYMMETRY FileSymmetry
INVARIANTS
  HashMatchesFrames
  PinsKept
  CleanIsOnDisk
PROPERTIES
  FlushIsDurable
