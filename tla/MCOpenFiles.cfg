\* Two files that can be open together, and closed and opened in the place of
\* each other.
CONSTANTS
  Names = {n1, n2}
  Handles = {h1, h2}
  MaxOpen = 2
SPECIFICATION Spec
INVARIANTS
  OneObjectPerFile
  OpenCountsKept
  ReadsItsFileUnlessLost
