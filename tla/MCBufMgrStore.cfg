\* One frame for three pages of a file, so that every change of page is an
\* eviction, pages are free, in use and in use again, and two contents can be
\* told apart.
CONSTANTS
  NumBufs = 1
  MaxPage = 3
  MaxPins = 2
  Files = {f1}
  Data = {a, b}
SPECIFICATION Spec
SYMMETRY DataSymmetry
INVARIANTS
  FilesSound
PROPERTIES
  IsPageStore
