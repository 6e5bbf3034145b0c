\* The specification ends where the behaviour of the program is undefined.
CONSTANTS
  r1 = r1
  tmp = tmp
  s1 = s1
  s2 = s2
  Names = {r1, tmp}
  Tmp = tmp
  Commanded = {r1}
  Schemas = {s1, s2}
  Width <- Widths
SPECIFICATION Spec
INVARIANTS
  CatalogsAgree
  CreatedStaysInOrder
  DestroyedIsGone
  SurvivesCrash
  NamesCanBeFreed
CONSTRAINT Bounds
CHECK_DEADLOCK FALSE
