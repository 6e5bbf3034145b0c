\* The specification ends when the command has returned.
CONSTANTS
  Slots = 3
  MaxSlots = 4
  Keys <- SomeKeys
  Half = 4
SPECIFICATION Spec
INVARIANTS
  NothingElse
  AllOfIt
  DeletedWhatItSays
PROPERTIES
  Returns
CHECK_DEADLOCK FALSE
