\* MPD and the user do what they want until they are calm.
SPECIFICATION FairSpec
CONSTANTS
  Buttons = {1, 3}
  MaxEmits = 2
INVARIANTS
  MpdTypeOK
  StateFits
PROPERTY LabelSettles
CHECK_DEADLOCK FALSE
