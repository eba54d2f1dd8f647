\* No clicks: an exception of Idle::on_io() is enough.
SPECIFICATION Spec
CONSTANTS
  Buttons = {}
  MaxEmits = 2
INVARIANT LossIsRetried
CHECK_DEADLOCK FALSE
