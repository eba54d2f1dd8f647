\* Two workers; limits 2, 1 and 0, which is "unlimited".
SPECIFICATION FairSpec
CONSTANTS
  Thread = {t1, t2}
  NoEvent = 0
  Limit = {0, 1}
  InitialLimit = 2
  PipeCapacity = 2
  MaxSent = 5
INVARIANTS TypeOK NoLostWakeup NewestSuffix
PROPERTIES ChannelSpec
