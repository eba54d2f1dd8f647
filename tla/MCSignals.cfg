SPECIFICATION FairSpec
CONSTANTS
  Catcher = catcher
  Thread <- MCThread
  NoEvent = none
  Limit = {}
  InitialLimit = 1
  PipeCapacity = 1
  Monitor <- MCMonitor
  BarConfig <- MCBarConfig
  BarsOn <- MCBarsOn
  OnUser <- MCOnUser
  StartHidden <- MCStartHidden
  Launching <- MCLaunching
  PipeSize = 1
  MaxChildren = 2
INVARIANTS SignalsTypeOK ZombiesReaped BarsAgree
PROPERTIES SigintAnswered HandlerReturns
