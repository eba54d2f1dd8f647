SPECIFICATION Spec
CONSTANTS
  HyprWs = {w1, w2}
  HyprWin = {x1}
  NoWs = none
  Persistent = {w1}
  MaxHyprNews = 3
  Layout = {l1, l2}
  Keymap = {k1, k2}
  DefaultMap = k1
  IpcBars <- Bars
  MaxIpcNews = 2
  SwayKinds = {"workspaces", "window", "scratchpad", "mode", "language"}
  NumOf <- Numbers
  SwayPersistent <- Configured
  SwayModes = {"default", "resize"}
  Keymaps <- Layouts
  MaxSwayNews = 3
  MaxSwayDrops = 1
  NiriWs = {w1, w2}
  NiriWin = {x1, x2}
  NoWin = none
  NiriLayouts = {1, 2}
  NiriConfigs <- NiriConfigurations
  MaxNiriNews = 2
  MaxNiriDrops = 1
  XwSpace = {s1, s2}
  XwGroup = {g1, g2}
  XwName <- Names
  XwConfigs <- XwConfigurations
  MaxXwNews = 3
  TbWin = {t1, t2}
  TbSpace = {s1, s2}
  NoSpace = none
  TbApp = {"a", "b"}
  TbTitle = {"", "t"}
  TbConfigs <- TaskbarConfigurations
  MaxTbNews = 4
INVARIANTS CompositorsTypeOK HyprlandAgrees NoCallAfterFree SwayMirrored NiriAgrees ButtonsAgree
CHECK_DEADLOCK FALSE
