SPECIFICATION Spec
CONSTANTS
  Address = {a1, a2, a3}
  MaxPlugs = 3
  MaxReloads = 1
  BarModules <- ModulesOfBar
  Sleepers = {"m2"}
  UrgentWs = {w1, w2}
  BarConfigs <- SwayBarConfigs
  MaxBarNews = 3
  GroupModules = {g1, g2, g3}
  FirstModule = g1
  MaxGroupNews = 5
  TrayItem = {i1}
  ValidItem = {i1}
  MaxRetries = 2
  MaxTrayNews = 3
INVARIANTS DesktopTypeOK BarsFollowOutputs BarAgrees DrawerFollows TrayAgrees
CHECK_DEADLOCK FALSE
