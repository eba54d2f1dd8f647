SPECIFICATION Spec
CONSTANTS
  UpDev = {"b0", "b1"}
  Wanted = "b1"
  DisplayDevice = "sum"
  NullDevice = "null"
  MaxUpNews = 4
  Bat <- TwoBats
  Files <- BatFiles
  Adapter = "ac"
  BatConfigs <- BatCfgs
  BatFull = 2
  UintSize = 256
  MaxBatNews = 2
  BlDevice = {"s1", "kbd"}
  Screen = {"s1"}
  MaxBrightness <- BlMaxes
  BlConfigs <- BlCfgs
  MaxBlNews = 2
  MaxBlSets = 2
  Kbd = {"k1", "k2"}
  NoKbd = "none"
  KbdTries = 1
  MaxKbdNews = 4
  InhBars <- TwoBars
  InhTimeouts = {0, 2}
  InhStep = 2
  MaxInhNews = 5
  PpProfiles <- ThreeProfiles
  OddProfile = "custom"
  MaxPpNews = 4
  MaxPpAsked = 2
  MaxGames = 2
  MaxGameNews = 4
  Manager = {"system", "user"}
  Unit = {"a"}
  MaxUnitNews = 2
  PwNode = {"s", "m", "g"}
  PrivKind = {"screenshare", "audio-in", "location"}
  KindOfNode <- Kinds
  IgnoredNodes = {"g"}
  LocationKind = "location"
  MaxPrivNews = 5
PROPERTY SignalToggles
CHECK_DEADLOCK FALSE
