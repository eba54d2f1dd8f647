SPECIFICATION Spec
CONSTANTS
  Link = {e1, w2}
  Wireless = {w2}
  MatchingLinks = {e1, w2}
  NoLink = nolink
  Addr = {"a"}
  Metric = {1, 2}
  MaxNetNews = 2
  MaxNetDrops = 1
  WpSink = {"a", "v"}
  WpSource = {"m"}
  NoNode = "none"
  WpConfigs <- WpCfgs
  MaxWpNews = 2
  MaxWpGen = 2
  PaSink = {"a", "b"}
  PaSource = {"m"}
  PaConfigs <- PaCfgs
  MaxVolume = 2
  MaxPaNews = 2
  MaxPaSets = 1
  Player = {"a", "b"}
  Proxy = "d"
  MprisConfigs <- MprisCfgs
  MprisTracks <- MprisTwoTracks
  SeparatorLen = 3
  MaxMprisNews = 3
  Controller = {"h1", "h2"}
  BtDevice = {"k", "m", "x"}
  ControllerOf <- BtControllers
  NoAdapter = "none"
  NoLevel = 0
  GattChars <- BtGatt
  BtConfigs <- BtCfgs
  MaxBtNews = 3
INVARIANTS ServicesTypeOK NetAgrees AudioAgrees PlayersAgree
CHECK_DEADLOCK FALSE
