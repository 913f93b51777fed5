SPECIFICATION MCSpec
CONSTANTS
  None = None
  Legacy = Legacy
  Empty = Empty
  Torn = Torn
  Client = {"c1", "c2"}
  ConfigPeer = {"p", "q", "bad"}
  BadPeer = {"bad"}
  BadNetwork = {"tiny"}
  ConfigModule = {"m1"}
  ConfigDefault <- DefaultConfig
  Configs <- PutConfigs
  RouteChoice = {"r2"}
  AccessChoice <- SetAccesses
  RadioChoice = {"v2"}
  ConfigName = {"n1", "n2"}
  ConfigMaxRequests = 2
  MaxFailures = 1
  MaxCrashes = 1
  AudioPage = {"p1", "p2"}
  Volume <- ThreeVolumes
  Rounded <- RoundedVolume
  MaxWrites = 2
  AudioMaxFaults = 1
  NetworkPage = {"p1", "p2"}
  NetworkMaxRequests = 3
  NetworkMaxFaults = 1
  Upload = {"u1", "u2"}
  MaxUploads = 3
  InstallerMaxFaults = 2
  Plugin = {"a", "b"}
  PluginsMaxRequests = 2
  MaxLoads = 2
  PluginsMaxFaults = 1
  Reader = {"gateway", "plugin"}
  MaxKeys = 4
  TlsMaxFaults = 3
  TrackerPeer = {"p"}
  MaxLinks = 2
  MaxEvents = 4
  TrackerCapacity = 2
  FeedPage = {"p1"}
  Faithful = {"p1"}
  Frames = {"f1"}
  Periodic <- OnePeriodic
  FeedCapacity = 2
  FeedMaxChanges = 2
  MaxTicks = 1
  MaxBreaks = 1
  RadioModule = {"a", "b"}
  Pieces = 2
  RadioMaxPackets = 2
  RadioCapacity = 2
  RadioMaxFaults = 1
  VpnPagePeer = {"a"}
  VpnPageText = {"blank", "lan"}
  Blank = "blank"
  Suggested = "lan"
  VpnPageMaxRequests = 2
  VpnPageMaxFaults = 1
  Freq <- TypedFreq
  Channel = {0, 300}
  Spacing = {0, 12500}
  Power = {0, 22}
  Pdt = {0, 300}
  Factory <- FactoryForm
  Message = {"hello"}
  MaxEdits = 2
  FormMaxRequests = 2
  FormMaxFaults = 1
  DataPeer = {"a", "b"}
  Bits = 2
  Subnets <- TwoSubnets
  TunnelIp <- TunnelIps
  LocalIp = 3
  DataMaxPackets = 2
  DataMaxChanges = 3
  CotKey = {"k1", "k2", "k3"}
  CotTask = {"t1", "t2"}
  MaxRecords = 2
  Retention = 1
  MaxTime = 2
CHECK_DEADLOCK FALSE
INVARIANTS
  TypeOK
  TornSaveAdmitsNobodyElse
  RuntimeFollowsSettings
  VolumeSurvivesMute
  ModeAsRequested
  BinaryStaysWhole
  ServiceComesBack
  ListCatchesUp
  UploadKeepsDialog
  RootCaSurvives
  TableTellsLinks
  FramesCatchUp
  DeliveredWhole
  AllowlistAsAsked
  EditorKeepsText
  LeftFieldIsInBand
  LongestMatchWins
  PacketsAccounted
  
PROPERTY ImplementsStore
