SPECIFICATION SystemSpec
CONSTANTS
  s1 = s1
  i1 = i1
  Service = {s1}
  Image = {i1}
  ImageOf <- OneImage
  Digest = {1, 2}
  BuiltAt <- ByNumber
  NoDigest = NoDigest
  RepoName = RepoName
  NoService = NoService
  Network = {}
  Configs <- PlainOnly
  Sweeper = {}
  Manual = {}
  PollConcurrency = 1
  Documents <- FirstBoot
  NoOne = NoOne
  Sideloaded = {}
  Caller = {r1}
  ChannelCap = 1
  DiskMayFail = FALSE
  MayCancel = TRUE
  MayFault = FALSE
  MaxFaults = 1
  MaxOutside = 1
  MaxTroubles = 2
  MaxRestarts = 1
SYMMETRY RequestSymmetry
INVARIANTS RowIsContainer StoppedIsShown SpinnerOwned SpinnerTruthful PreviousSurvives
CHECK_DEADLOCK FALSE
