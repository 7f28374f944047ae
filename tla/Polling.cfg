SPECIFICATION SystemFairSpec
CONSTANTS
  s1 = s1
  i1 = i1
  Service = {s1}
  Image = {i1}
  ImageOf <- OneImage
  Digest = {1, 2}
  BuiltAt <- ByNumber
  NoDigest = NoDigest
  RepoName = RepoName
  NoService = NoService
  Network = {}
  Configs <- PlainOnly
  Sweeper = {cron}
  Manual = {}
  PollConcurrency = 1
  Documents <- FirstBoot
  NoOne = NoOne
  Sideloaded = {}
  Caller = {r1}
  ChannelCap = 1
  DiskMayFail = FALSE
  MayCancel = FALSE
  MayFault = FALSE
  MaxFaults = 0
  MaxOutside = 0
  MaxTroubles = 0
  MaxRestarts = 0
INVARIANTS SystemTypeOK
PROPERTIES RequestsFinish SpinnerConverges PollConverges PullErrorClears
CHECK_DEADLOCK FALSE
