SPECIFICATION SystemFairSpec
CONSTANTS
  s1 = s1
  i1 = i1
  Service = {s1}
  Image = {i1}
  ImageOf <- OneImage
  Digest = {1, 2}
  BuiltAt <- ByNumber
  NoDigest = NoDigest
  RepoName = RepoName
  NoService = NoService
  Network = {}
  Configs <- ThreeKinds
  Sweeper = {cron, now}
  Manual = {now}
  PollConcurrency = 1
  Documents <- FirstBoot
  NoOne = NoOne
  Sideloaded = {}
  Caller = {}
  ChannelCap = 1
  DiskMayFail = FALSE
  MayCancel = FALSE
  MayFault = FALSE
  MaxFaults = 1
  MaxOutside = 2
  MaxTroubles = 2
  MaxRestarts = 0
INVARIANTS CacheFollowsLabels RowIsContainer
PROPERTIES PollConverges NotesConverge
CHECK_DEADLOCK FALSE
