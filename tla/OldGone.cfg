SPECIFICATION Spec
CONSTANTS
  s1 = s1
  i1 = i1
  Service = {s1}
  Image = {i1}
  ImageOf <- OneImage
  Digest = {1, 2}
  BuiltAt <- ByNumber
  NoDigest = NoDigest
  RepoName = RepoName
  NoService = NoService
  Network = {}
  Configs <- PlainOnly
  NoOne = NoOne
  Sideloaded = {}
  Caller = {r1}
  ChannelCap = 2
  DiskMayFail = FALSE
  MayCancel = FALSE
  MayFault = FALSE
  MaxRestarts = 0
INVARIANT GoneLeavesWayBack
CHECK_DEADLOCK FALSE
