SPECIFICATION Spec
CONSTANTS
  s1 = s1
  i1 = i1
  Service = {s1}
  Image = {i1}
  ImageOf <- OneImage
  Digest = {1, 2}
  BuiltAt <- ByNumber
  NoDigest = NoDigest
  RepoName = RepoName
  NoService = NoService
  Network = {n1, n2}
  Configs <- PlainOnly
  NoOne = NoOne
  Sideloaded = {}
  Caller = {r1, r2}
  ChannelCap = 1
  DiskMayFail = TRUE
  MayCancel = TRUE
  MayFault = TRUE
  MaxRestarts = 1
SYMMETRY RequestSymmetry
INVARIANTS TypeOK SpinnerOwned SpinnerTruthful RecordedIsRunning PreviousIsWayBack NetworksKept
CHECK_DEADLOCK FALSE
CONSTRAINT FewTroubles
