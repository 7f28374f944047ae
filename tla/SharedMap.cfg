SPECIFICATION SharedSpec
CONSTANTS
  Service = {s1, s2}
  Digest = {d1}
  NoDigest = NoDigest
  RepoName = RepoName
  NoService = NoService
  ChannelCap = 1
  DiskMayFail = FALSE
INVARIANT SnapshotCoherent
CHECK_DEADLOCK FALSE
