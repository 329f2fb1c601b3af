\* An automatic reply of two segments, two works of one process under two epochs.
SPECIFICATION LiveSpec
CONSTANTS
  r1 = r1
  r2 = r2
  NoPlatformId = NoPlatformId
  NoPolicy = NoPolicy
  NoTrigger = NoTrigger
  NoZone = NoZone
  NoDigest = NoDigest
  NoBatch = NoBatch
  NoReply = NoReply
  Accounts = {a1}
  PlatformIds = {p1, p2}
  Policies <- OnePolicy
  DayLength = 2
  MaxScopes = 9
  Owners = {o1}
  MaxEpoch = 2
  MaxTime = 0
  LeaseEnds = {1}
  ManualTriggers = {}
  Events = {e1}
  Responses = {r2}
  SegmentCount <- TwoSegments
  MaxSegments = 2
  MaxAttempts = 2
  PendingLimit = 9
  Digests = {d1}
  Streams = {s1}
  MaxGeneration = 1
  LiveGenerations = {}
  MaxCheckpoint = 0
  Hashes = {h1}
  MaxPending = 9
  NoticeTimes = {}
  Slack = 1
  FreshWindow = 1
  RiskRecheck = 2
  PairWindow = 1
  RetainClaims = 2
  MaxClaims = 9
  MaxWorks = 2
  Permissions = {"none", "all"}
INVARIANTS RequestsInOrder SettledBatchIsQuiet
CHECK_DEADLOCK FALSE
